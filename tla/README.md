# TLA+ models of the XJTLU autonomous vehicle (RTK)

Models, model-checking configurations and machine-checked proofs for the parts
of this repository that decide where the vehicle is, where it goes and whether
it stops: the firmware of the lower controller, the two nodes that turn a route
or a destination into Nav2 goals, the two that own `map -> odom`, and the
control of the LIO and of the RTK factor-graph localizer. Paths below are
relative to the repository.

## The system

| Component | Where | State it keeps | Operations | Talks to |
|---|---|---|---|---|
| Lower controller | `src/firmware/rm_c_board/Core/Src` | control mode, four motor flags, current command, brake ramp, gamepad bytes, task waiting times, receive buffer | wheel task (200 Hz), gamepad task, status line, `Serial_Input`; interrupts TIM8, EXTI0 (KEY), USART1, CAN | host over UART, motors over CAN, gamepad |
| serial_twistctl, serial_reader | `src/sensor_drivers/serial_*` | the port | one line per `/cmd_vel`; one `/odom`, `/chassis/status` per line | lower controller |
| gps_route_runner | `src/navigation/gps_waypoint_dispatcher` | waypoint, progress, alignment, fix, watchdog counters | `run` and the loops it calls; two callbacks | aligner, Nav2, TF, `/fix` |
| goal manager | same | one request: target, anchor, path, three goal handles | `goto_name`, `stop`, six callbacks on futures | three Nav2 action servers |
| gps_global_aligner | same | bootstrap and current alignment, pair window, calibration pairs, one pending request | `run`, its waits and its loop; callbacks | route runner, corrector; TF |
| rtk_map_odom_corrector, rtk_authority | same | own bootstrap alignment, last sample used, smoothed target, last output | timer; fix, heading, status, alignment callbacks | aligner; TF |
| gps_anchor_localizer, gnss_calibration | `src/sensor_drivers/gnss` | readiness ladder, nearest anchor | fix callback | goal manager |
| um982_rtk_driver | same | last sentences, NTRIP connection | serial and network loops | `/fix`, heading |
| rtk_fgo_localizer | `src/perception` | localization state machine, frame anchor, factor graph with its window | timer, subscriptions | LIO, receiver; TF, status |
| fastlio2 | `src/perception` | IMU and LiDAR buffers, the package, the filter's time | two callbacks, timer | sensors; odometry for all |
| localizer, pgo, pgo_gps_fusion, hba | `src/perception` | keyframes, pose graph | callbacks and timers | fastlio2 |
| frc (event marker, health, risk, memory) | `src/frc` | anchors and sessions, cooldowns, risk grid | callbacks and timers | Nav2's costmap |
| planning, bringup, scripts | `src/planning`, `src/bringup`, `scripts` | | | |

What makes them hard: the firmware is a super loop with interrupts between any
two steps and five flags set in five places; the route runner mixes a blocking
loop with callbacks in its spins and two positions (map and GPS) that may
disagree; the goal manager is a chain of callbacks into which a stop may fall
anywhere; these rely on remote servers that refuse, lie or come late. The
aligner and the corrector feed each other; the RTK localizer counts samples
across ticks and renumbers its states; the LIO pairs two streams that come
late, with gaps, and with clocks that step back.
`PROJECT.json` lists each hazard at its line with the properties that would
catch it, and every component, the ones without a model too, with the reason.

What makes each component correct:

- Lower controller: only the selected source drives the wheels; a stop by X, B,
  KEY or a lost gamepad holds until Y (KEY: for ever); the brake is bounded,
  ramped and never accelerates; after a torn message the buffer is read again.
- Route runner: progress is real, success means arrival, a goal is abandoned
  only on purpose, and the route ends.
- Goal manager: one goal at a time, of the task that was asked for; it never
  stays busy for nothing; a stop stops.
- Aligner, corrector: the published transform moves by bounded steps; a bad
  input holds the last output; the loop of the two neither runs away nor waits
  for itself, and settles.
- rtk_fgo: a lock is earned by consecutive good samples and lost with them; a
  measurement stays with the state it was made for; wheel motion is counted once.
- fastlio2: every instant enters the estimate once, forward; no cloud waits for
  data that is there.

## Modules

| Module | Models | State, relation to other modules |
|---|---|---|
| `MotorControl` | `Motor_Speed_pid.c`, `Joystick.c`, the stick and key part of `ps2.c`, `Serial_Input` and `Serial_Output` of `main.c` | flags, command, brake, gamepad |
| `LowerController` | `main.c`'s loop, `Task.c`, the interrupts | EXTENDS `MotorControl` |
| `GpsRouteRunner` | `gps_route_runner_node.py`, `route_safety.py`, Nav2's NavigateToPose as it is used | route, progress, poses, the goal in Nav2 |
| `GoalManager` | `goal_manager_node.py` and its three action servers | implements `NavigationTask` |
| `NavigationTask` | the promise of the goal manager: the abstract specification | the task, what drives the vehicle |
| `RtkMapOdomCorrector` | `rtk_map_odom_corrector_node.py`, `rtk_authority.py` | inputs, alignments, last sample, target, output |
| `GlobalAligner` | `gps_global_aligner_node.py`, and both nodes together | EXTENDS `RtkMapOdomCorrector` |
| `LioNode` | `fastlio2`'s `lio_node.cpp`, `map_builder.cpp`, the times in `imu_processor.cpp` | buffers, package, phase, filter time |
| `RtkFgo` | `rtk_fgo_localizer`: node, gate, state machine, window of the graph | latest inputs, anchor, machine, graph |
| `MC*` | constants for TLC | EXTEND the module they check |
| `Sums` | the running sum of a loop over a sequence | EXTENDed by `GlobalAligner`, `LioNode` |
| `*Proofs` | theorems of the module they are named after | EXTEND it and TLAPS |

### MotorControl and LowerController

`MotorControl` has one action per task: `Speed_set` (with `Active_Brake_Output`
and `Emergency_Stop_Output` as operators, as in the code),
`Joystick_motor_control`, `Serial_Output`, `Serial_Input`, `KeyStop`,
`CanFeedback`. A command is its origin, not its value: which host message, or
which stick level. This is what the properties are about, and it makes them
hold for every speed. Stick bytes are classes: neutral, lost (the two patterns
the code tests), moved. Brake currents are integers with the real constants.
`PS2_Receive` reads the sticks before it polls, so `sticks` is the value of the
poll before and `PS2_KEY` of this one. At the end of one gamepad frame the
branches are exclusive (`BrakeBranch`, `DisableBranch`, `DriveBranch`): the
code's sequence of `if`s, with the effect of X overwritten by B where both
apply. Feedback may arrive between the stop test and the reads of a brake
frame, which the nondeterministic `speed_rpm'` of `Active_Brake_Output` shows.

`LowerController` composes them: the program counter of `while (1)`, the
waiting times, the receive buffer and the interrupts as actions of their own.
Tasks are atomic but for the one place where an interrupt writes what a task
reads at length: the parse is two steps, one per number. That the composition
is right is itself checked and proved: every behaviour of the program, with the
interrupts, is one of `MotorSpec` (`TasksAreAtomic`).

Left out: the PID's arithmetic, LEDs, IMU fusion, the dead reckoning of the
status line, the task `Serial_Control` (its body is commented out), the content
of messages. A command torn by the interrupt leaves the flag raised
(`TornCommandIsReparsed`); that the parse that follows is whole and counts is not
promised: it may be torn by a third message or come after a change of mode. A message the parser cannot read (`Empty`) is one that never
arrived. The firmware has no timeout on host commands; nothing here claims that
a vehicle whose host went silent stops.

### GpsRouteRunner

The route is a line and every position an integer on it. `east` is where the
vehicle is, `m` where TF says it is in the map, `alignment` the offset between
them the aligner published last. `pc` names the places where the node's one
thread may be when its callbacks run. `Projected` is `_map_to_enu` followed by
`_progress_on_segment`; `LoopTurn` is one turn of `_run_waypoint`'s loop up to
the send; the actions on `pc = "monitor"` are one poll of `_send_goal`'s loop;
`Verify` is `_verify_nav2_success_progress`. Time is a choice: a wait may time
out, the cooldown of the alignment shift may be over, a pose may be stale long
enough. Two history variables serve the properties: `unchecked` (a consistency
check was skipped for want of a fix) and `preempted` (a goal was let go of).

The external half: NavigateToPose accepts a goal (which replaces the one that
runs) or, when it has none, rejects it; drives; ends a goal with any result at
any time; processes a cancel request. The fix is the vehicle's position at some
earlier moment, the pose may jump, the alignment may change.

Abstracted: rotation and the lateral error (one dimension), headings, published
paths, the warning threshold (it only logs), waypoints at equal distances, the
start anywhere but at the start reference. `_latest_alignment` never returns to
`None`, so the branches that test for it are not reachable and not modelled.

### GoalManager and NavigationTask

A callback is an action. What a future is waiting for is in `response_of` and
`result_of`; the handles the node holds are the set `handles`. A server's goal
goes `asked`, `running` and then one of its ends; a cancel request is on its
way until the server processes it. `NavigationTask` is the promise: a task
begins with an anchor and a destination, the vehicle is driven to that anchor
or along that route, one thing at a time, and stands when the task ends. The
refinement maps the task to the request's anchor and destination while it is
busy, and what drives the vehicle to the goal of the server that runs.

### RtkMapOdomCorrector and GlobalAligner

A pose is a position on a line and an alignment or a transform an offset, so
composing and inverting poses is adding and subtracting. Yaw, which the code
gates, blends and limits beside the position with the same control, and the
limits on theta are left out, and so is the fixed identity alignment a scene may
ask for. `Timer` is one `_timer_callback`: which alignment (`Selected`,
`BootstrapAlignment`), may it publish, does the sample jump, then blend and
limit, or `Hold`. A message is fresh or not and the world decides when that
changes; so a status that is old and one that is not fixed are one case.

`run` of the aligner is a loop with waits in it: `phase` says where it is.
`Ingested` gives every pair window that trimming by age and the two rejections
may leave, and the window as it was: the key of a fix is consumed (782) before the
lookup of the transform may fail. `Solves` is the code's test with its spread: the maximum is taken
outside the inner loop, so it is over the distances to the last pair only (which loses at
most half of the spread: `SpreadIsHalfSeen`). `Mean` rounds down to the unit; it
lies between the least and the greatest translation of the window
(`MeanIsBetween`), which is what the steps towards it rely on.
`Calibrate` is the rest of the turn after the wait for fixes: it may replace
bootstrap and alignment, then steps from the window, which stays, and may send.
The mean of the stable fixes is one of them; the wait for a heading belongs to
the phase of the fix. An alignment is received when it is sent.

What the composition shows that each node alone does not: the aligner's map pose
is `last_output + odom`, which follows the alignment sent before, so an error can
ratchet and only the bound on the distance from the bootstrap stops it
(`WithinBootstrap`), and each calibration moves that bootstrap. While a
calibration waits nothing is sent, the alignment ages and the corrector falls
back to the one it made at its start: the pair is then measured in that map.
`Settled` has two ends, agreement and a fix refused as a jump: the base of
`TARGET_JUMP` does not move with a refused sample, so without a new alignment
the corrector stays with the last transform for good.

### LioNode

A message is its stamp (a cloud: first point, last point, whether any passed the
range filter). `ImuCB` and `LidarCB` empty the buffer when a stamp steps back.
`timerCB` is `DropEmptyCloud`, `WaitForImu` or `HandOver`, which pops the cloud
and its samples and gives them to `Initialize` or `Process`, unless they are too
few. `Predictions` are the intervals `undistort` predicts the filter over;
`lag` compares their sum with the time that passed, `lost` is what the rejected
packages took with them. The weight of the points and the filter are numbers of
the code that the properties do not tell apart: `update_valid` is free. The
callbacks and the timer run in one thread (`rclcpp::spin`), so the two mutexes
exclude nothing.

The estimate loses the time of a rejected package: `map_builder.cpp` puts the
filter's state back but `m_last_propagate_end_time` stays moved, so no later
package predicts over it. `EveryInstantCounted` says precisely that, and that
nothing else is lost or counted twice. `PendingIsFront` says what an
out-of-order cloud can do: the buffer is emptied, `lidar_pushed` stays, and the
next hand-over pops a cloud that was never used.

### RtkFgo

`OnTimer` is one tick: keyframe, anchor, gate, state machine, commit, heading,
with pruning inside the keyframe. The graph is its bookkeeping: states with stamp
and index, transitions, and records that refer to states by index, which
`RebuildActiveWindow` renumbers. `wheels` is `wheel_buffer_`: `WheelCB` adds a
sample and forgets the old ones, and the keyframe takes the `IsClosest` of those
within the tolerance, the later of two as close. A transition that gets a wheel
motion names the two samples it lies between; a transition's motion starts at the
sample used last, whichever keyframe that was used for. The samples come in order
because `serial_reader_node.cpp` stamps each with its own clock as it reads it. The distance of a fix from the estimate (near,
weak, far), the agreement of headings, and whether a commit stays within its
bound are free; `far` also stands for a heading or a speed out of range. Counts
stop at their limits, beyond which the code does not tell them apart.
`LockIsEarned` is an equivalence: the mode is `Locked` exactly while the run of
strong ticks, a history of its own, is long enough, and then the newest state
has an RTK factor; so no lock is gained early, kept late or missed.
`FAULT_HOLD` is not reachable (`onTimer` passes `true` for the residual test)
and is not modelled.

Seen while modelling: the machine counts ticks, not fixes, so one fix kept by
the buffer counts again each tick (`rtk_fgo_node.cpp:430`), and with the LIO
stalled it is committed to the same state each tick; a quality and a fix of
different epochs are judged together. The wheel motion put on a transition need
not be that of the time it spans (631), although `rtk_fgo.md:104` draws the wheel
factor between two neighbours: after a keyframe without a sample the next motion
covers both transitions, and of two keyframes that share a sample the second gets
the motion of standing still, the rest going to the one after. `WheelMotionsJoin`
is what the code does keep: motions follow each other without gap, overlap or
reversal, each up to a sample within the tolerance of its keyframe.

## Runs

| Run | Module, cfg | Distinct states | Shows |
|---|---|---|---|
| `motor_control` | `MCMotorControl` | 330 000 | who may command, what the brake may do |
| `motor_report` | `MCMotorControlReport.cfg` | | violated: status 1 while coasting |
| `lower_controller` | `MCLowerController` | 1.4 million | buffer, refinement of `MotorSpec` |
| `lower_controller_live` | `MCLowerControllerLive.cfg` | 330 000 | KEY, messages, a lost gamepad in the end |
| `route_runner` | `MCGpsRouteRunner` | 850 000 | progress, success, abandoned goals, termination |
| `route_stopped` | `MCGpsRouteRunnerStopped.cfg` | | violated: failure reported, Nav2 still driving |
| `route_resend` | `MCGpsRouteRunnerResend.cfg` | | violated: the same subgoal sent again |
| `goal_manager` | `MCGoalManager` | 107 000 | refinement of the task, never wedged, stop |
| `goal_manager_stop` | `MCGoalManagerStop.cfg` | | violated: a stop that stops nothing |
| `lio_sync` | `MCLioNode` | 497 000 | time counted once and forward, no cloud stuck |
| `rtk_fgo` | `MCRtkFgo` | 273 000 | locks, renumbering, wheel motions, the end of a lock |
| `map_odom` | `MCGlobalAligner` | 537 000 | smooth output, drift bound, startup, settling |

The four violations are disagreements of the code with a document of the
repository; `findings` in `PROJECT.json` quotes both sides. Each was kept as the
document states it. Where the code keeps a weaker promise, that one is a
property of a passing run: `GoalLeftOnlyByPreemption` beside
`TerminalMeansStopped`, `RouteEnds` beside `NoResendWithoutProgress`,
`StopEndsHeldGoal` beside `StopStartsNothing`.

### Bounds

- Motor control: one wheel (wheels do not interact but in the stop test, and the
  theorems hold for any set), three speeds that lie in the stop band, in the
  low-speed band and beyond the saturation of the damping, both directions; the
  real brake constants in `motor_control`; two stick levels of three (the first,
  the last and the step between them). The runs of the loop use one level, two
  speeds and a ramp of one step, because the brake is the other run's subject,
  two messages (the least that can be torn), and task periods 1, 2, 2: the
  order of the real 5, 10 and 10 ms.
- Route: two segments of length 3 sent in subgoals of 2, so that a segment has
  two subgoals and the second is cut short; alignments 0 and 1; jumps of 1 (within
  every threshold until the alignment shifts as well) and 3 (beyond them);
  `MaxRevision` and `MaxJumps` bound the alignments and jumps of a behaviour.
  Thresholds keep the order of the node's defaults: waypoint tolerance below the
  shortfall tolerance, step warning below step abort.
- Goal manager: one destination, one unknown name, two anchors: enough for the
  anchor to change under a task.
- LIO: stamps 0 to 4 and scans of one tick; two samples make a package, three
  initialize, so that packages are dropped and waited for before and after
  initialization. A package can be rejected, but only as the last or the last but
  one of a behaviour, since two go before it; the theorem on lost time
  (`InstantsCounted`) holds for any number of them. Three samples and two clouds may
  wait; with two, an out-of-order cloud meets one that is pending. A cloud may be
  empty; stamps may repeat or step back at any moment.
- RTK localizer: two strong ticks for a lock, two rejected ones to fall back from
  degraded, two anchor samples; a window of three states and odometry stamps 1 to
  4, so that the window is renumbered once (`MeasurementsStay` holds for any number
  of times). Wheel samples at 2 and 4, tolerance 1, age 1: a keyframe may find no
  sample, one it shares with the keyframe before or after, or (at 3) two as close,
  and a sample is forgotten. The window has two transitions, so a transition
  without wheel motion between two with one is left to `WheelMotionsStayJoined`.
- Corrector and aligner: a drive of two units with fixes off by 0 or 1; every
  limit is 1 (a difference of 2 is therefore beyond it, and both sides of each
  limit occur) but the calibration's, which is 2 so that a calibration may move
  farther than the bootstrap's bound allows a step to; windows of two pairs, one
  waypoint beside the start. `MaxEvents` = 5 bounds drives, fixes and requests;
  outages, agings and ticks are free. In these bounds the alignment steps away
  from its bootstrap, a calibration is accepted, a solution beyond the bound is
  refused, a jump locks the corrector out and the own alignment takes over.

### Fairness

- `LowerController`: weak fairness of the main loop and of the timer's tick; no
  task of it can block and TIM8 runs from start-up. No interrupt that depends on
  the world is fair.
- `GpsRouteRunner`: of the runner (its waits have deadlines or poll) and of
  Nav2: it answers a goal, ends one (its progress checker aborts a goal that
  stands still) and processes cancel requests. Arrival is not assumed, only that
  a goal ends somehow.
- `GoalManager`: of the executor (`Delivery`, of any callback that is due), and
  of each server's answers to goals and to cancel requests (`ServerFairness`);
  a running goal may run for ever.
- `LioNode`, `RtkFgo`: of the timer only. What the sensors send, and whether,
  is free: `PendingIsTaken` and `LosesLock` have as their premise what has to
  have arrived.
- `GlobalAligner`: of the corrector's timer and of the aligner's loop (a turn
  that sends: its period ends again and again), including a startup whose fix and
  pose are there and a request that waits. A calibration need not find its stable
  fixes. `StartupCompletes` assumes that the inputs become fresh for good, whether
  or not they are fixed; `Settles` that the vehicle stands, the fix no longer
  changes and nothing ages.

Without the answers of Nav2 both nodes wait for ever: the code has no timeout
on these futures.

## Proofs

TLAPS checks every theorem below for all values of the constants that satisfy
the named assumptions of the module (`SpeedsAssumption`, `KeysAssumption`,
`LevelsAssumption`, `BrakeAssumption`, `PeriodAssumption`, `EmptyAssumption`,
`RouteAssumption`, `ManagerAssumption`, `LioAssumption`, `FgoAssumption`,
`CorrectorAssumption`, `AlignerAssumption`), which TLC evaluates on every run.
Every safety invariant and every action property that a passing run checks is
stated by a theorem; so are six of the ten liveness properties, under a
hypothesis that is explained at the end.

### Safety

- `MotorControlProofs`: `MotorInv` is `MotorTypeOK` with the four safety
  invariants. They need one another: a brake branch keeps
  `ReadyExcludesStops` because it also clears `motor_ready`, and
  `NotReadyNotDriven` needs the flags to know which branch of `Speed_set` runs.
  One step per task, and under it one per conjunct. The two action properties
  follow from the types and three lemmas: `Clip` is bounded, a ramp step is at
  most one step, and a ramp towards a current against the motion can only
  shrink one along it. `LostPadDisarmsHolds` is the part of a lost gamepad that
  is no liveness: a pass with lost sticks disarms the motors, and nothing but Y
  with neutral sticks arms them again.
- `LowerControllerProofs`: `LoopInv` is `TypeOK`; its last conjunct (a parse in
  progress means the host commands and both buffers hold a message) is what
  makes the two-step parse a `Serial_Input` of `MotorControl`. Every action of
  the loop is an action of `MotorNext` or a stutter, which gives
  `TasksAreAtomicHolds` and, by `ProgramKeepsMotorProperties`, all that is
  proved of `MotorControl` for the program with its interrupts.
- `GpsRouteRunnerProofs`: `RouteInv` strengthens the properties by `FixBehind`
  (a fix never lies ahead of the vehicle) and `PlaceInv` (which subgoal, result
  and goal belong to each place of the program). `ProgressIsEarned` follows
  because a pose that the check accepts is at most the divergence limit from a
  fix, and the fix is behind the vehicle; the maximum, the clamping to the
  segment and the change of segment keep that. `SucceededAtTheEndHolds` assumes
  a waypoint tolerance below the length of a segment: with a longer one a
  segment counts as driven before it began. `CountedSuccessAdvancesHolds` gives
  the reason of the violated `NoResendWithoutProgress`: a success that counts
  brings progress whenever the vehicle stands at the goal that was sent, or if
  the shortfall tolerance were not above the waypoint tolerance. The node makes
  it `max(0.75, waypoint tolerance)` (`gps_route_runner_node.py:902`), so with
  the default tolerances a success short of the goal may count and bring nothing.
- `GoalManagerProofs`: `ManagerInv` is `TypeOK` and `ChainInv`: at each stage
  which server is asked or runs, that no other one does, and that its goal is
  that of the request. With it every step maps to a step of `NavigationTask` or
  leaves its variables alone: `ManagerImplementsTask`. `ProgressInvariant` adds
  what liveness needs: a goal that is asked for will be answered, and one that
  was stopped while it was held has ended or has its cancel request under way.
- `LioNodeProofs`: `IInv` adds to `PredictionForward` that the IMU buffer is
  sorted up to `last_imu_time` and how the last sample lies to the end of the
  last propagation. The lemma `StepsForward` shows from it that no interval of
  `Predictions` is negative, for packages of any length. `InstantsCounted` needs
  the sum of those intervals: they telescope (`PredictionsCover`), so each
  hand-over counts the time from the last propagation to the end of its cloud,
  and `CInv` keeps what is missing equal to what rejected packages took.
  `FrontIsPending` has an invariant of its own.
- `RtkFgoProofs`: `IInv` says that states are numbered from 0, that transitions
  join neighbours, and that each record refers to the state of its stamp; one
  lemma per graph operation (`InitialSound`, `AddedSound`, `RebuiltSound`,
  `RtkSound`, `HeadingSound`) shows that it is kept, which gives
  `MeasurementsStay`. For the wheel motions `Joined` adds that the last one ended
  at the sample used last (`AddedJoined`, `RebuiltJoined`), and `Overtaken` why no
  older sample is ever used again: those still in the buffer lie farther from the
  last odometry, hence from every later one (`ClosestMovesOn`), and a buffer that
  has forgotten the sample used last has forgotten them too (`WheelOvertaken`).
  `LockEarned` needs that the count of the machine is the run of
  strong ticks up to the limit, and that a lock is left or renewed in each tick.
- `GlobalAlignerProofs`: `IInv` is `TypeOK` and `WithinBootstrap`. A limited
  move is no longer than its limit and does not overshoot (`LimitedMove`), so a
  step towards a mean within the bound stays within it (`SteppedSound`), and a
  calibration replaces both ends. `OutputIsSmooth` follows because only `Timer`
  moves the output (`OnlyTicks`), by the same lemma on the step.
- `SumsProofs`: facts about `Total` for sequences of any length. The library's
  induction rule takes an operator, which the provers cannot instantiate; here
  induction is over a *set* of numbers (`SetInduction`), from the least element
  that is not in it (`LeastNumber`). It gives that a running sum exists, is the
  only one, telescopes and is bounded by its least and greatest term.

### Liveness, under "the guard enables the step"

Weak fairness of an action says nothing until it is known when the action is
enabled, and the provers cannot evaluate ENABLED. The liveness theorems
therefore have one hypothesis each, of the form `[](guard => ENABLED
<<A>>_vars)`, where the guard is the condition the code tests. It is not an
assumption on the environment: it is a fact about the action alone, which TLC,
that does evaluate ENABLED, found to hold in every reachable state of the
instances the runs check; in each, states with the guard are reached.

| Theorem | Hypothesis on | Argument |
|---|---|---|
| `KeyStopsForGoodHolds` | the loop's step | after KEY each place of the loop leads to the next, until the zero-current frame; then its top, which the loop does not leave with `stop_flag` set, keeps it |
| `MessageIsLookedAtHolds` | the same | the places of the loop in order, with the flag up, end in the parse |
| `NeverWedgedHolds` | executor and servers | a goal asked for is answered, and each answer is delivered: the node is idle or a goal runs, at each of the three stages |
| `StopEndsHeldGoalHolds` | the same | the cancel request is processed or the goal ends by itself; either way its result is delivered |
| `PendingTaken` | the timer | a cloud whose samples are there stays ripe until the timer takes it; `RipeCanBeHandedOver` shows that the timer's guard holds of it |
| `StartupCompletesHolds` | the two nodes' first steps | the aligner waits for a pose the corrector gives without it, from the first fix (`FirstTick`); then the aligner has both |

`BadTicksReleaseTheLock` proves what `LosesLock` rests on, without ENABLED: a
measure (`Trust`, at most `MaxInvalid + 2`) that is zero exactly in local mode,
that each tick without usable quality lowers, and that nothing but a tick changes.

### Only model-checked

- `LostPadDisables`: that the pass comes is a countdown of a task's waiting time
  whose number of steps is a constant, an induction inside temporal logic, where
  a set of numbers cannot be formed. `LostPadDisarmsHolds` is its safety half.
- `LosesLock`: the step from the measure above to "in the end" is such an
  induction too.
- `RouteEnds`, `Settles`: they need, besides ENABLED, a measure over a whole
  route or over two nodes that move each other's target. What is proved of them
  is that a counted success advances, and that each tick moves the output towards
  its target and not past it.
- That the hypotheses of the liveness theorems hold for every value of the
  constants.

## Not modelled

`PROJECT.json` lists every component with its status. Without a model:

- Numerics: the PID, the AHRS, the iterated Kalman filter, ICP, GTSAM's
  optimizer, batch adjustment. Their control is in the models, their results are
  free choices there.
- `localizer`, `pgo`, `pgo_gps_fusion`, `hba`: a queue or a stored request
  between a callback and a timer of one thread; what matters of them is the
  outcome of the numerics.
- The host's serial nodes, the receiver's driver and NTRIP: I/O and parsing of
  text. Their messages are inputs of the models. So the bytes of a host message,
  and what the firmware's `sscanf` makes of a short one, are outside.
- `gnss_calibration` and `gps_anchor_localizer`: a window of fixes, the anchor it
  matches and a count of agreeing fixes up to NAV_READY. The vehicle's launch no
  longer gates on it (`system_nav_gps.launch.py:246`); `GoalManager` has its status
  and anchor as free inputs, a stale NAV_READY included.
- The frc packages: collection of data beside the driving. Offline training,
  earlier planners, tools and launch files: no state that the vehicle depends on.
- The firmware's vendor code (HAL, CMSIS, drivers) and other vendored libraries,
  which are most of the repository's lines.

Two promises no model makes because the code does not: nothing stops the wheels
when the host goes silent (`main.c:425`), and nothing ends a wait for Nav2's
answer (`gps_route_runner_node.py:769`).
