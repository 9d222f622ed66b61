------------------------- MODULE RtkMapOdomCorrector -------------------------
(***************************************************************************)
(* rtk_map_odom_corrector_node.py with the decisions of rtk_authority.py:  *)
(* the owner of map -> odom in the corridor stack.  Each timer tick places *)
(* the vehicle in the map by the latest fix under an ENU -> map alignment  *)
(* (the aligner's while it is fresh, otherwise one the node made itself),  *)
(* and walks the published transform towards the one that puts the odometry*)
(* there.  A callback is one action: rclpy.spin has one thread.            *)
(*                                                                         *)
(* Poses are positions on a line counted in one unit; yaw, which the same  *)
(* code gates, blends and limits beside them, is left out, and so are the  *)
(* status texts and the option of a fixed identity alignment.  Ages are    *)
(* whether they are within their limits: the clock is free.                *)
(***************************************************************************)
EXTENDS Integers

CONSTANTS
  None,            \* no value yet
  MaxTargetJump,   \* max_target_jump_m
  MaxStep,         \* max_translation_step_m
  Deadband,        \* target_translation_deadband_m
  Offsets,         \* bound: fix minus odometry, drift and receiver error together
  MaxOdom          \* bound: how far the vehicle drives

ASSUME CorrectorAssumption ==
  /\ None \notin Int
  /\ MaxTargetJump \in Nat /\ MaxStep \in Nat \ {0} /\ Deadband \in Nat
  /\ Offsets \subseteq Int /\ MaxOdom \in Nat

VARIABLES
  odom,                 \* odom -> base_link, of the LIO
  fix,                  \* enu_x of _latest_fix
  fresh,                \* the odometry is there, fix and heading are recent
  fixed,                \* _latest_rtk_fixed, and the status is recent
  alignment,            \* _latest_alignment
  alignment_fresh,      \* and it is recent
  bootstrap_alignment,  \* _bootstrap_alignment
  last_output,          \* _last_output, the transform on /tf
  last_raw_map_base,    \* _last_raw_map_base
  smoothed_target       \* _smoothed_target

inputs == <<odom, fix, fresh, fixed>>
external == <<alignment, alignment_fresh>>
authority == <<bootstrap_alignment, last_output, last_raw_map_base, smoothed_target>>
corrector == <<inputs, external, authority>>

Abs(n) == IF n < 0 THEN -n ELSE n
(* A move of d shortened to at most the limit.                              *)
Limited(d, limit) == IF d > limit THEN limit ELSE IF d < -limit THEN -limit ELSE d

CorrectorInit ==
  /\ odom = 0 /\ fix = None /\ fresh = FALSE /\ fixed = FALSE
  /\ alignment = None /\ alignment_fresh = FALSE
  /\ bootstrap_alignment = None /\ last_output = None
  /\ last_raw_map_base = None /\ smoothed_target = None
--------------------------------------------------------------------------------
(* The inputs.  A stale fix, heading or odometry transform have one effect, *)
(* and so have a status other than fixed and one that is old.               *)
Drive ==
  /\ odom < MaxOdom /\ odom' = odom + 1
  /\ UNCHANGED <<fix, fresh, fixed, external, authority>>

FixCB(e) ==
  /\ fix' = e /\ fresh' = TRUE
  /\ UNCHANGED <<odom, fixed, external, authority>>

InputsAge ==
  /\ fresh /\ fresh' = FALSE
  /\ UNCHANGED <<odom, fix, fixed, external, authority>>

InputsReturn ==
  /\ ~fresh /\ fix # None /\ fresh' = TRUE
  /\ UNCHANGED <<odom, fix, fixed, external, authority>>

RtkStatusCB(rtk_fixed) ==
  /\ fixed # rtk_fixed /\ fixed' = rtk_fixed
  /\ UNCHANGED <<odom, fix, fresh, external, authority>>

AlignmentAges ==
  /\ alignment_fresh /\ alignment_fresh' = FALSE
  /\ UNCHANGED <<alignment, inputs, authority>>
--------------------------------------------------------------------------------
(* select_authority_alignment, and compute_bootstrap_alignment_from_current *)
(* _pose when it has none: the alignment that puts the map on the odometry. *)
Selected == IF alignment_fresh THEN alignment ELSE bootstrap_alignment
BootstrapAlignment ==
  IF Selected = None /\ fresh THEN odom - fix ELSE bootstrap_alignment
Alignment == IF alignment_fresh THEN alignment ELSE BootstrapAlignment

RtkMapBase == Alignment + fix
RawTarget == RtkMapBase - odom

(* summarize_authority_inputs, then the need for RTK fixed, which the       *)
(* node's own alignment does without.                                       *)
\* Mutant: no output without RTK fixed.
NeedsFixed == fresh /\ Alignment # None /\ fixed

MayPublish == fresh /\ Alignment # None /\ (fixed \/ ~alignment_fresh)

(* The jump is that of the vehicle in the map since the last sample used.   *)
TargetJump == Abs(RtkMapBase - last_raw_map_base) > MaxTargetJump

(* blend_pose_target: still within the deadband, otherwise a part of the    *)
(* way; the part is target_smoothing_alpha, here any.                       *)
Blend(previous, target) ==
  IF Abs(target - previous) <= Deadband THEN {previous}
  ELSE IF previous < target THEN (previous + 1) .. target
  ELSE target .. (previous - 1)

\* Mutant: the step is never shortened.
WholeStep(previous, target) == target

LimitStep(previous, target) == previous + Limited(target - previous, MaxStep)

Hold == UNCHANGED <<last_output, last_raw_map_base, smoothed_target>>

\* Mutant: the first sample is not kept to compare the next with.
ForgetsBase ==
  last_output' = RawTarget /\ smoothed_target' = RawTarget /\ UNCHANGED last_raw_map_base

FirstOutput ==
  /\ last_output' = RawTarget
  /\ smoothed_target' = RawTarget
  /\ last_raw_map_base' = RtkMapBase

\* Mutant: the smoothed target is not kept.
ForgetsTarget ==
  \E target \in Blend(smoothed_target, RawTarget) :
    /\ last_output' = LimitStep(last_output, target)
    /\ last_raw_map_base' = RtkMapBase /\ UNCHANGED smoothed_target

FollowTarget ==
  \E target \in Blend(smoothed_target, RawTarget) :
    /\ smoothed_target' = target
    /\ last_output' = LimitStep(last_output, target)
    /\ last_raw_map_base' = RtkMapBase

(* _timer_callback: a tick that may not publish, or whose sample jumps,     *)
(* sends the last transform again.                                          *)
Timer ==
  /\ bootstrap_alignment' = BootstrapAlignment
  /\ \/ ~MayPublish /\ Hold
     \/ MayPublish /\ last_output = None /\ FirstOutput
     \/ MayPublish /\ last_output # None /\ TargetJump /\ Hold
     \/ MayPublish /\ last_output # None /\ ~TargetJump /\ FollowTarget
  /\ UNCHANGED <<inputs, external>>
--------------------------------------------------------------------------------
(* The corrector's part of the type invariant: what its flags promise is    *)
(* there, and an output has its sample and its target.                      *)
Positions == Int \cup {None}

CorrectorTypeOK ==
  /\ odom \in Nat /\ fix \in Positions /\ fresh \in BOOLEAN /\ fixed \in BOOLEAN
  /\ alignment \in Positions /\ alignment_fresh \in BOOLEAN
  /\ bootstrap_alignment \in Positions /\ last_output \in Positions
  /\ last_raw_map_base \in Positions /\ smoothed_target \in Positions
  /\ fresh => fix # None
  /\ alignment_fresh => alignment # None
  /\ last_output # None => last_raw_map_base # None /\ smoothed_target # None
================================================================================
