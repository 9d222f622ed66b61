----------------------------- MODULE GlobalAligner -----------------------------
(***************************************************************************)
(* gps_global_aligner_node.py beside the corrector: it learns the ENU ->   *)
(* map alignment from pairs of a fix and the map pose of the moment, a     *)
(* pose the corrector derives from the alignment it was sent.  run() is one*)
(* loop that spins for callbacks itself; waiting for fixes and for the map *)
(* frame are phases of it.                                                 *)
(*                                                                         *)
(* A sent alignment is received at once; a late one is an old one that has *)
(* not aged yet.  The mean of stable fixes is one of them.  The limits on  *)
(* theta, which solving never changes, are left out.                       *)
(***************************************************************************)
EXTENDS RtkMapOdomCorrector, Sequences, Sums

CONSTANTS
  MinPairs,             \* alignment_min_pairs
  MinSpread,            \* alignment_min_spread_m
  MinSpacing,           \* pair_min_spacing_m
  MaxFixJump,           \* 10 m, in _ingest_latest_fix_pair
  MaxAlignmentStep,     \* max_translation_step_m of this node
  MaxBootstrapDelta,    \* max_bootstrap_translation_delta_m
  CalibrationSpread,    \* calibration_min_spread_m
  MaxCalibrationDelta,  \* max_calibration_translation_delta_m
  Waypoints,            \* labels a calibration may be asked for at
  MaxPairs,             \* bound: as many pairs as the window holds
  MaxEvents             \* bound: what the world does: drives, fixes, outages, requests

ASSUME AlignerAssumption ==
  /\ MinPairs \in Nat \ {0} /\ MinSpread \in Nat \ {0} /\ MinSpacing \in Nat \ {0}
  /\ MaxFixJump \in Nat /\ MaxAlignmentStep \in Nat \ {0} /\ MaxBootstrapDelta \in Nat
  /\ CalibrationSpread \in Nat \ {0} /\ MaxCalibrationDelta \in Nat
  /\ "start_ref" \notin Waypoints /\ None \notin Waypoints
  /\ MaxPairs \in Nat \ {0} /\ MaxEvents \in Nat

VARIABLES
  phase,              \* where run() is
  unseen,             \* the latest fix has another key than _last_fix_key
  startup_fix,        \* the mean of the startup fixes
  aligner_bootstrap,  \* _bootstrap_alignment of this node
  current_alignment,  \* _current_alignment
  pairs,              \* _pair_buffer
  calibration_pairs,  \* _calibration_pairs
  pending,            \* _pending_calibration_request
  calibrating,        \* the request taken
  events              \* how often the world has acted

learned == <<aligner_bootstrap, current_alignment, pairs, calibration_pairs>>
asked == <<pending, calibrating>>
aligner == <<phase, unseen, startup_fix, learned, asked>>
vars == <<corrector, aligner, events>>

Phases == {"fix", "pose", "running", "calibrating", "failed"}
Aligned == phase \in {"running", "calibrating"}

Init ==
  /\ CorrectorInit
  /\ phase = "fix" /\ unseen = FALSE /\ startup_fix = None
  /\ aligner_bootstrap = None /\ current_alignment = None
  /\ pairs = <<>> /\ calibration_pairs = <<>>
  /\ pending = None /\ calibrating = None /\ events = 0
--------------------------------------------------------------------------------
(* The pose the map frame gives the vehicle; without a transform, none.     *)
HasMapPose == last_output # None
MapPose == last_output + odom

(* Receiving: both nodes get the fix.                                       *)
Fix(e) == FixCB(e) /\ unseen' = TRUE
          /\ UNCHANGED <<phase, startup_fix, learned, asked>>

CalibrationRequestCB(w) ==
  /\ pending' = IF pending = None THEN w ELSE pending
  /\ UNCHANGED <<corrector, phase, unseen, startup_fix, learned, calibrating>>

Send(a) == alignment' = a /\ alignment_fresh' = TRUE
--------------------------------------------------------------------------------
(* _compute_pair_spread_m takes its maximum after the inner loop: it sees   *)
(* each pair's distance to the last one only.                               *)
SpreadReaches(ps, least) ==
  \E i \in DOMAIN ps : Abs(ps[i].enu - ps[Len(ps)].enu) >= least

(* The mean translation of the pairs, rounded to the unit.                  *)
Mean(ps) == Total([i \in DOMAIN ps |-> ps[i].map - ps[i].enu]) \div Len(ps)

(* _solve_alignment has a result.                                           *)
Solves(ps) == Len(ps) >= MinPairs /\ SpreadReaches(ps, MinSpread)

(* _step_alignment_towards, from the alignment now under a bootstrap.       *)
Stepped(bootstrap, now, ps) ==
  IF Solves(ps) /\ Abs(Mean(ps) - bootstrap) <= MaxBootstrapDelta
  THEN now + Limited(Mean(ps) - now, MaxAlignmentStep)
  ELSE now

(* _ingest_latest_fix_pair: what may become of the window.  Nothing, when   *)
(* there is no new fix or no transform to be had at its moment; otherwise   *)
(* trimming drops the oldest, and a jump from a recent pair, or a pair too  *)
(* close, is not kept.                                                      *)
TooClose(p, q) ==
  Abs(p.enu - q.enu) < MinSpacing /\ Abs(p.map - q.map) < MinSpacing

Trimmed == {SubSeq(pairs, k + 1, Len(pairs)) : k \in 0 .. Len(pairs)}

Ingested ==
  IF ~unseen THEN {pairs}
  ELSE LET new == [enu |-> fix, map |-> MapPose] IN
       {pairs} \cup
       {ps \in Trimmed : ps # <<>> /\ (\/ TooClose(new, ps[Len(ps)])
                                       \/ Abs(fix - ps[Len(ps)].enu) > MaxFixJump)}
       \cup {Append(ps, new) : ps \in {q \in Trimmed :
               Len(q) < MaxPairs /\ (q = <<>> \/ ~TooClose(new, q[Len(q)]))}}
--------------------------------------------------------------------------------
(* run(): a stable fix, then the map pose, then the loop.                   *)
StartupFix ==
  /\ phase = "fix" /\ fix # None /\ unseen
  /\ startup_fix' = fix /\ unseen' = FALSE /\ phase' = "pose"
  /\ UNCHANGED <<corrector, learned, asked>>

Bootstrap ==
  /\ phase = "pose" /\ HasMapPose
  /\ aligner_bootstrap' = MapPose - startup_fix
  /\ current_alignment' = MapPose - startup_fix
  /\ calibration_pairs' = <<[label |-> "start_ref", enu |-> startup_fix, map |-> MapPose]>>
  /\ phase' = "running" /\ startup_fix' = None
  /\ UNCHANGED <<corrector, unseen, pairs, asked>>

(* Too far from the route's start, or a timeout: the node ends.             *)
StartupFails ==
  /\ phase \in {"fix", "pose"} /\ phase' = "failed"
  /\ UNCHANGED <<corrector, unseen, startup_fix, learned, asked>>

(* One turn of the loop without a request; it sends when its period is over.*)
Loop(send) ==
  /\ phase = "running" /\ pending = None
  /\ \E ps \in Ingested :
       /\ pairs' = ps
       /\ current_alignment' = Stepped(aligner_bootstrap, current_alignment, ps)
  /\ unseen' = FALSE
  /\ IF send THEN Send(current_alignment') ELSE UNCHANGED external
  /\ UNCHANGED <<inputs, authority, phase, startup_fix, aligner_bootstrap,
                 calibration_pairs, asked>>

(* A turn with one waits inside it for stable fixes, and sends nothing.     *)
StartCalibration ==
  /\ phase = "running" /\ pending # None
  /\ phase' = "calibrating" /\ calibrating' = pending /\ pending' = None
  /\ UNCHANGED <<corrector, unseen, startup_fix, learned>>

CalibrationTimeout ==
  /\ phase = "calibrating" /\ phase' = "running" /\ calibrating' = None
  /\ UNCHANGED <<corrector, unseen, startup_fix, learned, pending>>

(* _upsert_calibration_pair                                                 *)
Upsert(ps, pair) ==
  IF \E i \in DOMAIN ps : ps[i].label = pair.label
  THEN [i \in DOMAIN ps |-> IF ps[i].label = pair.label THEN pair ELSE ps[i]]
  ELSE Append(ps, pair)

(* _solve_calibration_alignment and _apply_calibration_alignment            *)
Calibrates(ps) ==
  /\ Len(ps) >= 2 /\ SpreadReaches(ps, CalibrationSpread)
  /\ Abs(Mean(ps) - current_alignment) <= MaxCalibrationDelta

\* Mutant: a calibration leaves the old bootstrap in place.
KeepsOldBootstrap(ps) == aligner_bootstrap

CalibratedBootstrap(ps) == IF Calibrates(ps) THEN Mean(ps) ELSE aligner_bootstrap

(* The rest of _handle_pending_calibration_request and of its turn, which   *)
(* solves over the window of before.                                        *)
Calibrate ==
  /\ phase = "calibrating" /\ unseen
  /\ LET ps == Upsert(calibration_pairs,
                      [label |-> calibrating, enu |-> fix, map |-> MapPose])
         now == IF Calibrates(ps) THEN Mean(ps) ELSE current_alignment
     IN
     /\ calibration_pairs' = ps
     /\ aligner_bootstrap' = CalibratedBootstrap(ps)
     /\ current_alignment' = Stepped(aligner_bootstrap', now, pairs)
     /\ \/ Send(current_alignment')
        \/ Calibrates(ps) /\ Send(now)
        \/ ~Calibrates(ps) /\ UNCHANGED external
  /\ unseen' = FALSE /\ phase' = "running" /\ calibrating' = None
  /\ UNCHANGED <<inputs, authority, startup_fix, pairs, pending>>
--------------------------------------------------------------------------------
SomeFix == \E offset \in Offsets : Fix(odom + offset)

World ==
  /\ events < MaxEvents /\ events' = events + 1
  /\ SomeFix \/ (Drive /\ UNCHANGED aligner)
     \/ \E w \in Waypoints : CalibrationRequestCB(w)

Outage ==
  /\ InputsAge \/ InputsReturn \/ AlignmentAges
     \/ \E rtk_fixed \in BOOLEAN : RtkStatusCB(rtk_fixed)
  /\ UNCHANGED <<aligner, events>>

Tick == Timer /\ UNCHANGED <<aligner, events>>

AlignerStep ==
  /\ \/ StartupFix \/ Bootstrap \/ StartupFails
     \/ \E send \in BOOLEAN : Loop(send)
     \/ StartCalibration \/ CalibrationTimeout \/ Calibrate
  /\ UNCHANGED events

Next == World \/ Outage \/ Tick \/ AlignerStep

(* The corrector's timer and the aligner's loop run; the receiver sends.    *)
Fairness ==
  /\ WF_vars(Tick)
  /\ WF_vars(StartupFix /\ UNCHANGED events) /\ WF_vars(Bootstrap /\ UNCHANGED events)
  /\ WF_vars(Loop(TRUE) /\ UNCHANGED events) /\ WF_vars(StartCalibration /\ UNCHANGED events)

Spec == Init /\ [][Next]_vars /\ Fairness
--------------------------------------------------------------------------------
(* The variables hold values of their kinds, and what a phase has set is    *)
(* there: no pose is computed from a missing one.                           *)
LearnedTypeOK ==
  /\ aligner_bootstrap \in Positions /\ current_alignment \in Positions
  /\ Aligned => aligner_bootstrap # None /\ current_alignment # None
  /\ pairs \in Seq([enu : Int, map : Int]) /\ Len(pairs) <= MaxPairs
  /\ calibration_pairs \in Seq([label : Waypoints \cup {"start_ref"}, enu : Int, map : Int])

LoopTypeOK ==
  /\ phase \in Phases /\ unseen \in BOOLEAN /\ startup_fix \in Positions
  /\ unseen => fix # None
  /\ phase = "pose" => startup_fix # None
  /\ Aligned => HasMapPose
  /\ pending \in Waypoints \cup {None} /\ calibrating \in Waypoints \cup {None}
  /\ phase = "calibrating" => calibrating # None
  /\ events \in 0 .. MaxEvents

TypeOK == CorrectorTypeOK /\ LearnedTypeOK /\ LoopTypeOK

(* The aligner learns from poses that follow what it sent, with nothing     *)
(* absolute in between: the loop may walk away.  However often it steps and *)
(* recalibrates, the alignment it sends stays within the bound of the       *)
(* bootstrap it was last given.                                             *)
WithinBootstrap ==
  Aligned => Abs(current_alignment - aligner_bootstrap) <= MaxBootstrapDelta

(* The map never jumps under the planner: a later transform is at most a    *)
(* step from the one before and not past the smoothed target, over outages, *)
(* the change from one alignment to another and calibrations.               *)
Between(a, b, c) == (a <= b /\ b <= c) \/ (c <= b /\ b <= a)

SmoothOutput ==
  [][last_output # None =>
       /\ Abs(last_output' - last_output) <= MaxStep
       /\ last_output' # last_output => Between(last_output, last_output', smoothed_target')]_vars

(* The start has no circular wait: with fixes coming, fixed or not, the     *)
(* aligner gets its map pose from the corrector it will send alignments to. *)
StartupCompletes == (<>[]fresh) => <>(phase \notin {"fix", "pose"})

(* Once the vehicle stands, its fix is constant and the inputs are fresh,   *)
(* the loop of the two nodes settles: the transform agrees with the fix, or *)
(* the corrector refuses the fix as a jump from the last it used.           *)
Settled ==
  last_output # None /\ (TargetJump \/ Abs(last_output - RawTarget) <= Deadband)

Quiet == <>[](fresh /\ fixed /\ alignment_fresh) /\ <>[][odom' = odom /\ fix' = fix]_vars

Settles == Quiet => <>[]Settled
================================================================================
