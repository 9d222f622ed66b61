-------------------------------- MODULE RtkFgo --------------------------------
(***************************************************************************)
(* The RTK factor-graph localizer (rtk_fgo_node.cpp): subscriptions keep   *)
(* the latest LIO odometry, NMEA quality and fix and the last wheel        *)
(* samples, and a 10 Hz timer adds a keyframe with the wheel motion up to  *)
(* the sample closest to it, anchors the map on RTK, gates the fix, steps  *)
(* the localization state machine and commits the fix to the graph, whose  *)
(* sliding window renumbers its states.  One thread: a callback is one     *)
(* action.                                                                 *)
(*                                                                         *)
(* The optimizer's numbers are left out: how far the fix is from the       *)
(* estimate, whether headings agree and a commit stays within its bound    *)
(* are free.  A GGA sentence is its quality, "bad" when its quality,       *)
(* satellites or HDOP fail.  A state of the graph is its stamp and index,  *)
(* a wheel sample its stamp.                                               *)
(* IMU factors (off by default) and the output smoothing are left out.     *)
(***************************************************************************)
EXTENDS Integers, Sequences

CONSTANTS
  MinStrong,      \* recovery_min_samples_
  MaxInvalid,     \* degraded_to_local_samples_
  MaxStates,      \* max_states_
  AnchorSamples,  \* bootstrap_required_consecutive_samples
  WheelTolerance, \* how far from its keyframe a wheel sample may be, 0.20 s
  WheelAge,       \* max_age_s_ of wheel_buffer_, 2 s
  MaxStamp,       \* bound: LIO stamps are 1 .. MaxStamp, 0 is no odometry yet
  WheelStamps     \* bound: the stamps a wheel sample may have

ASSUME FgoAssumption ==
  /\ MinStrong \in Nat \ {0} /\ MaxInvalid \in Nat \ {0}
  /\ MaxStates \in Nat \ {0, 1} /\ AnchorSamples \in Nat \ {0}
  /\ WheelTolerance \in Nat /\ WheelAge \in Nat
  /\ MaxStamp \in Nat \ {0} /\ WheelStamps \subseteq Nat \ {0}

VARIABLES
  lio,             \* stamp of fastlio_buffer_.latest()
  nmea,            \* quality of the latest GGA sentence
  valid_fix,       \* latestValidFix() has a value
  wheels,          \* stamps of the samples in wheel_buffer_
  anchored,        \* frame_anchor_.initialized()
  anchor_count,    \* anchor_bootstrap_count_, also the size of the heading window
  machine,         \* LocalizationStateMachine; the counts stop at their limits
  last_lio,        \* last_lio_stamp_s_
  previous_wheel,  \* previous_wheel_stamp_s_: the sample used last, 0 before the first
  graph,           \* FgoGraph: states_, transitions_ and the records below
  run              \* history: strong ticks since the last that was not

inputs == <<lio, nmea, valid_fix, wheels>>
rest == <<anchored, anchor_count, machine, last_lio, previous_wheel, graph, run>>
vars == <<inputs, rest>>

(* A transition's wheel motion is from the sample .since to the sample      *)
(* .until, 0 without one; a record's .of is the stamp of the state it was   *)
(* made for.                                                                *)
EmptyGraph == [states |-> <<>>, transitions |-> {}, rtk |-> {}, headings |-> {}]

Qualities == {"none", "bad", "fixed", "float", "other"}
Modes == {"LocalOnly", "Candidate", "Locked", "Degraded", "Recovery"}
GateModes == {"Strong", "Weak", "Diagnostic", "Rejected"}
Capped(n, limit) == IF n < limit THEN n ELSE limit
Distance(a, b) == IF a < b THEN b - a ELSE a - b

Init ==
  /\ lio = 0 /\ nmea = "none" /\ valid_fix = FALSE /\ wheels = {}
  /\ anchored = FALSE /\ anchor_count = 0
  /\ machine = [mode |-> "LocalOnly", strong |-> 0, invalid |-> 0]
  /\ last_lio = 0 /\ previous_wheel = 0 /\ graph = EmptyGraph /\ run = 0
--------------------------------------------------------------------------------
(* The subscriptions; the latest message stays, of whatever age.            *)
LioCB(t) ==
  /\ lio' = t
  /\ UNCHANGED <<nmea, valid_fix, wheels, rest>>

NmeaCB(quality) ==
  /\ nmea' = quality
  /\ UNCHANGED <<lio, valid_fix, wheels, rest>>

FixCB(valid) ==
  /\ valid_fix' = valid
  /\ UNCHANGED <<lio, nmea, wheels, rest>>

(* Wheel samples are kept for a while; the serial reader stamps them with   *)
(* its own clock, so they come in order.                                    *)
WheelCB(t) ==
  /\ \A s \in wheels : s <= t
  /\ wheels' = {s \in wheels \cup {t} : t - s <= WheelAge}
  /\ UNCHANGED <<lio, nmea, valid_fix, rest>>

(* TimestampedBuffer::closest: of two as close the later, 0 when none is    *)
(* near enough.                                                             *)
Near(t) == {s \in wheels : Distance(s, t) <= WheelTolerance}

IsClosest(wheel, t) ==
  IF Near(t) = {} THEN wheel = 0
  ELSE /\ wheel \in Near(t)
       /\ \A s \in Near(t) : \/ Distance(wheel, t) < Distance(s, t)
                             \/ Distance(wheel, t) = Distance(s, t) /\ wheel >= s
--------------------------------------------------------------------------------
(* FgoGraph.                                                                *)
AddInitialState(stamp) ==
  [EmptyGraph EXCEPT !.states = <<[stamp |-> stamp, index |-> 0]>>]

AddFastLioBetween(g, stamp, since, until) ==
  LET previous == g.states[Len(g.states)].index IN
  [g EXCEPT
     !.states = Append(@, [stamp |-> stamp, index |-> previous + 1]),
     !.transitions = @ \cup {[from |-> previous, to |-> previous + 1, stamp |-> stamp,
                              since |-> since, until |-> until]}]

(* rebuildActiveWindow: the newest MaxStates states, numbered from 0, with  *)
(* the records of theirs.                                                   *)
\* Mutant: the records keep their indices.
NotRenumbered(records, first) == {q \in records : q.index >= first}

Kept(records, first) ==
  {[r EXCEPT !.index = r.index - first] : r \in {q \in records : q.index >= first}}

RebuildActiveWindow(g) ==
  LET drop == Len(g.states) - MaxStates
      first == g.states[drop + 1].index
  IN
  [states |-> [i \in 1 .. MaxStates |-> [g.states[i + drop] EXCEPT !.index = i - 1]],
   transitions |-> {[t EXCEPT !.from = t.from - first, !.to = t.to - first] :
                      t \in {q \in g.transitions : q.from >= first /\ q.to >= first}},
   rtk |-> Kept(g.rtk, first),
   headings |-> Kept(g.headings, first)]

\* Mutant: one state too many before it prunes.
PrunesLate(g) == IF Len(g.states) <= MaxStates + 1 THEN g ELSE RebuildActiveWindow(g)

PruneIfNeeded(g) == IF Len(g.states) <= MaxStates THEN g ELSE RebuildActiveWindow(g)

Newest(g) ==
  [index |-> g.states[Len(g.states)].index, of |-> g.states[Len(g.states)].stamp]
WithRtk(g) == [g EXCEPT !.rtk = @ \cup {Newest(g)}]
WithHeading(g) == [g EXCEPT !.headings = @ \cup {Newest(g)}]

(* addWheelFactorForLatestTransition: the factor is the wheel motion since  *)
(* the sample used last, wherever the keyframes it was used for are.        *)
\* Mutant: the first sample stays the reference.
KeepsFirstSample(wheel) == IF previous_wheel = 0 THEN wheel ELSE previous_wheel

WheelReference(wheel) == IF wheel # 0 THEN wheel ELSE previous_wheel

(* The first part of onTimer: a new odometry is a new keyframe.  Pruning    *)
(* keeps at least two states, so the newest transition, which gets the      *)
(* wheel factor after it, is not dropped.                                   *)
WithKeyframe(wheel) ==
  IF graph.states = <<>> THEN AddInitialState(lio)
  ELSE IF lio > last_lio THEN
    PruneIfNeeded(IF wheel # 0 /\ previous_wheel # 0
                  THEN AddFastLioBetween(graph, lio, previous_wheel, wheel)
                  ELSE AddFastLioBetween(graph, lio, 0, 0))
  ELSE graph

KeyframeVars(wheel) ==
  IF graph.states = <<>> THEN last_lio' = lio /\ UNCHANGED previous_wheel
  ELSE IF lio > last_lio THEN last_lio' = lio /\ previous_wheel' = WheelReference(wheel)
  ELSE UNCHANGED <<last_lio, previous_wheel>>
--------------------------------------------------------------------------------
(* updateFrameAnchorBootstrap: consecutive fixed samples with a heading;    *)
(* when there are enough their headings must agree, or it starts over.      *)
UpdateFrameAnchorBootstrap(heading, stable) ==
  LET count == IF nmea = "fixed" /\ heading THEN anchor_count + 1 ELSE 0 IN
  /\ anchored' = (count >= AnchorSamples /\ stable)
  /\ anchor_count' = IF count >= AnchorSamples /\ ~stable THEN 0 ELSE count

(* evaluateRtkGate; near, weak and far are a position innovation of at most *)
(* 3 m, of at most 5 m, and above; far is also a fix whose heading or whose *)
(* speed since the one before is out of range.                              *)
EvaluateRtkGate(innovation) ==
  IF nmea = "bad" \/ innovation = "far" \/ (nmea = "fixed" /\ innovation = "weak")
  THEN "Rejected"
  ELSE IF nmea = "fixed" THEN "Strong"
  ELSE IF nmea = "float" THEN "Weak"
  ELSE "Diagnostic"

(* evaluateLatestRtkGate                                                    *)
EvaluateLatestRtkGate(gate, heading) ==
  IF nmea = "none" \/ ~valid_fix THEN
    gate = "Rejected" /\ UNCHANGED <<anchored, anchor_count>>
  ELSE
    /\ IF anchored THEN UNCHANGED <<anchored, anchor_count>>
       ELSE \E stable \in BOOLEAN : UpdateFrameAnchorBootstrap(heading, stable)
    /\ \E innovation \in {"near", "weak", "far"} :
         gate = IF anchored' THEN EvaluateRtkGate(innovation) ELSE "Rejected"
--------------------------------------------------------------------------------
(* LocalizationStateMachine.                                                *)
AcceptStrong(m) ==
  LET strong == Capped(m.strong + 1, MinStrong) IN
  [mode |-> IF m.mode \notin {"LocalOnly", "Degraded", "Candidate"} THEN m.mode
            ELSE IF strong >= MinStrong THEN "Recovery" ELSE "Candidate",
   strong |-> strong,
   invalid |-> 0]

LosesTrust(mode) ==
  CASE mode = "Locked" -> "Degraded"
    [] mode \in {"Candidate", "Recovery"} -> "LocalOnly"
    [] OTHER -> mode

\* Mutant: the samples before a weak one still count.
KeepsCount(m) == [m EXCEPT !.mode = LosesTrust(m.mode)]

AcceptWeak(m) == [m EXCEPT !.mode = LosesTrust(m.mode), !.strong = 0]

\* Mutant: the rejected samples are not counted.
ForgetsInvalid(m) == [mode |-> LosesTrust(m.mode), strong |-> 0, invalid |-> m.invalid]

AcceptRejected(m) ==
  LET invalid == Capped(m.invalid + 1, MaxInvalid) IN
  [mode |-> IF m.mode = "Degraded" /\ invalid >= MaxInvalid THEN "LocalOnly"
            ELSE LosesTrust(m.mode),
   strong |-> 0,
   invalid |-> invalid]

Update(m, gate) ==
  CASE gate = "Strong" -> AcceptStrong(m)
    [] gate \in {"Weak", "Diagnostic"} -> AcceptWeak(m)
    [] gate = "Rejected" -> AcceptRejected(m)

MarkRecoveryCommitted(m) ==
  IF m.mode = "Recovery" THEN [mode |-> "Locked", strong |-> MinStrong, invalid |-> 0] ELSE m

MarkRecoveryRejected(m) == [mode |-> LosesTrust(m.mode), strong |-> 0, invalid |-> 0]
--------------------------------------------------------------------------------
(* The rest of onTimer: a strong fix is committed to the newest state when  *)
(* the machine asks for it, and the heading after it.                       *)
Asked(gate, m) == gate = "Strong" /\ m.mode \in {"Recovery", "Locked"}

OnTimer(gate, wheel, heading, committed) ==
  LET g == WithKeyframe(wheel)
      m == Update(machine, gate)
      asked == Asked(gate, m)
  IN
  /\ lio # 0 /\ IsClosest(wheel, lio)
  /\ committed => asked
  /\ EvaluateLatestRtkGate(gate, heading)
  /\ KeyframeVars(wheel)
  /\ machine' = IF ~asked THEN m
                ELSE IF committed THEN MarkRecoveryCommitted(m) ELSE MarkRecoveryRejected(m)
  /\ graph' = IF ~committed THEN g
              ELSE IF heading THEN WithHeading(WithRtk(g)) ELSE WithRtk(g)
  /\ run' = IF gate = "Strong" /\ (asked => committed) THEN Capped(run + 1, MinStrong) ELSE 0
  /\ UNCHANGED inputs

Timer ==
  \E wheel \in wheels \cup {0}, gate \in GateModes, heading, committed \in BOOLEAN :
    OnTimer(gate, wheel, heading, committed)

Next ==
  \/ \E t \in 1 .. MaxStamp : LioCB(t)
  \/ \E quality \in Qualities \ {"none"} : NmeaCB(quality)
  \/ \E valid \in BOOLEAN : FixCB(valid)
  \/ \E t \in WheelStamps : WheelCB(t)
  \/ Timer

(* The timer of a spinning node fires for ever; the sensors owe nothing.    *)
Spec == Init /\ [][Next]_vars /\ WF_vars(Timer)
--------------------------------------------------------------------------------
States == [stamp : 0 .. MaxStamp, index : Nat]
Transitions == [from : Nat, to : Nat, stamp : 0 .. MaxStamp,
                since : WheelStamps \cup {0}, until : WheelStamps \cup {0}]
Records == [index : Nat, of : 0 .. MaxStamp]
FactorGraphs == [states : Seq(States), transitions : SUBSET Transitions,
                 rtk : SUBSET Records, headings : SUBSET Records]

TypeOK ==
  /\ lio \in 0 .. MaxStamp /\ nmea \in Qualities /\ valid_fix \in BOOLEAN
  /\ wheels \subseteq WheelStamps
  /\ anchored \in BOOLEAN /\ anchor_count \in 0 .. AnchorSamples
  /\ machine \in [mode : Modes, strong : 0 .. MinStrong, invalid : 0 .. MaxInvalid]
  /\ last_lio \in 0 .. MaxStamp /\ previous_wheel \in WheelStamps \cup {0}
  /\ graph \in FactorGraphs /\ Len(graph.states) <= MaxStates
  /\ run \in 0 .. MinStrong

(* The localizer claims an RTK lock after enough consecutive strong ticks    *)
(* and only then, one weak, rejected or refused fix starting it over; and    *)
(* while it does the newest state of the graph carries an RTK factor: a new  *)
(* keyframe or the sliding window never leaves a locked estimate without one *)
(* (state_machine.cpp, rtk_fgo_node.cpp onTimer, fgo_graph.cpp).             *)
LockIsEarned ==
  /\ machine.mode = "Locked" <=> run >= MinStrong
  /\ machine.mode = "Locked" => Newest(graph) \in graph.rtk

(* After any number of renumberings a transition, an RTK position and a      *)
(* heading still constrain the states they were measured at                  *)
(* (fgo_graph.cpp rebuildActiveWindow).                                      *)
MeasurementsStayWithTheirStates ==
  /\ \A r \in graph.rtk \cup graph.headings :
       \E i \in 1 .. Len(graph.states) :
         graph.states[i].index = r.index /\ graph.states[i].stamp = r.of
  /\ \A t \in graph.transitions :
       \E i \in 1 .. Len(graph.states) - 1 :
         /\ graph.states[i].index = t.from /\ graph.states[i + 1].index = t.to
         /\ graph.states[i + 1].stamp = t.stamp

(* Over the window every wheel motion is counted once: none runs backward,   *)
(* each ends at a sample near the keyframe of its transition, and each       *)
(* starts at the very sample where the last one before it ended, even when   *)
(* keyframes between had no sample near or shared one (rtk_fgo_node.cpp      *)
(* addWheelFactorForLatestTransition, topic_buffers.hpp closest and prune).  *)
Driven == {t \in graph.transitions : t.until # 0}

WheelMotionsJoin ==
  \A t \in Driven :
    /\ t.since <= t.until /\ Distance(t.until, t.stamp) <= WheelTolerance
    /\ \A u \in Driven :
         t.from < u.from /\ (\A v \in Driven : v.from <= t.from \/ u.from <= v.from)
           => t.until = u.since

(* When the receiver reports no usable quality for ever, the localizer gives *)
(* the lock up for good.                                                     *)
LosesLock == <>[](nmea = "bad") => <>[](machine.mode = "LocalOnly")
================================================================================
