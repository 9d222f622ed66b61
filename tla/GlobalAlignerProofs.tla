-------------------------- MODULE GlobalAlignerProofs --------------------------
(***************************************************************************)
(* Proofs about the corrector and the aligner together: their types, the   *)
(* bound on what the alignment can drift by, the smoothness of the         *)
(* published transform, what a solution over the pairs is, and that the    *)
(* start ends, for every limit and any number of fixes.                    *)
(***************************************************************************)
EXTENDS GlobalAligner, SumsProofs, TLAPS

IInv == TypeOK /\ WithinBootstrap

(* A shortened move is one, is no longer than the limit and not past the    *)
(* whole move.                                                              *)
LEMMA LimitedMove ==
  ASSUME NEW d \in Int, NEW limit \in Nat
  PROVE  /\ Limited(d, limit) \in Int /\ Abs(Limited(d, limit)) <= limit
         /\ d >= 0 => 0 <= Limited(d, limit) /\ Limited(d, limit) <= d
         /\ d <= 0 => d <= Limited(d, limit) /\ Limited(d, limit) <= 0
BY DEF Limited, Abs

(* A list of pairs as the nodes keep them, labelled or not.                 *)
ArePairs(ps) ==
  /\ \E R : ps \in Seq(R)
  /\ \A i \in DOMAIN ps : ps[i].enu \in Int /\ ps[i].map \in Int

LEMMA Translations ==
  ASSUME NEW ps, ArePairs(ps)
  PROVE  LET s == [i \in DOMAIN ps |-> ps[i].map - ps[i].enu] IN
         s \in Seq(Int) /\ Len(s) = Len(ps) /\ DOMAIN ps = 1 .. Len(ps) /\ Len(ps) \in Nat
<1> DEFINE s == [i \in DOMAIN ps |-> ps[i].map - ps[i].enu]
<1>1. DOMAIN ps = 1 .. Len(ps) /\ Len(ps) \in Nat
  BY DEF ArePairs
<1>2. s \in [1 .. Len(ps) -> Int]
  BY <1>1 DEF ArePairs
<1> HIDE DEF s
<1>3. s \in Seq(Int) /\ Len(s) = Len(ps)
  BY <1>1, <1>2
<1> QED BY <1>1, <1>3 DEF s

LEMMA MeanType ==
  ASSUME NEW ps, ArePairs(ps), Len(ps) > 0 PROVE Mean(ps) \in Int
<1> DEFINE s == [i \in DOMAIN ps |-> ps[i].map - ps[i].enu]
<1>1. Total(s) \in Int /\ Len(ps) \in Nat \ {0}
  BY Translations, TotalType
<1> HIDE DEF s
<1>2. Total(s) \div Len(ps) \in Int
  BY <1>1
<1> QED BY <1>2 DEF Mean, s

(* A step towards a mean within the bound, from within it, stays within it. *)
LEMMA SteppedSound ==
  ASSUME NEW bootstrap \in Int, NEW now \in Int, NEW ps, ArePairs(ps),
         Abs(now - bootstrap) <= MaxBootstrapDelta
  PROVE  /\ Stepped(bootstrap, now, ps) \in Int
         /\ Abs(Stepped(bootstrap, now, ps) - bootstrap) <= MaxBootstrapDelta
<1>1. CASE Solves(ps) /\ Abs(Mean(ps) - bootstrap) <= MaxBootstrapDelta
  <2> DEFINE m == Mean(ps)
             moved == Limited(m - now, MaxAlignmentStep)
  <2>1. m \in Int
    <3>1. Len(ps) > 0
      BY <1>1, AlignerAssumption DEF Solves, ArePairs
    <3> QED BY <3>1, MeanType
  <2>2. Stepped(bootstrap, now, ps) = now + moved
    BY <1>1 DEF Stepped
  <2>3. Abs(m - bootstrap) <= MaxBootstrapDelta
    BY <1>1
  <2> HIDE DEF m
  <2>4. /\ moved \in Int
        /\ m - now >= 0 => 0 <= moved /\ moved <= m - now
        /\ m - now <= 0 => m - now <= moved /\ moved <= 0
    <3>1. m - now \in Int /\ MaxAlignmentStep \in Nat
      BY <2>1, AlignerAssumption
    <3> QED BY <3>1, LimitedMove
  <2> HIDE DEF moved
  <2>5. Abs(now + moved - bootstrap) <= MaxBootstrapDelta
    BY <2>1, <2>3, <2>4, AlignerAssumption DEF Abs
  <2> QED BY <2>2, <2>4, <2>5
<1>2. CASE ~(Solves(ps) /\ Abs(Mean(ps) - bootstrap) <= MaxBootstrapDelta)
  BY <1>2 DEF Stepped
<1> QED BY <1>1, <1>2
--------------------------------------------------------------------------------
LEMMA InitIInv == Init => IInv
<1> SUFFICES ASSUME Init PROVE IInv
  OBVIOUS
<1>1. CorrectorTypeOK
  BY DEF Init, CorrectorInit, CorrectorTypeOK, Positions
<1>2. ~Aligned
  BY DEF Init, Aligned
<1>3. LearnedTypeOK
  <2>1. Len(<<>>) <= MaxPairs
    BY AlignerAssumption
  <2>2. pairs = <<>> /\ calibration_pairs = <<>>
    BY DEF Init
  <2> QED BY <1>2, <2>1, <2>2 DEF Init, LearnedTypeOK, Positions
<1>4. LoopTypeOK
  <2>1. /\ phase = "fix" /\ startup_fix = None
        /\ pending = None /\ calibrating = None /\ events = 0
    BY DEF Init
  <2>2. unseen = FALSE
    BY DEF Init
  <2>3. unseen \in BOOLEAN /\ (unseen => fix # None)
    BY <2>2
  <2> QED BY <1>2, <2>1, <2>3, AlignerAssumption DEF LoopTypeOK, Positions, Phases
<1> QED BY <1>1, <1>2, <1>3, <1>4 DEF IInv, TypeOK, WithinBootstrap

(* What a tick computes with is there when it may publish.                  *)
LEMMA TickValues ==
  ASSUME CorrectorTypeOK
  PROVE  /\ BootstrapAlignment \in Positions
         /\ MayPublish => RtkMapBase \in Int /\ RawTarget \in Int
<1>1. BootstrapAlignment \in Positions
  BY CorrectorAssumption DEF CorrectorTypeOK, BootstrapAlignment, Positions
<1>2. MayPublish => RtkMapBase \in Int /\ RawTarget \in Int
  BY <1>1, CorrectorAssumption
  DEF CorrectorTypeOK, MayPublish, RtkMapBase, RawTarget, Alignment, Positions
<1> QED BY <1>1, <1>2

(* A blended target lies on the way to the raw one.                         *)
LEMMA BlendIsInt ==
  ASSUME NEW a \in Int, NEW b \in Int, NEW t \in Blend(a, b) PROVE t \in Int
BY DEF Blend

(* A tick keeps the corrector's types and moves the output by at most a     *)
(* step towards its target.                                                 *)
LEMMA TimerSound ==
  ASSUME CorrectorTypeOK, Timer
  PROVE  /\ CorrectorTypeOK'
         /\ last_output # None =>
              /\ last_output' # None
              /\ Abs(last_output' - last_output) <= MaxStep
              /\ last_output' # last_output =>
                   Between(last_output, last_output', smoothed_target')
<1>1. UNCHANGED <<inputs, external>> /\ bootstrap_alignment' \in Positions
  BY TickValues DEF Timer
<1>2. last_output # None =>
        last_output \in Int /\ last_raw_map_base \in Int /\ smoothed_target \in Int
  BY DEF CorrectorTypeOK, Positions
<1>3. CASE Hold
  <2>1. CorrectorTypeOK'
    BY <1>1, <1>3 DEF Hold, CorrectorTypeOK, inputs, external
  <2>2. last_output # None => Abs(last_output' - last_output) <= MaxStep
    BY <1>2, <1>3, CorrectorAssumption DEF Hold, Abs
  <2> QED BY <1>3, <2>1, <2>2 DEF Hold
<1>4. CASE MayPublish /\ last_output = None /\ FirstOutput
  <2>1. last_output' \in Int /\ last_raw_map_base' \in Int /\ smoothed_target' \in Int
    BY <1>4, TickValues DEF FirstOutput
  <2>2. CorrectorTypeOK'
    BY <1>1, <2>1, CorrectorAssumption DEF CorrectorTypeOK, Positions, inputs, external
  <2> QED BY <1>4, <2>2
<1>5. CASE MayPublish /\ last_output # None /\ ~TargetJump /\ FollowTarget
  <2>1. RtkMapBase \in Int /\ RawTarget \in Int
    BY <1>5, TickValues
  <2>2. PICK t \in Blend(smoothed_target, RawTarget) :
          /\ smoothed_target' = t /\ last_output' = LimitStep(last_output, t)
          /\ last_raw_map_base' = RtkMapBase
    BY <1>5 DEF FollowTarget
  <2>3. t \in Int
    BY <1>2, <1>5, <2>1, BlendIsInt
  <2> DEFINE moved == Limited(t - last_output, MaxStep)
  <2>4. last_output' = last_output + moved
    BY <2>2 DEF LimitStep
  <2>5. /\ moved \in Int /\ Abs(moved) <= MaxStep
        /\ t - last_output >= 0 => 0 <= moved /\ moved <= t - last_output
        /\ t - last_output <= 0 => t - last_output <= moved /\ moved <= 0
    <3>1. t - last_output \in Int /\ MaxStep \in Nat
      BY <1>2, <1>5, <2>3, CorrectorAssumption
    <3> QED BY <3>1, LimitedMove
  <2> HIDE DEF moved
  <2>6. last_output' \in Int /\ last_raw_map_base' \in Int /\ smoothed_target' \in Int
    BY <1>2, <1>5, <2>1, <2>2, <2>3, <2>4, <2>5
  <2>7. CorrectorTypeOK'
    BY <1>1, <2>6, CorrectorAssumption DEF CorrectorTypeOK, Positions, inputs, external
  <2>8. Abs(last_output' - last_output) <= MaxStep
    <3>1. last_output' - last_output = moved
      BY <1>2, <1>5, <2>4, <2>5
    <3> QED BY <3>1, <2>5
  <2>9. Between(last_output, last_output', smoothed_target')
    <3>1. last_output \in Int /\ smoothed_target' = t
      BY <1>2, <1>5, <2>2
    <3> QED BY <3>1, <2>3, <2>4, <2>5 DEF Between
  <2>10. last_output' # None
    BY <2>6, CorrectorAssumption
  <2> QED BY <2>7, <2>8, <2>9, <2>10
<1> QED BY <1>3, <1>4, <1>5 DEF Timer
--------------------------------------------------------------------------------
(* What the window may become: pairs of integers, as many as it may hold.   *)
LEMMA IngestedSound ==
  ASSUME TypeOK, Aligned, NEW ps \in Ingested
  PROVE  ps \in Seq([enu : Int, map : Int]) /\ Len(ps) <= MaxPairs
<1> DEFINE Pair == [enu : Int, map : Int]
           new == [enu |-> fix, map |-> MapPose]
<1>1. pairs \in Seq(Pair) /\ Len(pairs) <= MaxPairs
  BY DEF TypeOK, LearnedTypeOK
<1>2. \A q \in Trimmed : q \in Seq(Pair) /\ Len(q) <= MaxPairs
  <2> SUFFICES ASSUME NEW k \in 0 .. Len(pairs)
               PROVE  LET q == SubSeq(pairs, k + 1, Len(pairs)) IN
                      q \in Seq(Pair) /\ Len(q) <= MaxPairs
    BY DEF Trimmed
  <2> HIDE DEF Pair
  <2>1. Len(pairs) \in Nat /\ MaxPairs \in Nat /\ k \in Nat
    BY <1>1, AlignerAssumption
  <2>2. SubSeq(pairs, k + 1, Len(pairs)) \in Seq(Pair)
    BY <1>1, <2>1
  <2>3. Len(SubSeq(pairs, k + 1, Len(pairs))) = Len(pairs) - k
    BY <1>1, <2>1
  <2> QED BY <1>1, <2>1, <2>2, <2>3
<1>3. CASE ~unseen
  BY <1>1, <1>3 DEF Ingested
<1>4. CASE unseen
  <2>1. fix \in Int /\ MapPose \in Int
    BY <1>4 DEF TypeOK, CorrectorTypeOK, LoopTypeOK, Positions, MapPose, HasMapPose
  <2>2. new \in Pair
    BY <2>1
  <2>3. ps = pairs \/ ps \in Trimmed \/ \E q \in Trimmed : Len(q) < MaxPairs /\ ps = Append(q, new)
    BY <1>4 DEF Ingested
  <2> HIDE DEF Pair, new
  <2>4. ASSUME NEW q \in Trimmed, Len(q) < MaxPairs, ps = Append(q, new)
        PROVE  ps \in Seq(Pair) /\ Len(ps) <= MaxPairs
    <3>1. q \in Seq(Pair)
      BY <1>2
    <3>2. ps \in Seq(Pair) /\ Len(ps) = Len(q) + 1
      BY <2>2, <2>4, <3>1
    <3>3. Len(q) \in Nat /\ MaxPairs \in Nat
      BY <3>1, AlignerAssumption
    <3> QED BY <2>4, <3>2, <3>3
  <2>5. ps \in Seq(Pair) /\ Len(ps) <= MaxPairs
    BY <1>1, <1>2, <2>3, <2>4
  <2> QED BY <2>5 DEF Pair
<1> QED BY <1>3, <1>4

(* What the calibration pairs become: a pair replaced or one more.          *)
CalibrationPair == [label : Waypoints \cup {"start_ref"}, enu : Int, map : Int]

LEMMA TypedPairs ==
  /\ \A ps \in Seq([enu : Int, map : Int]) : ArePairs(ps)
  /\ \A ps \in Seq(CalibrationPair) : ArePairs(ps)
<1>1. ASSUME NEW R, \A r \in R : r.enu \in Int /\ r.map \in Int, NEW ps \in Seq(R)
      PROVE  ArePairs(ps)
  BY <1>1 DEF ArePairs
<1>2. \A r \in [enu : Int, map : Int] : r.enu \in Int /\ r.map \in Int
  OBVIOUS
<1>3. \A r \in CalibrationPair : r.enu \in Int /\ r.map \in Int
  BY DEF CalibrationPair
<1> QED BY <1>1, <1>2, <1>3

LEMMA UpsertType ==
  ASSUME NEW ps \in Seq(CalibrationPair), NEW pair \in CalibrationPair
  PROVE  Upsert(ps, pair) \in Seq(CalibrationPair)
<1> HIDE DEF CalibrationPair
<1>1. Append(ps, pair) \in Seq(CalibrationPair)
  OBVIOUS
<1>2. [i \in DOMAIN ps |-> IF ps[i].label = pair.label THEN pair ELSE ps[i]]
        \in Seq(CalibrationPair)
  <2>1. /\ DOMAIN ps = 1 .. Len(ps) /\ Len(ps) \in Nat
        /\ \A i \in 1 .. Len(ps) : ps[i] \in CalibrationPair
    OBVIOUS
  <2> QED BY <2>1
<1> QED BY <1>1, <1>2 DEF Upsert
--------------------------------------------------------------------------------
(* The world and the corrector leave what the aligner learned alone.        *)
LEMMA LearnedUnchanged ==
  ASSUME IInv, UNCHANGED <<learned, phase>>
  PROVE  LearnedTypeOK' /\ WithinBootstrap'
BY DEF IInv, TypeOK, LearnedTypeOK, WithinBootstrap, learned, Aligned

LEMMA WorldStep == ASSUME IInv, World PROVE IInv'
<1> USE DEF IInv, TypeOK
<1>1. events' \in 0 .. MaxEvents
  BY AlignerAssumption DEF World, LoopTypeOK
<1>2. CASE SomeFix
  <2>1. PICK offset \in Offsets : Fix(odom + offset)
    BY <1>2 DEF SomeFix
  <2>2. /\ fix' = odom + offset /\ fresh' = TRUE /\ unseen' = TRUE
        /\ UNCHANGED <<odom, fixed, external, authority>>
        /\ UNCHANGED <<phase, startup_fix, learned, asked>>
    BY <2>1 DEF Fix, FixCB
  <2>3. fix' \in Int
    BY <2>2, CorrectorAssumption DEF CorrectorTypeOK
  <2>4. CorrectorTypeOK'
    BY <2>2, <2>3, CorrectorAssumption
    DEF CorrectorTypeOK, Positions, external, authority
  <2>5. LearnedTypeOK' /\ WithinBootstrap'
    BY <2>2, LearnedUnchanged
  <2>6. LoopTypeOK'
    <3>1. unseen' \in BOOLEAN /\ (unseen' => fix' # None)
      BY <2>2, <2>3, CorrectorAssumption
    <3> QED BY <1>1, <2>2, <3>1 DEF LoopTypeOK, asked, authority, Aligned, HasMapPose
  <2> QED BY <2>4, <2>5, <2>6
<1>3. CASE Drive /\ UNCHANGED aligner
  <2>1. CorrectorTypeOK'
    BY <1>3 DEF CorrectorTypeOK, Drive, external, authority
  <2>2. LearnedTypeOK' /\ WithinBootstrap'
    BY <1>3, LearnedUnchanged DEF aligner
  <2>3. LoopTypeOK'
    BY <1>1, <1>3
    DEF LoopTypeOK, Drive, authority, aligner, asked, Aligned, HasMapPose
  <2> QED BY <2>1, <2>2, <2>3
<1>4. ASSUME NEW w \in Waypoints, CalibrationRequestCB(w) PROVE IInv'
  <2>1. /\ pending' = IF pending = None THEN w ELSE pending
        /\ UNCHANGED <<corrector, phase, unseen, startup_fix, learned, calibrating>>
    BY <1>4 DEF CalibrationRequestCB
  <2>2. CorrectorTypeOK'
    BY <2>1 DEF CorrectorTypeOK, corrector, inputs, external, authority
  <2>3. LearnedTypeOK' /\ WithinBootstrap'
    BY <2>1, LearnedUnchanged
  <2>4. LoopTypeOK'
    BY <1>1, <2>1
    DEF LoopTypeOK, corrector, inputs, authority, Aligned, HasMapPose
  <2> QED BY <2>2, <2>3, <2>4
<1> QED BY <1>2, <1>3, <1>4 DEF World

LEMMA OutageStep == ASSUME IInv, Outage PROVE IInv'
<1> USE DEF IInv, TypeOK
<1>1. /\ UNCHANGED <<odom, fix, alignment, authority, aligner, events>>
      /\ fresh' = fresh \/ fresh' = FALSE \/ (fresh' = TRUE /\ fix # None)
      /\ alignment_fresh' = alignment_fresh \/ alignment_fresh' = FALSE
      /\ fixed' = fixed \/ fixed' \in BOOLEAN
  BY DEF Outage, InputsAge, InputsReturn, AlignmentAges, RtkStatusCB, inputs, external
<1>2. CorrectorTypeOK'
  <2> fix' = fix /\ alignment' = alignment
    BY <1>1
  <2>1. fresh' \in BOOLEAN /\ (fresh' => fix' # None)
    <3>1. fresh \in BOOLEAN /\ (fresh => fix # None)
      BY DEF CorrectorTypeOK
    <3>2. CASE fresh' = fresh
      BY <3>1, <3>2, Zenon
    <3>3. CASE fresh' = FALSE
      BY <3>3
    <3>4. CASE fresh' = TRUE /\ fix # None
      BY <3>4
    <3> QED BY <1>1, <3>2, <3>3, <3>4, Zenon
  <2>2. alignment_fresh' \in BOOLEAN /\ (alignment_fresh' => alignment' # None)
    <3>1. alignment_fresh \in BOOLEAN /\ (alignment_fresh => alignment # None)
      BY DEF CorrectorTypeOK
    <3>2. CASE alignment_fresh' = alignment_fresh
      BY <3>1, <3>2, Zenon
    <3>3. CASE alignment_fresh' = FALSE
      BY <3>3
    <3> QED BY <1>1, <3>2, <3>3, Zenon
  <2>3. fixed' \in BOOLEAN
    BY <1>1 DEF CorrectorTypeOK
  <2> QED BY <1>1, <2>1, <2>2, <2>3 DEF CorrectorTypeOK, authority
<1>3. LearnedTypeOK' /\ WithinBootstrap'
  BY <1>1, LearnedUnchanged DEF aligner
<1>4. LoopTypeOK'
  BY <1>1 DEF LoopTypeOK, authority, aligner, asked, Aligned, HasMapPose
<1> QED BY <1>2, <1>3, <1>4

LEMMA TickStep == ASSUME IInv, Tick PROVE IInv'
<1> USE DEF IInv, TypeOK
<1>1. /\ CorrectorTypeOK' /\ (last_output # None => last_output' # None)
      /\ UNCHANGED <<inputs, aligner, events>>
  BY TimerSound DEF Tick, Timer
<1>2. LearnedTypeOK' /\ WithinBootstrap'
  BY <1>1, LearnedUnchanged DEF aligner
<1>3. LoopTypeOK'
  BY <1>1 DEF LoopTypeOK, inputs, aligner, asked, Aligned, HasMapPose
<1> QED BY <1>1, <1>2, <1>3
--------------------------------------------------------------------------------
(* Starting: the bootstrap is the alignment, and both are numbers.          *)
LEMMA StartStep ==
  ASSUME IInv, UNCHANGED events, StartupFix \/ Bootstrap \/ StartupFails
  PROVE  IInv'
<1> USE DEF IInv, TypeOK
<1>1. UNCHANGED corrector
  BY DEF StartupFix, Bootstrap, StartupFails
<1>2. CorrectorTypeOK'
  BY <1>1 DEF CorrectorTypeOK, corrector, inputs, external, authority
<1>3. CASE StartupFix
  <2>1. /\ startup_fix' = fix /\ unseen' = FALSE /\ phase' = "pose" /\ fix # None
        /\ UNCHANGED learned /\ UNCHANGED asked
    BY <1>3 DEF StartupFix, LoopTypeOK
  <2>2. LearnedTypeOK' /\ WithinBootstrap'
    BY <2>1 DEF LearnedTypeOK, WithinBootstrap, learned, Aligned
  <2>3. LoopTypeOK'
    <3>1. unseen' \in BOOLEAN /\ (unseen' => fix' # None)
      BY <2>1
    <3> QED BY <1>1, <2>1, <3>1
        DEF LoopTypeOK, CorrectorTypeOK, asked, Aligned, Phases
  <2> QED BY <1>2, <2>2, <2>3
<1>4. CASE Bootstrap
  <2>1. /\ aligner_bootstrap' = MapPose - startup_fix
        /\ current_alignment' = MapPose - startup_fix
        /\ calibration_pairs' =
             <<[label |-> "start_ref", enu |-> startup_fix, map |-> MapPose]>>
        /\ phase' = "running" /\ startup_fix' = None
        /\ UNCHANGED <<unseen, pairs, asked>> /\ HasMapPose
        /\ startup_fix \in Int /\ MapPose \in Int
    BY <1>4 DEF Bootstrap, LoopTypeOK, CorrectorTypeOK, Positions, HasMapPose, MapPose
  <2>2. calibration_pairs' \in Seq(CalibrationPair)
    <3> DEFINE p == [label |-> "start_ref", enu |-> startup_fix, map |-> MapPose]
    <3>1. p \in CalibrationPair
      BY <2>1 DEF CalibrationPair
    <3>2. calibration_pairs' = <<p>>
      BY <2>1
    <3> HIDE DEF p, CalibrationPair
    <3> QED BY <3>1, <3>2
  <2>3. LearnedTypeOK'
    <3>1. aligner_bootstrap' \in Int /\ current_alignment' \in Int
      BY <2>1
    <3> QED BY <2>1, <2>2, <3>1, CorrectorAssumption
        DEF LearnedTypeOK, Positions, CalibrationPair
  <2>4. WithinBootstrap'
    <3> DEFINE a == MapPose - startup_fix
    <3>1. a \in Int /\ aligner_bootstrap' = a /\ current_alignment' = a
      BY <2>1
    <3> HIDE DEF a
    <3>2. Abs(current_alignment' - aligner_bootstrap') <= MaxBootstrapDelta
      BY <3>1, AlignerAssumption DEF Abs
    <3> QED BY <3>2 DEF WithinBootstrap, Abs
  <2>5. LoopTypeOK'
    BY <1>1, <2>1
    DEF LoopTypeOK, Positions, corrector, inputs, authority, asked, HasMapPose, Phases
  <2> QED BY <1>2, <2>3, <2>4, <2>5
<1>5. CASE StartupFails
  <2>1. phase' = "failed" /\ UNCHANGED <<unseen, startup_fix, learned, asked>>
    BY <1>5 DEF StartupFails
  <2>2. LearnedTypeOK' /\ WithinBootstrap'
    BY <2>1 DEF LearnedTypeOK, WithinBootstrap, learned, Aligned
  <2>3. LoopTypeOK'
    BY <1>1, <2>1 DEF LoopTypeOK, corrector, inputs, asked, Aligned, Phases
  <2> QED BY <1>2, <2>2, <2>3
<1> QED BY <1>3, <1>4, <1>5

(* What the aligner sends is an alignment.                                  *)
LEMMA SentType ==
  ASSUME CorrectorTypeOK, UNCHANGED <<inputs, authority>>,
         UNCHANGED external \/ \E a \in Int : Send(a)
  PROVE  CorrectorTypeOK'
<1>1. CASE UNCHANGED external
  BY <1>1 DEF CorrectorTypeOK, inputs, external, authority
<1>2. ASSUME NEW a \in Int, Send(a) PROVE CorrectorTypeOK'
  <2>1. alignment' \in Int /\ alignment_fresh' = TRUE
    BY <1>2 DEF Send
  <2>2. /\ alignment' \in Positions /\ alignment_fresh' \in BOOLEAN
        /\ (alignment_fresh' => alignment' # None)
    BY <2>1, CorrectorAssumption DEF Positions
  <2> QED BY <2>2 DEF CorrectorTypeOK, inputs, authority
<1> QED BY <1>1, <1>2

LEMMA LoopStep ==
  ASSUME IInv, UNCHANGED events, NEW send \in BOOLEAN, Loop(send)
  PROVE  IInv'
<1> USE DEF IInv, TypeOK
<1>1. /\ phase = "running" /\ Aligned
      /\ unseen' = FALSE
      /\ IF send THEN Send(current_alignment') ELSE UNCHANGED external
      /\ UNCHANGED <<inputs, authority, phase, startup_fix, aligner_bootstrap>>
      /\ UNCHANGED <<calibration_pairs, asked>>
  BY DEF Loop, Aligned
<1>2. PICK ps \in Ingested :
        /\ pairs' = ps
        /\ current_alignment' = Stepped(aligner_bootstrap, current_alignment, ps)
  BY DEF Loop
<1>3. /\ aligner_bootstrap \in Int /\ current_alignment \in Int
      /\ Abs(current_alignment - aligner_bootstrap) <= MaxBootstrapDelta
  BY <1>1 DEF LearnedTypeOK, Positions, WithinBootstrap
<1>4. /\ current_alignment' \in Int
      /\ Abs(current_alignment' - aligner_bootstrap') <= MaxBootstrapDelta
  <2>1. ArePairs(ps)
    BY <1>1, IngestedSound, TypedPairs
  <2> QED BY <2>1, <1>1, <1>2, <1>3, SteppedSound
<1>5. CorrectorTypeOK'
  <2>1. UNCHANGED external \/ \E a \in Int : Send(a)
    BY <1>1, <1>4
  <2> QED BY <1>1, <2>1, SentType
<1>6. LearnedTypeOK'
  BY <1>1, <1>2, <1>3, <1>4, IngestedSound, CorrectorAssumption
  DEF LearnedTypeOK, Positions
<1>7. LoopTypeOK'
  <2>1. unseen' \in BOOLEAN /\ (unseen' => fix' # None)
    BY <1>1
  <2> QED BY <1>1, <2>1 DEF LoopTypeOK, authority, asked, Aligned, HasMapPose
<1>8. WithinBootstrap'
  BY <1>4 DEF WithinBootstrap, Abs
<1> QED BY <1>5, <1>6, <1>7, <1>8

LEMMA CalibrationEdges ==
  ASSUME IInv, UNCHANGED events, StartCalibration \/ CalibrationTimeout
  PROVE  IInv'
<1> USE DEF IInv, TypeOK
<1>1. /\ UNCHANGED <<corrector, unseen, startup_fix, learned>>
      /\ Aligned /\ phase' \in {"running", "calibrating"}
      /\ pending' \in {pending, None} /\ calibrating' \in {pending, None}
      /\ phase' = "calibrating" => calibrating' # None
  BY DEF StartCalibration, CalibrationTimeout, Aligned
<1>2. CorrectorTypeOK'
  BY <1>1 DEF CorrectorTypeOK, corrector, inputs, external, authority
<1>3. LearnedTypeOK' /\ WithinBootstrap'
  BY <1>1 DEF LearnedTypeOK, WithinBootstrap, learned, Aligned
<1>4. LoopTypeOK'
  BY <1>1
  DEF LoopTypeOK, corrector, inputs, authority, Aligned, HasMapPose, Phases
<1> QED BY <1>2, <1>3, <1>4

(* A calibration moves the bootstrap with the alignment, and what the rest  *)
(* of its turn steps is within the bound of the new one.                    *)
LEMMA CalibrateStep ==
  ASSUME IInv, UNCHANGED events, Calibrate
  PROVE  IInv'
<1> USE DEF IInv, TypeOK
<1> DEFINE pair == [label |-> calibrating, enu |-> fix, map |-> MapPose]
           ps == Upsert(calibration_pairs, pair)
           now == IF Calibrates(ps) THEN Mean(ps) ELSE current_alignment
<1>1. /\ phase = "calibrating" /\ unseen /\ Aligned
      /\ unseen' = FALSE /\ phase' = "running" /\ calibrating' = None
      /\ UNCHANGED <<inputs, authority, startup_fix, pairs, pending>>
      /\ calibration_pairs' = ps
      /\ aligner_bootstrap' = CalibratedBootstrap(ps)
      /\ current_alignment' = Stepped(aligner_bootstrap', now, pairs)
      /\ \/ Send(current_alignment')
         \/ Calibrates(ps) /\ Send(now)
         \/ ~Calibrates(ps) /\ UNCHANGED external
  BY DEF Calibrate, Aligned
<1>2. calibration_pairs' \in Seq(CalibrationPair)
  <2>1. /\ fix \in Int /\ MapPose \in Int
        /\ calibrating \in Waypoints \cup {"start_ref"}
    BY <1>1
    DEF CorrectorTypeOK, LoopTypeOK, Positions, MapPose, HasMapPose
  <2>2. pair \in CalibrationPair
    BY <2>1 DEF CalibrationPair
  <2>3. calibration_pairs \in Seq(CalibrationPair)
    BY DEF LearnedTypeOK, CalibrationPair
  <2> QED BY <1>1, <2>2, <2>3, UpsertType
<1> HIDE DEF ps
<1>3. /\ aligner_bootstrap \in Int /\ current_alignment \in Int
      /\ Abs(current_alignment - aligner_bootstrap) <= MaxBootstrapDelta
  BY <1>1 DEF LearnedTypeOK, Positions, WithinBootstrap
<1>4. /\ now \in Int /\ aligner_bootstrap' \in Int
      /\ Abs(now - aligner_bootstrap') <= MaxBootstrapDelta
  <2>1. CASE Calibrates(ps)
    <3> DEFINE m == Mean(ps)
    <3>1. ArePairs(ps)
      <4>1. ps \in Seq(CalibrationPair)
        BY <1>1, <1>2
      <4> QED BY <4>1, TypedPairs
    <3>2. Len(ps) > 0
      BY <2>1, <3>1 DEF Calibrates, ArePairs
    <3>3. m \in Int /\ now = m /\ aligner_bootstrap' = m
      BY <1>1, <2>1, <3>1, <3>2, MeanType DEF CalibratedBootstrap
    <3> HIDE DEF m, now
    <3> QED BY <3>3, AlignerAssumption DEF Abs
  <2>2. CASE ~Calibrates(ps)
    BY <1>1, <1>3, <2>2 DEF CalibratedBootstrap
  <2> QED BY <2>1, <2>2
<1> HIDE DEF now
<1>5. /\ current_alignment' \in Int
      /\ Abs(current_alignment' - aligner_bootstrap') <= MaxBootstrapDelta
  <2> DEFINE b == aligner_bootstrap'
  <2>1. b \in Int /\ Abs(now - b) <= MaxBootstrapDelta
    BY <1>4
  <2>2. current_alignment' = Stepped(b, now, pairs)
    BY <1>1
  <2> HIDE DEF b
  <2>3. ArePairs(pairs)
    BY TypedPairs DEF LearnedTypeOK
  <2>4. current_alignment' \in Int /\ Abs(current_alignment' - b) <= MaxBootstrapDelta
    BY <1>4, <2>1, <2>2, <2>3, SteppedSound
  <2> QED BY <2>4 DEF b
<1>6. CorrectorTypeOK'
  <2>1. UNCHANGED external \/ \E a \in Int : Send(a)
    BY <1>1, <1>4, <1>5
  <2> QED BY <1>1, <2>1, SentType
<1>7. LearnedTypeOK'
  BY <1>1, <1>2, <1>4, <1>5, CorrectorAssumption
  DEF LearnedTypeOK, Positions, CalibrationPair
<1>8. LoopTypeOK'
  <2>1. unseen' \in BOOLEAN /\ (unseen' => fix' # None)
    BY <1>1
  <2> QED BY <1>1, <2>1
      DEF LoopTypeOK, authority, Aligned, HasMapPose, Phases
<1>9. WithinBootstrap'
  BY <1>5 DEF WithinBootstrap, Abs
<1> QED BY <1>6, <1>7, <1>8, <1>9
--------------------------------------------------------------------------------
LEMMA StutterStep == ASSUME IInv, UNCHANGED vars PROVE IInv'
<1>1. CorrectorTypeOK'
  BY DEF IInv, TypeOK, CorrectorTypeOK, vars, corrector, inputs, external, authority
<1>2. LearnedTypeOK' /\ WithinBootstrap'
  BY LearnedUnchanged DEF vars, aligner
<1>3. LoopTypeOK'
  BY DEF IInv, TypeOK, LoopTypeOK, vars, corrector, inputs, authority, aligner, asked,
         Aligned, HasMapPose
<1> QED BY <1>1, <1>2, <1>3 DEF IInv, TypeOK

(* Every step of the two nodes and their world keeps the invariant.         *)
THEOREM Invariance == Spec => []IInv
<1>1. IInv /\ [Next]_vars => IInv'
  BY WorldStep, OutageStep, TickStep, StartStep, LoopStep, CalibrationEdges,
     CalibrateStep, StutterStep DEF Next, AlignerStep
<1> QED BY <1>1, InitIInv, PTL DEF Spec

(* The types hold, and no node computes with a pose that is not there.      *)
THEOREM TypeCorrect == Spec => []TypeOK
<1>1. IInv => TypeOK
  BY DEF IInv
<1> QED BY <1>1, Invariance, PTL

(* However the two nodes feed each other, the alignment stays within the    *)
(* bound of the last bootstrap (gps_global_aligner_node.py, stepping and    *)
(* calibrating).                                                            *)
THEOREM DriftIsBounded == Spec => []WithinBootstrap
<1>1. IInv => WithinBootstrap
  BY DEF IInv
<1> QED BY <1>1, Invariance, PTL

(* A step that does not tick leaves the corrector's output alone.           *)
LEMMA OnlyTicks ==
  ASSUME IInv, [Next]_vars
  PROVE  (Timer /\ CorrectorTypeOK) \/ UNCHANGED authority
<1>1. World => UNCHANGED authority
  BY DEF World, SomeFix, Fix, FixCB, Drive, CalibrationRequestCB, corrector
<1>2. Outage => UNCHANGED authority
  BY DEF Outage, InputsAge, InputsReturn, AlignmentAges, RtkStatusCB
<1>3. AlignerStep => UNCHANGED authority
  BY DEF AlignerStep, StartupFix, Bootstrap, StartupFails, Loop, StartCalibration,
         CalibrationTimeout, Calibrate, corrector
<1> QED BY <1>1, <1>2, <1>3 DEF Next, Tick, vars, corrector, IInv, TypeOK

LEMMA OutputTypes ==
  ASSUME IInv, last_output # None
  PROVE  last_output \in Int
BY DEF IInv, TypeOK, CorrectorTypeOK, Positions

(* The transform never jumps: not over an outage, a change of alignment or  *)
(* a calibration (limit_pose_step).                                         *)
THEOREM OutputIsSmooth == Spec => SmoothOutput
<1> DEFINE Smooth ==
      last_output # None =>
        /\ Abs(last_output' - last_output) <= MaxStep
        /\ last_output' # last_output =>
             Between(last_output, last_output', smoothed_target')
<1>1. IInv /\ [Next]_vars => [Smooth]_vars
  <2> SUFFICES ASSUME IInv, [Next]_vars, last_output # None PROVE Smooth
    OBVIOUS
  <2>1. CASE Timer /\ CorrectorTypeOK
    BY <2>1, TimerSound
  <2>2. CASE UNCHANGED authority
    BY <2>2, OutputTypes, CorrectorAssumption DEF authority, Abs
  <2> QED BY <2>1, <2>2, OnlyTicks
<1> QED BY <1>1, Invariance, PTL DEF Spec, SmoothOutput

--------------------------------------------------------------------------------
(* What a solution is: rounded to the unit it lies between any bounds on    *)
(* the translations the pairs show, so one bad pair moves it no farther     *)
(* than its own (gps_global_aligner_node.py, _solve_alignment).             *)
THEOREM MeanIsBetween ==
  ASSUME NEW ps, ArePairs(ps), Len(ps) > 0, NEW lo \in Int, NEW hi \in Int,
         \A i \in DOMAIN ps : lo <= ps[i].map - ps[i].enu /\ ps[i].map - ps[i].enu <= hi
  PROVE  lo <= Mean(ps) /\ Mean(ps) <= hi
<1> DEFINE s == [i \in DOMAIN ps |-> ps[i].map - ps[i].enu]
<1>1. s \in Seq(Int) /\ Len(s) = Len(ps) /\ DOMAIN ps = 1 .. Len(s) /\ Len(s) \in Nat \ {0}
  BY Translations
<1>2. \A i \in 1 .. Len(s) : lo <= s[i] /\ s[i] <= hi
  BY <1>1
<1>3. Mean(ps) = Total(s) \div Len(s)
  BY <1>1 DEF Mean
<1> HIDE DEF s
<1>4. /\ Total(s) \in Int
      /\ Len(s) * lo <= Total(s) /\ Total(s) <= Len(s) * hi
  BY <1>1, <1>2, TotalBounds
<1> QED BY <1>1, <1>3, <1>4, MeanBounds

(* _compute_pair_spread_m sees the distances to the last pair only: what it *)
(* finds is a distance between two pairs, and at least half the largest.    *)
THEOREM SpreadIsHalfSeen ==
  ASSUME NEW ps, ArePairs(ps), NEW least \in Nat,
         NEW i \in DOMAIN ps, NEW j \in DOMAIN ps
  PROVE  /\ SpreadReaches(ps, least) =>
              \E k, l \in DOMAIN ps : Abs(ps[k].enu - ps[l].enu) >= least
         /\ Abs(ps[i].enu - ps[j].enu) >= 2 * least => SpreadReaches(ps, least)
<1>1. Len(ps) \in DOMAIN ps
  BY DEF ArePairs
<1>2. ps[i].enu \in Int /\ ps[j].enu \in Int /\ ps[Len(ps)].enu \in Int
  BY <1>1 DEF ArePairs
<1>3. ASSUME Abs(ps[i].enu - ps[j].enu) >= 2 * least
      PROVE  Abs(ps[i].enu - ps[Len(ps)].enu) >= least \/ Abs(ps[j].enu - ps[Len(ps)].enu) >= least
  BY <1>2, <1>3, SMTT(30) DEF Abs
<1> QED BY <1>1, <1>3 DEF SpreadReaches
--------------------------------------------------------------------------------
(* Until run() is past its start it has sent nothing, and a fix that is     *)
(* there has not been looked at.                                            *)
Starting == phase \in {"fix", "pose"}
StartInv == /\ Starting => ~alignment_fresh
            /\ phase = "fix" /\ fix # None => unseen

LEMMA StartInvStep == StartInv /\ [Next]_vars => StartInv' /\ (Starting' => Starting)
<1> SUFFICES ASSUME StartInv, [Next]_vars PROVE StartInv' /\ (Starting' => Starting)
  OBVIOUS
<1> USE DEF StartInv, Starting
<1>1. CASE World
  BY <1>1 DEF World, SomeFix, Fix, FixCB, Drive, CalibrationRequestCB, corrector, aligner,
              inputs, external
<1>2. CASE Outage
  BY <1>2 DEF Outage, InputsAge, InputsReturn, AlignmentAges, RtkStatusCB, aligner, inputs,
              external
<1>3. CASE Tick
  BY <1>3 DEF Tick, Timer, aligner, inputs, external
<1>4. CASE AlignerStep
  <2>1. CASE StartupFix
    BY <2>1 DEF StartupFix, corrector, external
  <2>2. CASE phase' \notin {"fix", "pose"}
    BY <2>2
  <2>3. CASE StartupFails
    BY <2>3 DEF StartupFails
  <2>4. CASE Bootstrap \/ (\E send \in BOOLEAN : Loop(send)) \/ StartCalibration
             \/ CalibrationTimeout \/ Calibrate
    <3>1. phase' \notin {"fix", "pose"}
      BY <2>4 DEF Bootstrap, Loop, StartCalibration, CalibrationTimeout, Calibrate
    <3> QED BY <3>1, <2>2
  <2> QED BY <1>4, <2>1, <2>3, <2>4 DEF AlignerStep
<1>5. CASE UNCHANGED vars
  BY <1>5 DEF vars, corrector, aligner, inputs, external
<1> QED BY <1>1, <1>2, <1>3, <1>4, <1>5 DEF Next

(* The three waits of the start.                                            *)
AwaitsFix  == phase = "fix"
AwaitsPose == phase = "pose" /\ ~HasMapPose
HasPose    == phase = "pose" /\ HasMapPose

LEMMA WaitsStep ==
  ASSUME IInv, [Next]_vars
  PROVE  /\ StartupFix => AwaitsPose' \/ HasPose'
         /\ AwaitsPose => AwaitsPose' \/ HasPose' \/ ~Starting'
         /\ HasPose => HasPose' \/ ~Starting'
         /\ Bootstrap => ~Starting'
<1> USE DEF AwaitsPose, HasPose, Starting
<1>1. HasMapPose => HasMapPose'
  BY OnlyTicks, TimerSound DEF HasMapPose, authority
<1>2. phase = "pose" => phase' = "pose" \/ ~Starting'
  BY DEF Next, World, SomeFix, Fix, Drive, CalibrationRequestCB, Outage, Tick, AlignerStep,
         StartupFix, StartupFails, Bootstrap, Loop, StartCalibration, CalibrationTimeout,
         Calibrate, aligner, vars
<1> QED BY <1>1, <1>2 DEF StartupFix, Bootstrap

(* The tick that ends the circular wait: no alignment was sent, so the      *)
(* corrector makes its own and needs no fixed solution for it.              *)
LEMMA FirstTick ==
  ASSUME IInv, StartInv, fresh, AwaitsPose, Tick PROVE HasPose'
<1>1. ~alignment_fresh /\ last_output = None /\ phase' = "pose"
  BY DEF StartInv, Starting, AwaitsPose, HasMapPose, Tick, aligner
<1>2. CorrectorTypeOK
  BY DEF IInv, TypeOK
<1>3. Alignment # None
  BY <1>1, <1>2, CorrectorAssumption
  DEF Alignment, BootstrapAlignment, Selected, CorrectorTypeOK, Positions
<1>4. MayPublish
  BY <1>1, <1>3 DEF MayPublish
<1>5. last_output' = RawTarget /\ RawTarget \in Int
  BY <1>1, <1>2, <1>4, TickValues DEF Tick, Timer, FirstOutput
<1> QED BY <1>1, <1>5, CorrectorAssumption DEF HasPose, HasMapPose

(* The provers cannot evaluate ENABLED: that the fair steps of the start    *)
(* are enabled where their guards hold is a hypothesis.                     *)
StartIsEnabled ==
  /\ [](phase = "fix" /\ fix # None /\ unseen
          => ENABLED <<StartupFix /\ UNCHANGED events>>_vars)
  /\ [](fresh /\ ~alignment_fresh /\ ~HasMapPose => ENABLED <<Tick>>_vars)
  /\ [](HasPose => ENABLED <<Bootstrap /\ UNCHANGED events>>_vars)

(* The two nodes do not wait for each other at the start: the aligner wants *)
(* a map pose of the corrector, the corrector an alignment of the aligner,  *)
(* and with fixes coming, fixed or not, the start ends.                     *)
THEOREM StartupCompletesHolds == Spec /\ StartIsEnabled => StartupCompletes
<1>1. Init => StartInv
  BY DEF Init, CorrectorInit, StartInv
<1>2. Spec => []StartInv
  BY <1>1, StartInvStep, PTL DEF Spec
<1>3. IInv /\ StartInv /\ fresh /\ AwaitsFix => phase = "fix" /\ fix # None /\ unseen
  BY DEF IInv, TypeOK, CorrectorTypeOK, StartInv, AwaitsFix
<1>4. IInv /\ [Next]_vars /\ <<StartupFix /\ UNCHANGED events>>_vars => AwaitsPose' \/ HasPose'
  BY WaitsStep
<1>5. IInv /\ StartInv /\ fresh /\ AwaitsPose => fresh /\ ~alignment_fresh /\ ~HasMapPose
  BY DEF StartInv, Starting, AwaitsPose
<1>6. IInv /\ StartInv /\ fresh /\ AwaitsPose /\ [Next]_vars /\ <<Tick>>_vars => HasPose'
  BY FirstTick
<1>7. IInv /\ AwaitsPose /\ [Next]_vars => AwaitsPose' \/ HasPose' \/ ~Starting'
  BY WaitsStep
<1>8. IInv /\ HasPose /\ [Next]_vars => HasPose' \/ ~Starting'
  BY WaitsStep
<1>9. IInv /\ [Next]_vars /\ <<Bootstrap /\ UNCHANGED events>>_vars => ~Starting'
  BY WaitsStep
<1>10. Starting => AwaitsFix \/ AwaitsPose \/ HasPose
  BY DEF Starting, AwaitsFix, AwaitsPose, HasPose
<1>11. Spec /\ StartIsEnabled => (HasPose ~> ~Starting)
  BY <1>8, <1>9, Invariance, PTL DEF Spec, Fairness, StartIsEnabled
<1>12. Spec /\ StartIsEnabled /\ <>[]fresh => (AwaitsPose ~> (HasPose \/ ~Starting))
  BY <1>2, <1>5, <1>6, <1>7, Invariance, PTL DEF Spec, Fairness, StartIsEnabled
<1>13. Spec /\ StartIsEnabled /\ <>[]fresh => <>(AwaitsPose \/ HasPose \/ ~Starting)
  BY <1>2, <1>3, <1>4, <1>10, Invariance, PTL DEF Spec, Fairness, StartIsEnabled
<1>14. ~Starting => phase \notin {"fix", "pose"}
  BY DEF Starting
<1> QED BY <1>11, <1>12, <1>13, <1>14, PTL DEF StartupCompletes
================================================================================
