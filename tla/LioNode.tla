-------------------------------- MODULE LioNode --------------------------------
(***************************************************************************)
(* FAST-LIO2's node (lio_node.cpp) with the part of map_builder.cpp and    *)
(* imu_processor.cpp that decides which sensor time enters the estimate:   *)
(* IMU samples and LiDAR clouds arrive on two topics and wait in two       *)
(* buffers; every 20 ms the timer pairs the oldest cloud with the IMU      *)
(* samples before its end and hands both to the map builder, which may     *)
(* reject them.                                                            *)
(*                                                                         *)
(* A sample is its stamp; a cloud is the time of its first point (start),  *)
(* of its last (end), and whether any point passed the range filter.  The  *)
(* sensors' clock may step back, as the code expects of it.  The node is   *)
(* spun by one thread, so a callback is one action.  The filter's numbers  *)
(* are left out: update_valid, whether enough points matched, is free.     *)
(***************************************************************************)
EXTENDS Integers, Sequences, Sums

CONSTANTS
  MaxTime,    \* stamps are 0 .. MaxTime (bound)
  Spans,      \* the possible lengths of a scan
  MinImu,     \* min_imu_samples_per_lidar
  InitNum,    \* imu_init_num
  MaxImu,     \* bound on the samples that wait
  MaxLidar    \* bound on the clouds that wait

ASSUME LioAssumption ==
  /\ MaxTime \in Nat /\ Spans \subseteq Nat
  /\ MinImu \in Nat \ {0} /\ InitNum \in Nat \ {0}
  /\ MaxImu \in Nat /\ MaxLidar \in Nat

VARIABLES
  imu_buffer, last_imu_time,
  lidar_buffer, last_lidar_time,
  lidar_pushed,  \* TRUE: a cloud was taken into m_package and waits for its IMU data
  package,       \* that cloud
  status,        \* m_status of the map builder
  imu_cache,     \* how many samples initialize() has, at most InitNum
  last_imu,      \* time of m_last_imu
  last_end,      \* m_last_propagate_end_time
  stepped,       \* history: a message was out of order
  backward,      \* history: the filter was predicted over a negative time
  lag,           \* history: last_end minus the time the estimate refers to
  lost           \* history: sensor time in the packages the builder rejected

imuVars == <<imu_buffer, last_imu_time>>
lidarVars == <<lidar_buffer, last_lidar_time>>
packageVars == <<lidar_pushed, package>>
builderVars == <<status, imu_cache, last_imu, last_end, backward, lag, lost>>
vars == <<imuVars, lidarVars, packageVars, builderVars, stepped>>

Times == 0 .. MaxTime
Clouds == {[start |-> t, end |-> t + d, empty |-> FALSE] : t \in Times, d \in Spans}
          \cup {[start |-> t, end |-> t, empty |-> TRUE] : t \in Times}
NoCloud == [start |-> 0, end |-> 0, empty |-> TRUE]

Init ==
  /\ imu_buffer = <<>> /\ last_imu_time = -1
  /\ lidar_buffer = <<>> /\ last_lidar_time = -1
  /\ lidar_pushed = FALSE /\ package = NoCloud
  /\ status = "IMU_INIT" /\ imu_cache = 0 /\ last_imu = 0 /\ last_end = 0
  /\ stepped = FALSE /\ backward = FALSE /\ lag = 0 /\ lost = 0
--------------------------------------------------------------------------------
(* imuCB and lidarCB: a stamp before the last one empties the buffer first. *)
\* Mutant: the buffer keeps what came before a step back.
KeepsOutOfOrder(t) ==
  /\ Len(imu_buffer) < MaxImu
  /\ imu_buffer' = Append(imu_buffer, t) /\ last_imu_time' = t
  /\ stepped' = (stepped \/ t < last_imu_time)
  /\ UNCHANGED <<lidarVars, packageVars, builderVars>>

ImuCB(t) ==
  /\ t < last_imu_time \/ Len(imu_buffer) < MaxImu
  /\ imu_buffer' = IF t < last_imu_time THEN <<t>> ELSE Append(imu_buffer, t)
  /\ last_imu_time' = t
  /\ stepped' = (stepped \/ t < last_imu_time)
  /\ UNCHANGED <<lidarVars, packageVars, builderVars>>

LidarCB(c) ==
  /\ c.start < last_lidar_time \/ Len(lidar_buffer) < MaxLidar
  /\ lidar_buffer' = IF c.start < last_lidar_time THEN <<c>> ELSE Append(lidar_buffer, c)
  /\ last_lidar_time' = c.start
  /\ stepped' = (stepped \/ c.start < last_lidar_time)
  /\ UNCHANGED <<imuVars, packageVars, builderVars>>
--------------------------------------------------------------------------------
(* syncPackage, up to its early returns.                                    *)
Buffered == imu_buffer # <<>> /\ lidar_buffer # <<>>
Cloud == IF lidar_pushed THEN package ELSE Head(lidar_buffer)

DropEmptyCloud ==
  /\ Buffered /\ ~lidar_pushed /\ Cloud.empty
  /\ lidar_buffer' = Tail(lidar_buffer)
  /\ UNCHANGED <<imuVars, last_lidar_time, packageVars, builderVars, stepped>>

WaitForImu ==
  /\ Buffered /\ (lidar_pushed \/ ~Cloud.empty)
  /\ last_imu_time < Cloud.end
  /\ lidar_pushed' = TRUE /\ package' = Cloud
  /\ UNCHANGED <<imuVars, lidarVars, builderVars, stepped>>

(* The n samples that the loop over imu_buffer takes for a cloud.           *)
TakesAll(n, end) ==
  /\ \A i \in 1 .. n : imu_buffer[i] < end
  /\ n < Len(imu_buffer) => imu_buffer[n + 1] >= end
--------------------------------------------------------------------------------
(* IMUProcessor::initialize *)
\* Mutant: it counts on once it is ready.
CountsOn(imus, end) ==
  /\ status = "IMU_INIT"
  /\ imu_cache' = imu_cache + Len(imus)
  /\ status' = IF imu_cache' >= InitNum THEN "MAP_INIT" ELSE status
  /\ last_imu' = imus[Len(imus)] /\ last_end' = end
  /\ UNCHANGED <<backward, lag, lost>>

Initialize(imus, end) ==
  LET ready == imu_cache + Len(imus) >= InitNum IN
  /\ status = "IMU_INIT"
  /\ imu_cache' = IF ready THEN InitNum ELSE imu_cache + Len(imus)
  /\ status' = IF ready THEN "MAP_INIT" ELSE status
  /\ last_imu' = IF ready THEN imus[Len(imus)] ELSE last_imu
  /\ last_end' = IF ready THEN end ELSE last_end
  /\ UNCHANGED <<backward, lag, lost>>

(* The times IMUProcessor::undistort predicts the filter over: between the  *)
(* samples, from the end of the last propagation on (0 where it skips one), *)
(* then up to the end of the cloud.                                         *)
Predictions(imus, end) ==
  LET cache == <<last_imu>> \o imus IN
  [i \in 1 .. Len(cache) |->
     IF i = Len(cache) THEN end - cache[i]
     ELSE IF cache[i + 1] < last_end THEN 0
     ELSE IF cache[i] < last_end THEN cache[i + 1] - last_end
     ELSE cache[i + 1] - cache[i]]

(* MapBuilder::process after the initialization.  A rejected package puts   *)
(* back the filter's state, not last_imu and last_end.  The first package   *)
(* builds the map and is never rejected.                                    *)
\* Mutant: the prediction of a rejected package stays in the estimate.
KeepsPrediction(imus, end, update_valid) ==
  LET steps == Predictions(imus, end) IN
  /\ status \in {"MAP_INIT", "MAPPING"}
  /\ status' = "MAPPING" /\ last_imu' = imus[Len(imus)] /\ last_end' = end
  /\ backward' = (backward \/ \E i \in DOMAIN steps : steps[i] < 0)
  /\ lag' = IF stepped THEN 0 ELSE lag + (end - last_end) - Total(steps)
  /\ lost' = IF stepped THEN 0 ELSE IF update_valid THEN lost ELSE lost + (end - last_end)
  /\ UNCHANGED imu_cache

Process(imus, end, update_valid) ==
  LET steps == Predictions(imus, end)
      counted == IF update_valid THEN Total(steps) ELSE 0
  IN
  /\ status \in {"MAP_INIT", "MAPPING"}
  /\ status = "MAP_INIT" => update_valid
  /\ status' = "MAPPING"
  /\ last_imu' = imus[Len(imus)]
  /\ last_end' = end
  /\ backward' = (backward \/ \E i \in DOMAIN steps : steps[i] < 0)
  /\ lag' = IF stepped THEN 0 ELSE lag + (end - last_end) - counted
  /\ lost' = IF stepped THEN 0 ELSE IF update_valid THEN lost ELSE lost + (end - last_end)
  /\ UNCHANGED imu_cache

(* The rest of syncPackage and of timerCB: the cloud and its samples leave  *)
(* the buffers whatever becomes of them.                                    *)
\* Mutants: lidar_pushed stays set; a sample at the very end is not enough.
StaysPushed(n, update_valid) ==
  LET imus == SubSeq(imu_buffer, 1, n) IN
  /\ Buffered /\ (lidar_pushed \/ ~Cloud.empty)
  /\ last_imu_time >= Cloud.end /\ TakesAll(n, Cloud.end)
  /\ imu_buffer' = SubSeq(imu_buffer, n + 1, Len(imu_buffer))
  /\ lidar_buffer' = Tail(lidar_buffer)
  /\ lidar_pushed' = TRUE /\ package' = Cloud
  /\ IF n < MinImu THEN UNCHANGED builderVars
     ELSE Initialize(imus, Cloud.end) \/ Process(imus, Cloud.end, update_valid)
  /\ UNCHANGED <<last_imu_time, last_lidar_time, stepped>>

WantsOneMore(n, update_valid) ==
  LET imus == SubSeq(imu_buffer, 1, n) IN
  /\ Buffered /\ (lidar_pushed \/ ~Cloud.empty)
  /\ last_imu_time > Cloud.end /\ TakesAll(n, Cloud.end)
  /\ imu_buffer' = SubSeq(imu_buffer, n + 1, Len(imu_buffer))
  /\ lidar_buffer' = Tail(lidar_buffer)
  /\ lidar_pushed' = FALSE /\ package' = NoCloud
  /\ IF n < MinImu THEN UNCHANGED builderVars
     ELSE Initialize(imus, Cloud.end) \/ Process(imus, Cloud.end, update_valid)
  /\ UNCHANGED <<last_imu_time, last_lidar_time, stepped>>

HandOver(n, update_valid) ==
  LET imus == SubSeq(imu_buffer, 1, n) IN
  /\ Buffered /\ (lidar_pushed \/ ~Cloud.empty)
  /\ last_imu_time >= Cloud.end
  /\ TakesAll(n, Cloud.end)
  /\ imu_buffer' = SubSeq(imu_buffer, n + 1, Len(imu_buffer))
  /\ lidar_buffer' = Tail(lidar_buffer)
  /\ lidar_pushed' = FALSE /\ package' = NoCloud
  /\ IF n < MinImu THEN UNCHANGED builderVars
     ELSE Initialize(imus, Cloud.end) \/ Process(imus, Cloud.end, update_valid)
  /\ UNCHANGED <<last_imu_time, last_lidar_time, stepped>>

TimerCB ==
  \/ DropEmptyCloud
  \/ WaitForImu
  \/ \E n \in 0 .. Len(imu_buffer), update_valid \in BOOLEAN : HandOver(n, update_valid)

Next ==
  \/ \E t \in Times : ImuCB(t)
  \/ \E c \in Clouds : LidarCB(c)
  \/ TimerCB

(* The timer of a spinning node fires for ever; the sensors owe nothing.    *)
Spec == Init /\ [][Next]_vars /\ WF_vars(TimerCB)
--------------------------------------------------------------------------------
TypeOK ==
  /\ imu_buffer \in Seq(Times) /\ last_imu_time \in Times \cup {-1}
  /\ lidar_buffer \in Seq(Clouds) /\ last_lidar_time \in Times \cup {-1}
  /\ lidar_pushed \in BOOLEAN /\ package \in Clouds \cup {NoCloud}
  /\ status \in {"IMU_INIT", "MAP_INIT", "MAPPING"} /\ imu_cache \in 0 .. InitNum
  /\ last_imu \in Times /\ last_end \in Nat
  /\ stepped \in BOOLEAN /\ backward \in BOOLEAN

(* The filter is never predicted over a negative time, whatever stamps       *)
(* arrive: what makes it so is that the IMU buffer stays sorted, that the    *)
(* samples of a package lie before the cloud's end, and that undistort skips *)
(* those before the end of the last one (lio_node.cpp, imu_processor.cpp).   *)
PredictionForward == ~backward

(* With the stamps in order every instant since the initialization enters    *)
(* the estimate exactly once, across dropped packages and missing samples;   *)
(* only a package the builder rejects (map_builder.cpp puts the state back,  *)
(* imu_processor.cpp does not put back the end of the propagation) is lost   *)
(* for good: the estimate stays behind by its length.                        *)
EveryInstantCounted == ~stepped /\ status # "IMU_INIT" => lag = lost

(* The cloud that waits for its IMU data is the one the hand-over pops; only *)
(* an out-of-order cloud can put another one there, which is then popped     *)
(* without having been processed (lidarCB leaves lidar_pushed alone).        *)
PendingIsFront ==
  lidar_pushed => lidar_buffer # <<>> /\ (~stepped => Head(lidar_buffer) = package)

(* A cloud whose IMU data is there is handed over, unless the IMU's clock    *)
(* steps back before its end: then it waits for the old time to come again.  *)
PendingIsTaken ==
  lidar_pushed /\ last_imu_time >= package.end
    ~> ~lidar_pushed \/ last_imu_time < package.end
================================================================================
