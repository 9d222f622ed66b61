----------------------------- MODULE LioNodeProofs -----------------------------
(***************************************************************************)
(* Proofs about LioNode: its types, that a waiting cloud is the front of   *)
(* the buffer, that the filter is never predicted over a negative time,    *)
(* that every instant is predicted over once, and that a package whose     *)
(* samples are there is taken.                                             *)
(***************************************************************************)
EXTENDS LioNode, SumsProofs, TLAPS

(* What makes PredictionForward inductive: the buffer is sorted and ends    *)
(* with the latest stamp; the sample kept from the last package lies before *)
(* the end of the last propagation.                                         *)
Sorted ==
  /\ \A i, j \in 1 .. Len(imu_buffer) : i < j => imu_buffer[i] <= imu_buffer[j]
  /\ \A i \in 1 .. Len(imu_buffer) : imu_buffer[i] <= last_imu_time

IInv ==
  /\ TypeOK
  /\ Sorted
  /\ status # "IMU_INIT" => last_imu < last_end
  /\ ~backward

(* A cloud's end is a natural number and so is the end of what waits. *)
LEMMA CloudEnd == \A c \in Clouds \cup {NoCloud} : c.end \in Nat
BY LioAssumption DEF Clouds, NoCloud, Times

(* The steps undistort predicts over are not negative when the samples are  *)
(* sorted, lie before the end of the cloud, and follow a sample before the  *)
(* end of the last propagation.                                             *)
LEMMA StepsForward ==
  ASSUME TypeOK, last_imu < last_end,
         NEW end \in Nat,
         NEW imus \in Seq(Times), Len(imus) > 0,
         \A i, j \in 1 .. Len(imus) : i < j => imus[i] <= imus[j],
         \A i \in 1 .. Len(imus) : imus[i] < end
  PROVE  \A i \in DOMAIN Predictions(imus, end) : ~(Predictions(imus, end)[i] < 0)
<1> DEFINE cache == <<last_imu>> \o imus
<1>1. /\ Len(cache) = Len(imus) + 1
      /\ cache[1] = last_imu
      /\ \A i \in 1 .. Len(imus) : cache[i + 1] = imus[i]
  BY DEF TypeOK
<1>2. \A i \in 2 .. Len(cache) : cache[i] = imus[i - 1]
  <2> SUFFICES ASSUME NEW i \in 2 .. Len(cache) PROVE cache[i] = imus[i - 1]
    OBVIOUS
  <2>1. i - 1 \in 1 .. Len(imus) /\ (i - 1) + 1 = i
    BY <1>1
  <2> QED BY <2>1, <1>1
<1>3. /\ last_imu \in Int /\ last_end \in Int
      /\ \A i \in 1 .. Len(imus) : imus[i] \in Int
  BY LioAssumption DEF TypeOK, Times
<1>4. SUFFICES ASSUME NEW i \in 1 .. Len(cache)
               PROVE  ~((IF i = Len(cache) THEN end - cache[i]
                         ELSE IF cache[i + 1] < last_end THEN 0
                         ELSE IF cache[i] < last_end THEN cache[i + 1] - last_end
                         ELSE cache[i + 1] - cache[i]) < 0)
  BY DEF Predictions
<1> HIDE DEF cache
<1>5. CASE i = Len(cache)
  <2>1. i - 1 \in 1 .. Len(imus) /\ i \in 2 .. Len(cache)
    BY <1>1, <1>5
  <2>2. cache[i] = imus[i - 1] /\ imus[i - 1] < end /\ imus[i - 1] \in Int
    BY <2>1, <1>2, <1>3
  <2> QED BY <2>2, <1>5
<1>6. CASE i # Len(cache)
  <2>1. i \in 1 .. Len(imus) /\ cache[i + 1] = imus[i] /\ imus[i] \in Int
    BY <1>1, <1>3, <1>6
  <2>2. CASE i = 1
    BY <2>1, <2>2, <1>1, <1>3, <1>6
  <2>3. CASE i # 1
    <3>1. i - 1 \in 1 .. Len(imus) /\ i \in 2 .. Len(cache)
      BY <2>1, <2>3, <1>1
    <3>2. cache[i] = imus[i - 1] /\ imus[i - 1] <= imus[i] /\ imus[i - 1] \in Int
      BY <3>1, <2>1, <1>2, <1>3
    <3> QED BY <3>2, <2>1, <1>3, <1>6
  <2> QED BY <2>2, <2>3
<1> QED BY <1>5, <1>6
--------------------------------------------------------------------------------
(* What a hand-over gives the builder: the first n samples of the buffer,   *)
(* sorted and before the end of the cloud; what stays is sorted too.        *)
LEMMA Prefix ==
  ASSUME TypeOK, Sorted, NEW n \in 0 .. Len(imu_buffer)
  PROVE  /\ SubSeq(imu_buffer, 1, n) \in Seq(Times)
         /\ Len(SubSeq(imu_buffer, 1, n)) = n
         /\ \A i \in 1 .. n : SubSeq(imu_buffer, 1, n)[i] = imu_buffer[i]
         /\ \A i, j \in 1 .. n : i < j => imu_buffer[i] <= imu_buffer[j]
BY DEF TypeOK, Sorted

LEMMA Suffix ==
  ASSUME TypeOK, Sorted, NEW n \in 0 .. Len(imu_buffer),
         imu_buffer' = SubSeq(imu_buffer, n + 1, Len(imu_buffer)),
         last_imu_time' = last_imu_time
  PROVE  imu_buffer' \in Seq(Times) /\ Sorted'
<1>1. /\ Len(imu_buffer) \in Nat /\ n \in Nat
      /\ imu_buffer' \in Seq(Times) /\ Len(imu_buffer') = Len(imu_buffer) - n
      /\ \A i \in 1 .. Len(imu_buffer) - n : imu_buffer'[i] = imu_buffer[n + i]
  BY DEF TypeOK
<1>2. \A i \in 1 .. Len(imu_buffer) - n : n + i \in 1 .. Len(imu_buffer)
  BY <1>1
<1>3. \A i, j \in 1 .. Len(imu_buffer) - n :
         i < j => n + i < n + j
  BY <1>1
<1> QED BY <1>1, <1>2, <1>3 DEF Sorted

(* The samples of a package are sorted and lie before the end of its cloud. *)
LEMMA PackageSamples ==
  ASSUME TypeOK, Sorted, NEW n \in 0 .. Len(imu_buffer), n >= MinImu,
         NEW end \in Nat, TakesAll(n, end)
  PROVE  LET imus == SubSeq(imu_buffer, 1, n) IN
         /\ imus \in Seq(Times) /\ Len(imus) = n /\ n > 0
         /\ imus[Len(imus)] \in Times /\ imus[Len(imus)] < end
         /\ imus[Len(imus)] = imu_buffer[n] /\ n \in 1 .. Len(imu_buffer)
         /\ \A i \in 1 .. Len(imus) : imus[i] < end
         /\ \A i, j \in 1 .. Len(imus) : i < j => imus[i] <= imus[j]
<1> DEFINE imus == SubSeq(imu_buffer, 1, n)
<1>1. /\ imus \in Seq(Times) /\ Len(imus) = n
      /\ \A i \in 1 .. n : imus[i] = imu_buffer[i]
      /\ \A i, j \in 1 .. n : i < j => imu_buffer[i] <= imu_buffer[j]
  BY Prefix
<1>2. n \in Nat /\ n > 0 /\ n \in 1 .. n
  BY LioAssumption
<1>3. \A i \in 1 .. n : imu_buffer[i] < end
  BY DEF TakesAll
<1>4. n \in 1 .. Len(imu_buffer)
  BY <1>2 DEF TypeOK
<1> HIDE DEF imus
<1> QED BY <1>1, <1>2, <1>3, <1>4 DEF imus

LEMMA TailOfClouds ==
  ASSUME TypeOK, lidar_buffer # <<>>
  PROVE  Tail(lidar_buffer) \in Seq(Clouds) /\ Head(lidar_buffer) \in Clouds
BY DEF TypeOK

LEMMA CloudType ==
  ASSUME TypeOK, Buffered PROVE Cloud \in Clouds \cup {NoCloud} /\ Cloud.end \in Nat
<1>1. Cloud \in Clouds \cup {NoCloud}
  BY TailOfClouds DEF TypeOK, Buffered, Cloud
<1> QED BY <1>1, CloudEnd
--------------------------------------------------------------------------------
LEMMA InitIInv == Init => IInv
<1> SUFFICES ASSUME Init PROVE IInv
  OBVIOUS
<1>1. 0 \in Times /\ <<>> \in Seq(Times) /\ <<>> \in Seq(Clouds) /\ 0 \in 0 .. InitNum
  BY LioAssumption DEF Times
<1>2. TypeOK
  BY <1>1 DEF Init, TypeOK
<1>3. Len(imu_buffer) = 0 /\ 1 .. 0 = {}
  BY DEF Init
<1>4. Sorted
  BY <1>3 DEF Sorted
<1> QED BY <1>2, <1>4 DEF Init, IInv

LEMMA ImuStep ==
  ASSUME IInv, NEW t \in Times, ImuCB(t) PROVE IInv'
<1> USE DEF IInv
<1>1. UNCHANGED <<lidarVars, packageVars, builderVars>> /\ last_imu_time' = t
  BY DEF ImuCB
<1>2. t \in Int /\ last_imu_time \in Int
  BY LioAssumption DEF TypeOK, Times
<1>3. imu_buffer' \in Seq(Times) /\ Sorted'
  <2>1. CASE t < last_imu_time
    <3>1. imu_buffer' = <<t>>
      BY <2>1 DEF ImuCB
    <3>2. /\ <<t>> \in Seq(Times) /\ Len(<<t>>) = 1 /\ <<t>>[1] = t
          /\ \A i \in 1 .. 1 : i = 1
      OBVIOUS
    <3> QED BY <3>1, <3>2, <1>1, <1>2 DEF Sorted
  <2>2. CASE ~(t < last_imu_time)
    <3>1. imu_buffer' = Append(imu_buffer, t)
      BY <2>2 DEF ImuCB
    <3>2. /\ imu_buffer' \in Seq(Times) /\ Len(imu_buffer') = Len(imu_buffer) + 1
          /\ imu_buffer'[Len(imu_buffer) + 1] = t
          /\ \A i \in 1 .. Len(imu_buffer) : imu_buffer'[i] = imu_buffer[i]
          /\ Len(imu_buffer) \in Nat
      BY <3>1 DEF TypeOK
    <3>3. \A i \in 1 .. Len(imu_buffer) : imu_buffer[i] \in Int /\ imu_buffer[i] <= t
      BY <2>2, <1>2, LioAssumption DEF Sorted, TypeOK, Times
    <3> QED BY <3>2, <3>3, <1>1, <1>2, SMTT(30) DEF Sorted
  <2> QED BY <2>1, <2>2
<1>4. TypeOK'
  BY <1>1, <1>3 DEF TypeOK, ImuCB, lidarVars, packageVars, builderVars
<1> QED BY <1>1, <1>3, <1>4 DEF builderVars

LEMMA LidarStep ==
  ASSUME IInv, NEW c \in Clouds, LidarCB(c) PROVE IInv'
<1>1. lidar_buffer' \in Seq(Clouds)
  BY DEF IInv, TypeOK, LidarCB
<1>2. c.start \in Times
  BY DEF Clouds
<1> QED BY <1>1, <1>2 DEF IInv, TypeOK, Sorted, LidarCB, imuVars, packageVars, builderVars

LEMMA DropStep == ASSUME IInv, DropEmptyCloud PROVE IInv'
<1>1. lidar_buffer' \in Seq(Clouds)
  BY TailOfClouds DEF IInv, DropEmptyCloud, Buffered
<1> QED BY <1>1 DEF IInv, TypeOK, Sorted, DropEmptyCloud, imuVars, packageVars, builderVars

LEMMA WaitStep == ASSUME IInv, WaitForImu PROVE IInv'
<1>1. package' \in Clouds \cup {NoCloud}
  BY CloudType DEF IInv, WaitForImu
<1> QED BY <1>1 DEF IInv, TypeOK, Sorted, WaitForImu, imuVars, lidarVars, builderVars

LEMMA HandOverStep ==
  ASSUME IInv, NEW n \in 0 .. Len(imu_buffer), NEW update_valid \in BOOLEAN,
         HandOver(n, update_valid)
  PROVE  IInv'
<1> DEFINE imus == SubSeq(imu_buffer, 1, n)
<1>1. TypeOK /\ Sorted /\ Buffered
  BY DEF IInv, HandOver
<1>2. imu_buffer' \in Seq(Times) /\ Sorted'
  BY <1>1, Suffix DEF HandOver
<1>3. lidar_buffer' \in Seq(Clouds) /\ package' = NoCloud /\ lidar_pushed' = FALSE
  BY <1>1, TailOfClouds DEF HandOver, Buffered
<1>4. Cloud.end \in Nat
  BY <1>1, CloudType
<1>5. ASSUME n >= MinImu
      PROVE  /\ imus \in Seq(Times) /\ Len(imus) = n /\ n > 0
             /\ imus[Len(imus)] \in Times /\ imus[Len(imus)] < Cloud.end
             /\ \A i \in 1 .. Len(imus) : imus[i] < Cloud.end
             /\ \A i, j \in 1 .. Len(imus) : i < j => imus[i] <= imus[j]
  <2>1. TakesAll(n, Cloud.end)
    BY DEF HandOver
  <2> QED BY <2>1, <1>1, <1>4, <1>5, PackageSamples
<1> HIDE DEF imus
<1>6. /\ status' \in {"IMU_INIT", "MAP_INIT", "MAPPING"} /\ imu_cache' \in 0 .. InitNum
      /\ last_imu' \in Times /\ last_end' \in Nat
      /\ status' # "IMU_INIT" => last_imu' < last_end'
      /\ ~backward' /\ backward' \in BOOLEAN
  <2>1. CASE n < MinImu
    BY <2>1, <1>1 DEF IInv, TypeOK, HandOver, builderVars
  <2>2. CASE ~(n < MinImu) /\ Initialize(imus, Cloud.end)
    <3>1. n >= MinImu
      BY <2>2, LioAssumption
    <3>2. imu_cache' \in 0 .. InitNum
      <4>1. imu_cache \in Nat /\ Len(imus) \in Nat /\ InitNum \in Nat
        BY <1>1, <1>5, <3>1, LioAssumption DEF TypeOK
      <4> QED BY <4>1, <2>2 DEF Initialize
    <3> QED BY <3>1, <3>2, <2>2, <1>1, <1>4, <1>5 DEF IInv, TypeOK, Initialize
  <2>3. CASE ~(n < MinImu) /\ Process(imus, Cloud.end, update_valid)
    <3>1. n >= MinImu
      BY <2>3, LioAssumption
    <3>2. last_imu < last_end /\ ~backward
      BY <2>3 DEF IInv, Process
    <3>4. \A i \in DOMAIN Predictions(imus, Cloud.end) : ~(Predictions(imus, Cloud.end)[i] < 0)
      BY <3>1, <3>2, <1>1, <1>4, <1>5, StepsForward
    <3>5. ~backward' /\ backward' \in BOOLEAN
      BY <3>2, <3>4, <2>3 DEF Process
    <3> QED BY <3>1, <3>5, <2>3, <1>1, <1>4, <1>5 DEF TypeOK, Process
  <2> QED BY <2>1, <2>2, <2>3 DEF HandOver, imus
<1>7. TypeOK'
  BY <1>1, <1>2, <1>3, <1>6 DEF TypeOK, HandOver
<1> QED BY <1>2, <1>6, <1>7 DEF IInv

LEMMA NextIInv == IInv /\ [Next]_vars => IInv'
<1> SUFFICES ASSUME IInv, [Next]_vars PROVE IInv'
  OBVIOUS
<1>1. CASE \E t \in Times : ImuCB(t)
  BY <1>1, ImuStep
<1>2. CASE \E c \in Clouds : LidarCB(c)
  BY <1>2, LidarStep
<1>3. CASE TimerCB
  BY <1>3, DropStep, WaitStep, HandOverStep DEF TimerCB
<1>4. CASE UNCHANGED vars
  BY <1>4 DEF IInv, TypeOK, Sorted, vars, imuVars, lidarVars, packageVars, builderVars
<1> QED BY <1>1, <1>2, <1>3, <1>4 DEF Next

(* The inductive invariant holds in every reachable state. *)
THEOREM Invariance == Spec => []IInv
<1> QED BY InitIInv, NextIInv, PTL DEF Spec

(* The variables of lio_node.cpp and imu_processor.cpp have their types. *)
THEOREM TypeCorrect == Spec => []TypeOK
<1>1. IInv => TypeOK
  BY DEF IInv
<1> QED BY <1>1, Invariance, PTL

(* The filter of lio_node.cpp is never predicted over a negative time. *)
THEOREM Forward == Spec => []PredictionForward
<1>1. IInv => PredictionForward
  BY DEF IInv, PredictionForward
<1> QED BY <1>1, Invariance, PTL
--------------------------------------------------------------------------------
(* PendingIsFront with the types is inductive. *)
FInv == TypeOK /\ PendingIsFront

LEMMA NextFInv == TypeOK' /\ FInv /\ [Next]_vars => FInv'
<1> SUFFICES ASSUME TypeOK', FInv, [Next]_vars PROVE PendingIsFront'
  BY DEF FInv
<1> USE DEF FInv, PendingIsFront
<1>1. ASSUME NEW t \in Times, ImuCB(t) PROVE PendingIsFront'
  BY <1>1 DEF ImuCB, lidarVars, packageVars
<1>2. ASSUME NEW c \in Clouds, LidarCB(c) PROVE PendingIsFront'
  <2>1. CASE c.start < last_lidar_time
    BY <1>2, <2>1 DEF LidarCB, packageVars
  <2>2. CASE ~(c.start < last_lidar_time)
    <3>1. lidar_buffer' = Append(lidar_buffer, c) /\ stepped' = stepped
      BY <1>2, <2>2 DEF LidarCB, TypeOK
    <3>2. lidar_buffer' # <<>> /\ (lidar_buffer # <<>> => Head(lidar_buffer') = Head(lidar_buffer))
      <4>1. lidar_buffer \in Seq(Clouds)
        BY DEF TypeOK
      <4>2. Len(lidar_buffer') = Len(lidar_buffer) + 1 /\ Len(lidar_buffer) \in Nat
        BY <3>1, <4>1
      <4>3. lidar_buffer # <<>> => lidar_buffer'[1] = lidar_buffer[1]
        BY <3>1, <4>1
      <4>4. lidar_buffer' # <<>>
        BY <4>2
      <4> QED BY <4>3, <4>4
    <3> QED BY <1>2, <3>1, <3>2 DEF LidarCB, packageVars
  <2> QED BY <2>1, <2>2
<1>3. ASSUME DropEmptyCloud PROVE PendingIsFront'
  BY <1>3 DEF DropEmptyCloud, packageVars
<1>4. ASSUME WaitForImu PROVE PendingIsFront'
  BY <1>4 DEF WaitForImu, Buffered, Cloud, lidarVars
<1>5. ASSUME NEW n \in 0 .. Len(imu_buffer), NEW update_valid \in BOOLEAN,
             HandOver(n, update_valid)
      PROVE  PendingIsFront'
  BY <1>5 DEF HandOver
<1>6. CASE UNCHANGED vars
  BY <1>6 DEF vars, lidarVars, packageVars
<1> QED BY <1>1, <1>2, <1>3, <1>4, <1>5, <1>6 DEF Next, TimerCB

(* Whatever stamps arrive, the hand-over finds a cloud to pop, and with the *)
(* stamps in order it is the one that waits (lio_node.cpp).                 *)
THEOREM FrontIsPending == Spec => []PendingIsFront
<1>1. Init => FInv
  BY InitIInv DEF Init, IInv, FInv, PendingIsFront
<1>2. FInv => PendingIsFront
  BY DEF FInv
<1> QED BY <1>1, <1>2, NextFInv, TypeCorrect, PTL DEF Spec
--------------------------------------------------------------------------------
(* What makes EveryInstantCounted inductive: with the stamps in order, what *)
(* waits in the IMU buffer lies after the end of the last propagation, for  *)
(* the loop of syncPackage leaves no sample before the end of its cloud.    *)
Following ==
  /\ last_end <= last_imu_time
  /\ \A i \in 1 .. Len(imu_buffer) : last_end <= imu_buffer[i]

CInv ==
  ~stepped => /\ lag \in Int /\ lag = lost
              /\ status # "IMU_INIT" => Following

(* The steps undistort predicts over telescope: together they reach from    *)
(* the end of the last propagation to the end of the cloud.                 *)
LEMMA PredictionsCover ==
  ASSUME TypeOK, last_imu < last_end,
         NEW end \in Nat,
         NEW imus \in Seq(Times), Len(imus) > 0,
         \A i, j \in 1 .. Len(imus) : i < j => imus[i] <= imus[j],
         last_end <= imus[Len(imus)]
  PROVE  Total(Predictions(imus, end)) = end - last_end
<1> DEFINE cache == <<last_imu>> \o imus
           N == Len(imus) + 1
           h == [i \in 0 .. N |-> IF i = 0 THEN 0 ELSE IF i = N THEN end - last_end
                                  ELSE IF imus[i] < last_end THEN 0 ELSE imus[i] - last_end]
<1>1. /\ Len(cache) = N /\ N \in Nat /\ N >= 2
      /\ cache[1] = last_imu
      /\ \A i \in 1 .. Len(imus) : cache[i + 1] = imus[i]
  BY DEF TypeOK
<1>2. /\ last_imu \in Int /\ last_end \in Int
      /\ \A i \in 1 .. Len(imus) : imus[i] \in Int
  BY LioAssumption DEF TypeOK, Times
<1>3. \A i \in 2 .. N : i - 1 \in 1 .. Len(imus) /\ cache[i] = imus[i - 1]
  <2> SUFFICES ASSUME NEW i \in 2 .. N PROVE i - 1 \in 1 .. Len(imus) /\ cache[i] = imus[i - 1]
    OBVIOUS
  <2>1. i - 1 \in 1 .. Len(imus) /\ (i - 1) + 1 = i
    BY <1>1
  <2> QED BY <2>1, <1>1
<1>4. \A i \in 1 .. N : cache[i] \in Int
  <2> SUFFICES ASSUME NEW i \in 1 .. N PROVE cache[i] \in Int
    OBVIOUS
  <2>1. CASE i = 1
    BY <2>1, <1>1, <1>2
  <2>2. CASE i # 1
    BY <2>2, <1>1, <1>2, <1>3
  <2> QED BY <2>1, <2>2
<1>5. Predictions(imus, end) =
        [i \in 1 .. N |->
           IF i = N THEN end - cache[i]
           ELSE IF cache[i + 1] < last_end THEN 0
           ELSE IF cache[i] < last_end THEN cache[i + 1] - last_end
           ELSE cache[i + 1] - cache[i]]
  BY <1>1 DEF Predictions
<1> DEFINE s == Predictions(imus, end)
<1> HIDE DEF cache
<1>6. s \in Seq(Int) /\ Len(s) = N
  <2>1. ASSUME NEW i \in 1 .. N PROVE s[i] \in Int
    <3>1. cache[i] \in Int /\ (i # N => i + 1 \in 1 .. N /\ cache[i + 1] \in Int)
      BY <1>1, <1>4
    <3> QED BY <3>1, <1>2, <1>5
  <2>2. s = [i \in 1 .. N |-> s[i]]
    BY <1>5
  <2> HIDE DEF s
  <2>3. s \in [1 .. N -> Int]
    BY <2>1, <2>2
  <2> QED BY <2>3, <1>1
<1>7. h \in [0 .. N -> Int]
  <2>1. \A i \in 0 .. N : i # 0 /\ i # N => i \in 1 .. Len(imus)
    BY <1>1
  <2> QED BY <2>1, <1>2
<1>8. h[0] = 0 /\ h[N] = end - last_end
  BY <1>1
<1>9. ASSUME NEW i \in 1 .. N PROVE s[i] = h[i] - h[i - 1]
  <2>1. i \in Int /\ i - 1 \in 0 .. N /\ i \in 0 .. N
    BY <1>1
  <2>2. CASE i = N
    <3>1. i - 1 = Len(imus) /\ i \in 2 .. N /\ i - 1 # 0 /\ i - 1 # N
      BY <2>2, <1>1
    <3>2. cache[i] = imus[Len(imus)] /\ imus[Len(imus)] \in Int
      BY <3>1, <1>2, <1>3
    <3>3. h[i - 1] = imus[Len(imus)] - last_end
      BY <3>1, <3>2, <2>1, <1>2
    <3> QED BY <3>2, <3>3, <2>2, <1>2, <1>5, <1>8
  <2>3. CASE i # N
    <3>1. i \in 1 .. Len(imus) /\ cache[i + 1] = imus[i] /\ imus[i] \in Int
      BY <2>3, <1>1, <1>2
    <3>2. h[i] = IF imus[i] < last_end THEN 0 ELSE imus[i] - last_end
      BY <3>1, <2>1, <2>3
    <3>3. s[i] = IF imus[i] < last_end THEN 0
                 ELSE IF cache[i] < last_end THEN imus[i] - last_end ELSE imus[i] - cache[i]
      BY <3>1, <2>3, <1>5
    <3>4. CASE i = 1
      <4>1. h[i - 1] = 0 /\ cache[i] = last_imu
        BY <3>4, <1>1, <1>8
      <4> QED BY <4>1, <3>1, <3>2, <3>3, <1>2
    <3>5. CASE i # 1
      <4>1. /\ i - 1 \in 1 .. Len(imus) /\ cache[i] = imus[i - 1]
            /\ i - 1 # 0 /\ i - 1 # N /\ imus[i - 1] \in Int
        BY <3>1, <3>5, <1>1, <1>2, <1>3
      <4>2. imus[i - 1] <= imus[i]
        BY <4>1, <3>1
      <4>3. h[i - 1] = IF imus[i - 1] < last_end THEN 0 ELSE imus[i - 1] - last_end
        BY <4>1, <2>1
      <4> HIDE DEF h, s
      <4> QED BY <4>1, <4>2, <4>3, <3>1, <3>2, <3>3, <1>2
    <3> QED BY <3>4, <3>5
  <2> QED BY <2>2, <2>3
<1> HIDE DEF h, s
<1>10. Total(s) = h[Len(s)]
  BY <1>6, <1>7, <1>8, <1>9, Telescope
<1> QED BY <1>6, <1>8, <1>10 DEF s

LEMMA CountedStep ==
  ASSUME IInv, CInv, NEW n \in 0 .. Len(imu_buffer), NEW update_valid \in BOOLEAN,
         HandOver(n, update_valid)
  PROVE  CInv'
<1> SUFFICES ASSUME ~stepped
             PROVE  /\ lag' \in Int /\ lag' = lost'
                    /\ status' # "IMU_INIT" => Following'
  BY DEF CInv, HandOver
<1> DEFINE imus == SubSeq(imu_buffer, 1, n)
           end == Cloud.end
           rest == Len(imu_buffer) - n
<1>1. TypeOK /\ Sorted /\ Buffered /\ lag \in Int /\ lag = lost
  BY DEF IInv, CInv, HandOver
<1>2. end \in Nat /\ end <= last_imu_time /\ TakesAll(n, end)
  BY <1>1, CloudType DEF HandOver
<1>3. /\ last_imu_time' = last_imu_time /\ Len(imu_buffer') = rest /\ rest \in Int
      /\ \A i \in 1 .. rest : imu_buffer'[i] = imu_buffer[n + i] /\ n + i \in 1 .. Len(imu_buffer)
  <2>1. /\ Len(imu_buffer) \in Nat /\ n \in Nat
        /\ imu_buffer' = SubSeq(imu_buffer, n + 1, Len(imu_buffer))
        /\ last_imu_time' = last_imu_time
    BY <1>1 DEF TypeOK, HandOver
  <2>2. \A i \in 1 .. rest : n + i \in 1 .. Len(imu_buffer)
    BY <2>1
  <2> QED BY <1>1, <2>1, <2>2 DEF TypeOK
<1>4. \A i \in 1 .. Len(imu_buffer) : imu_buffer[i] \in Int
  BY <1>1, LioAssumption DEF TypeOK, Times
<1>5. \A i \in 1 .. rest : end <= imu_buffer'[i]
  <2> SUFFICES ASSUME NEW i \in 1 .. rest PROVE end <= imu_buffer[n + i]
    BY <1>3
  <2>1. n < Len(imu_buffer) /\ n + 1 \in 1 .. Len(imu_buffer) /\ n + i \in 1 .. Len(imu_buffer)
    BY <1>1, <1>3 DEF TypeOK
  <2>2. end <= imu_buffer[n + 1]
    BY <2>1, <1>2, <1>4 DEF TakesAll
  <2>3. imu_buffer[n + 1] <= imu_buffer[n + i]
    <3>1. CASE i = 1
      BY <3>1, <2>1, <1>4
    <3>2. CASE i # 1
      <4>1. n + 1 < n + i
        BY <3>2
      <4> QED BY <4>1, <2>1, <1>1 DEF Sorted
    <3> QED BY <3>1, <3>2
  <2> QED BY <2>1, <2>2, <2>3, <1>2, <1>4
<1> HIDE DEF rest, end
<1>6. last_end' = end => Following'
  BY <1>2, <1>3, <1>5 DEF Following
<1>7. ASSUME last_end' = last_end, Following PROVE Following'
  BY <1>3, <1>7 DEF Following
<1>8. CASE n < MinImu
  BY <1>8, <1>1, <1>7 DEF CInv, HandOver, builderVars
<1>9. CASE ~(n < MinImu) /\ Initialize(imus, end)
  BY <1>9, <1>1, <1>6 DEF Initialize
<1>10. CASE ~(n < MinImu) /\ Process(imus, end, update_valid)
  <2>1. n >= MinImu /\ Following /\ last_imu < last_end /\ last_end \in Int
    BY <1>10, LioAssumption DEF IInv, CInv, TypeOK, Process
  <2>2. /\ imus \in Seq(Times) /\ Len(imus) > 0
        /\ \A i, j \in 1 .. Len(imus) : i < j => imus[i] <= imus[j]
        /\ imus[Len(imus)] = imu_buffer[n] /\ n \in 1 .. Len(imu_buffer)
    BY <2>1, <1>1, <1>2, PackageSamples
  <2>3. last_end <= imus[Len(imus)]
    BY <2>1, <2>2 DEF Following
  <2> HIDE DEF imus
  <2>4. Total(Predictions(imus, end)) = end - last_end
    BY <2>1, <2>2, <2>3, <1>1, <1>2, PredictionsCover
  <2>5. last_end' = end /\ status' = "MAPPING"
    BY <1>10 DEF Process
  <2>6. lag' = lag + (end - last_end) - (IF update_valid THEN end - last_end ELSE 0)
    BY <1>10, <2>4 DEF Process
  <2>7. lost' = IF update_valid THEN lost ELSE lost + (end - last_end)
    BY <1>10 DEF Process
  <2> QED BY <2>1, <2>5, <2>6, <2>7, <1>1, <1>2, <1>6
<1> QED BY <1>8, <1>9, <1>10 DEF HandOver, end

LEMMA NextCInv == IInv /\ CInv /\ [Next]_vars => CInv'
<1> SUFFICES ASSUME IInv, CInv, [Next]_vars PROVE CInv'
  OBVIOUS
<1>1. ASSUME NEW t \in Times, ImuCB(t) PROVE CInv'
  <2> SUFFICES ASSUME ~stepped, ~(t < last_imu_time)
               PROVE  /\ lag' \in Int /\ lag' = lost'
                      /\ status' # "IMU_INIT" => Following'
    BY <1>1 DEF CInv, ImuCB
  <2>1. UNCHANGED builderVars /\ last_imu_time' = t /\ imu_buffer' = Append(imu_buffer, t)
    BY <1>1 DEF ImuCB
  <2>2. last_end \in Int /\ last_imu_time \in Int /\ t \in Int /\ imu_buffer \in Seq(Times)
    BY LioAssumption DEF IInv, TypeOK, Times
  <2>3. Following => Following'
    BY <2>1, <2>2 DEF Following, builderVars
  <2> QED BY <2>1, <2>3 DEF CInv, builderVars
<1>2. ASSUME NEW c \in Clouds, LidarCB(c) PROVE CInv'
  BY <1>2 DEF CInv, Following, LidarCB, imuVars, builderVars
<1>3. ASSUME DropEmptyCloud PROVE CInv'
  BY <1>3 DEF CInv, Following, DropEmptyCloud, imuVars, builderVars
<1>4. ASSUME WaitForImu PROVE CInv'
  BY <1>4 DEF CInv, Following, WaitForImu, imuVars, builderVars
<1>5. ASSUME NEW n \in 0 .. Len(imu_buffer), NEW update_valid \in BOOLEAN,
             HandOver(n, update_valid)
      PROVE  CInv'
  BY <1>5, CountedStep
<1>6. CASE UNCHANGED vars
  BY <1>6 DEF CInv, Following, vars, imuVars, builderVars
<1> QED BY <1>1, <1>2, <1>3, <1>4, <1>5, <1>6 DEF Next, TimerCB

(* With the stamps in order every instant since the initialization is       *)
(* predicted over exactly once, and the estimate stays behind by what was   *)
(* rejected and nothing else (lio_node.cpp, imu_processor.cpp,              *)
(* map_builder.cpp).                                                        *)
THEOREM InstantsCounted == Spec => []EveryInstantCounted
<1>1. Init => CInv
  BY DEF Init, CInv
<1>2. CInv => EveryInstantCounted
  BY DEF CInv, EveryInstantCounted
<1> QED BY <1>1, <1>2, NextCInv, Invariance, PTL DEF Spec
--------------------------------------------------------------------------------
(* The guard of a hand-over of the cloud that waits.                        *)
Ripe == lidar_pushed /\ last_imu_time >= package.end

CanHandOver ==
  /\ Ripe /\ Buffered
  /\ \E n \in 0 .. Len(imu_buffer) : TakesAll(n, Cloud.end)

(* The loop over the buffer ends: some prefix is what it takes.             *)
LEMMA LoopEnds ==
  ASSUME TypeOK, NEW end \in Nat
  PROVE  \E n \in 0 .. Len(imu_buffer) : TakesAll(n, end)
<1> DEFINE T == {n \in Nat : n < Len(imu_buffer) => imu_buffer[n + 1] >= end}
<1>1. Len(imu_buffer) \in Nat /\ Len(imu_buffer) \in T /\ T \in SUBSET Nat
  BY DEF TypeOK
<1>2. PICK n \in T : \A k \in T : n <= k
  BY <1>1, LeastNumber
<1>3. n \in 0 .. Len(imu_buffer) /\ (n < Len(imu_buffer) => imu_buffer[n + 1] >= end)
  BY <1>1, <1>2
<1>4. ASSUME NEW i \in 1 .. n PROVE imu_buffer[i] < end
  <2>1. i - 1 \in Nat /\ i - 1 < n /\ (i - 1) + 1 = i /\ i \in 1 .. Len(imu_buffer)
    BY <1>3
  <2>2. i - 1 \notin T
    BY <2>1, <1>2, SMTT(30)
  <2>3. ~(imu_buffer[i] >= end)
    BY <2>1, <2>2
  <2>4. imu_buffer[i] \in Int
    BY <2>1, LioAssumption DEF TypeOK, Times
  <2> QED BY <2>3, <2>4
<1> QED BY <1>3, <1>4 DEF TakesAll

LEMMA RipeHasSamples ==
  (Ripe => imu_buffer # <<>>) /\ TypeOK /\ [Next]_vars => (Ripe => imu_buffer # <<>>)'
<1> SUFFICES ASSUME Ripe => imu_buffer # <<>>, TypeOK, [Next]_vars, Ripe'
             PROVE  imu_buffer' # <<>>
  OBVIOUS
<1> USE DEF Ripe
<1>1. ASSUME NEW t \in Times, ImuCB(t) PROVE imu_buffer' # <<>>
  <2>1. imu_buffer' = <<t>> \/ imu_buffer' = Append(imu_buffer, t)
    BY <1>1 DEF ImuCB
  <2>2. <<t>> # <<>> /\ Append(imu_buffer, t) # <<>>
    BY DEF TypeOK
  <2> QED BY <2>1, <2>2
<1>2. ASSUME NEW c \in Clouds, LidarCB(c) PROVE imu_buffer' # <<>>
  BY <1>2 DEF LidarCB, imuVars, packageVars
<1>3. ASSUME DropEmptyCloud PROVE imu_buffer' # <<>>
  BY <1>3 DEF DropEmptyCloud, imuVars, packageVars
<1>4. ASSUME WaitForImu PROVE imu_buffer' # <<>>
  BY <1>4 DEF WaitForImu, Buffered, imuVars
<1>5. ASSUME NEW n \in 0 .. Len(imu_buffer), NEW update_valid \in BOOLEAN,
             HandOver(n, update_valid)
      PROVE  FALSE
  BY <1>5 DEF HandOver
<1>6. CASE UNCHANGED vars
  BY <1>6 DEF vars, imuVars, packageVars
<1> QED BY <1>1, <1>2, <1>3, <1>4, <1>5, <1>6 DEF Next, TimerCB

(* Whatever stamps arrive, a cloud whose IMU data is there can be handed    *)
(* over: the samples have not gone (lio_node.cpp, syncPackage).             *)
THEOREM RipeCanBeHandedOver == Spec => [](Ripe => CanHandOver)
<1>1. Init => (Ripe => imu_buffer # <<>>)
  BY DEF Init, Ripe
<1>2. TypeOK /\ PendingIsFront /\ (Ripe => imu_buffer # <<>>) => (Ripe => CanHandOver)
  <2> SUFFICES ASSUME TypeOK, PendingIsFront, Ripe, imu_buffer # <<>> PROVE CanHandOver
    OBVIOUS
  <2>1. Buffered
    BY DEF Buffered, PendingIsFront, Ripe
  <2>2. Cloud.end \in Nat
    BY <2>1, CloudType
  <2>3. \E n \in 0 .. Len(imu_buffer) : TakesAll(n, Cloud.end)
    BY <2>2, LoopEnds
  <2> QED BY <2>1, <2>3 DEF CanHandOver
<1> QED BY <1>1, <1>2, RipeHasSamples, TypeCorrect, FrontIsPending, PTL DEF Spec

(* It is then handed over, by the fairness of the timer, provided that the  *)
(* timer's action is enabled where the guard of HandOver holds, which the   *)
(* provers cannot evaluate.                                                 *)
THEOREM PendingTaken ==
  Spec /\ [](CanHandOver => ENABLED <<TimerCB>>_vars) => PendingIsTaken
<1>1. TypeOK /\ Ripe /\ <<TimerCB>>_vars => ~Ripe'
  <2> SUFFICES ASSUME TypeOK, Ripe, TimerCB PROVE ~lidar_pushed'
    BY DEF Ripe
  <2>1. ~DropEmptyCloud
    BY DEF Ripe, DropEmptyCloud
  <2>2. ~WaitForImu
    <3>1. package.end \in Int /\ last_imu_time \in Int
      BY CloudEnd, LioAssumption DEF TypeOK, Times
    <3> QED BY <3>1 DEF Ripe, WaitForImu, Cloud
  <2> QED BY <2>1, <2>2 DEF TimerCB, HandOver
<1>2. lidar_pushed /\ last_imu_time >= package.end => Ripe
  BY DEF Ripe
<1>3. TypeOK => (~Ripe => ~lidar_pushed \/ last_imu_time < package.end)
  <2> SUFFICES ASSUME TypeOK PROVE ~(last_imu_time >= package.end) => last_imu_time < package.end
    BY DEF Ripe
  <2>1. package.end \in Int /\ last_imu_time \in Int
    BY CloudEnd, LioAssumption DEF TypeOK, Times
  <2> QED BY <2>1
<1> QED BY <1>1, <1>2, <1>3, RipeCanBeHandedOver, TypeCorrect, PTL DEF Spec, PendingIsTaken
================================================================================
