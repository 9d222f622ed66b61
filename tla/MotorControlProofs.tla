-------------------------- MODULE MotorControlProofs --------------------------
(***************************************************************************)
(* What holds of MotorControl for every number of wheels, every set of     *)
(* speeds and host messages and every value of the brake constants.        *)
(***************************************************************************)
EXTENDS MotorControl, TLAPS

\* A value clipped to a limit stays within the limit and on its own side of 0.
LEMMA ClipBounds ==
  ASSUME NEW x \in Int, NEW limit \in Nat
  PROVE  /\ Clip(x, limit) \in Int
         /\ Clip(x, limit) <= limit /\ -limit <= Clip(x, limit)
         /\ x <= 0 => Clip(x, limit) <= 0 /\ x <= Clip(x, limit)
         /\ x >= 0 => Clip(x, limit) >= 0 /\ Clip(x, limit) <= x
BY DEF Clip

\* The damping current opposes the wheel's motion and respects the limit.
LEMMA DampingBounds ==
  ASSUME NEW speed \in Int
  PROVE  LET target == Damping_Brake_Current(speed)
         IN  /\ target \in Int
             /\ target <= BRAKE_CURRENT_LIMIT /\ -BRAKE_CURRENT_LIMIT <= target
             /\ speed >= 0 => target <= 0
             /\ speed <= 0 => target >= 0
<1> DEFINE raw == -BRAKE_DAMPING_KP * speed
           limit == IF -BRAKE_LOW_SPEED_RPM < speed /\ speed < BRAKE_LOW_SPEED_RPM
                    THEN BRAKE_LOW_SPEED_CURRENT_LIMIT
                    ELSE BRAKE_CURRENT_LIMIT
<1>1. raw \in Int /\ limit \in Nat /\ limit <= BRAKE_CURRENT_LIMIT
  BY BrakeAssumption
<1>2. (speed >= 0 => raw <= 0) /\ (speed <= 0 => raw >= 0)
  BY BrakeAssumption
<1>3. Damping_Brake_Current(speed) = Clip(raw, limit)
  BY DEF Damping_Brake_Current
<1> HIDE DEF raw, limit
<1>4. /\ Clip(raw, limit) \in Int
      /\ Clip(raw, limit) <= limit /\ -limit <= Clip(raw, limit)
      /\ raw <= 0 => Clip(raw, limit) <= 0
      /\ raw >= 0 => Clip(raw, limit) >= 0
  BY <1>1, ClipBounds
<1> QED BY <1>1, <1>2, <1>3, <1>4, BrakeAssumption

\* A ramped current lies between the current before and its target, at most
\* one step from the current before.
LEMMA RampBounds ==
  ASSUME NEW last \in Int, NEW target \in Int
  PROVE  LET next == Ramp_Brake_Current(last, target)
         IN  /\ next \in Int
             /\ next - last <= BRAKE_CURRENT_STEP /\ last - next <= BRAKE_CURRENT_STEP
             /\ target >= last => last <= next /\ next <= target
             /\ target <= last => target <= next /\ next <= last
             /\ target < last => next < last
             /\ target > last => next > last
BY BrakeAssumption DEF Ramp_Brake_Current, Clip

-----------------------------------------------------------------------------
(* The inductive invariant: the invariants of the runs, and what PS2_Receive *)
(* leaves behind when the gamepad is lost.                                   *)

LostPadHasNoKey == sticks = "lost" => PS2_KEY = 0

MotorInv ==
  /\ MotorTypeOK
  /\ ReadyExcludesStops
  /\ NotReadyNotDriven
  /\ GamepadHasAuthority
  /\ BrakeCurrentLimited
  /\ LostPadHasNoKey

Limited(currents) ==
  \A w \in Wheels : /\ currents[w] <= BRAKE_CURRENT_LIMIT
                    /\ currents[w] >= -BRAKE_CURRENT_LIMIT

\* One brake frame computed from limited currents is limited again, and leaves
\* every other variable it assigns in its type.
LEMMA ActiveBrakeStep ==
  ASSUME NEW last \in [Wheels -> Int], Limited(last),
         NEW ready \in Bit, NEW free \in Bit,
         MotorTypeOK, Active_Brake_Output(last, ready, free)
  PROVE  /\ Vcx' = NoCmd /\ Wc' = NoCmd /\ set_spd' = Stopped
         /\ brake_last_current' \in [Wheels -> Int] /\ Limited(brake_last_current')
         /\ speed_rpm' \in [Wheels -> Speeds] /\ frame' \in Frames
         /\ brake_flag' \in Bit
         /\ motor_ready' \in {0, ready}
         /\ \/ free_flag' = free /\ motor_ready' = ready
            \/ free_flag' = 1 /\ motor_ready' = 0
<1>1. Vcx' = NoCmd /\ Wc' = NoCmd /\ set_spd' = Stopped
  BY DEF Active_Brake_Output
<1>2. CASE Brake_Wheels_Stopped
  <2>1. brake_last_current' = NoCurrent
    BY <1>2 DEF Active_Brake_Output
  <2>2. brake_last_current' \in [Wheels -> Int] /\ Limited(brake_last_current')
    BY <2>1, BrakeAssumption DEF NoCurrent, Limited
  <2> QED
    BY <1>1, <1>2, <2>2 DEF Active_Brake_Output, MotorTypeOK, Bit, Frames
<1>3. CASE ~Brake_Wheels_Stopped
  <2>1. /\ speed_rpm' \in [Wheels -> Speeds] /\ frame' = "brake"
        /\ brake_flag' = 1 /\ free_flag' = free /\ motor_ready' = ready
        /\ brake_last_current' = [w \in Wheels |->
             Ramp_Brake_Current(last[w], Damping_Brake_Current(speed_rpm'[w]))]
    BY <1>3 DEF Active_Brake_Output
  <2>2. ASSUME NEW w \in Wheels
        PROVE  /\ Ramp_Brake_Current(last[w], Damping_Brake_Current(speed_rpm'[w])) \in Int
               /\ Ramp_Brake_Current(last[w], Damping_Brake_Current(speed_rpm'[w]))
                    <= BRAKE_CURRENT_LIMIT
               /\ Ramp_Brake_Current(last[w], Damping_Brake_Current(speed_rpm'[w]))
                    >= -BRAKE_CURRENT_LIMIT
    <3> DEFINE target == Damping_Brake_Current(speed_rpm'[w])
               next   == Ramp_Brake_Current(last[w], target)
    <3>1. last[w] \in Int /\ last[w] <= BRAKE_CURRENT_LIMIT /\ last[w] >= -BRAKE_CURRENT_LIMIT
      BY DEF Limited
    <3>2. speed_rpm'[w] \in Int
      BY <2>1, SpeedsAssumption
    <3>3. target \in Int /\ target <= BRAKE_CURRENT_LIMIT /\ -BRAKE_CURRENT_LIMIT <= target
      BY <3>2, DampingBounds
    <3> HIDE DEF target
    <3>4. /\ next \in Int
          /\ target >= last[w] => last[w] <= next /\ next <= target
          /\ target <= last[w] => target <= next /\ next <= last[w]
      BY <3>1, <3>3, RampBounds
    <3> HIDE DEF next
    <3>5. next \in Int /\ next <= BRAKE_CURRENT_LIMIT /\ next >= -BRAKE_CURRENT_LIMIT
      BY <3>1, <3>3, <3>4, BrakeAssumption
    <3> QED BY <3>5 DEF next, target
  <2>3. brake_last_current' \in [Wheels -> Int] /\ Limited(brake_last_current')
    BY <2>1, <2>2 DEF Limited
  <2> QED
    BY <1>1, <2>1, <2>3 DEF Bit, Frames
<1> QED BY <1>2, <1>3

LEMMA MotorInitInv == MotorInit => MotorInv
<1> SUFFICES ASSUME MotorInit PROVE MotorInv
  OBVIOUS
<1>1. MotorTypeOK
  BY LevelsAssumption, KeysAssumption
  DEF MotorInit, MotorTypeOK, Bit, Cmds, Stopped, NoCurrent, Frames, StickClasses
<1>2. ReadyExcludesStops /\ NotReadyNotDriven /\ GamepadHasAuthority /\ LostPadHasNoKey
  BY DEF MotorInit, ReadyExcludesStops, NotReadyNotDriven, GamepadHasAuthority, LostPadHasNoKey
<1>3. BrakeCurrentLimited
  <2>1. \A w \in Wheels : brake_last_current[w] = 0
    BY DEF MotorInit, NoCurrent
  <2>2. 0 <= BRAKE_CURRENT_LIMIT /\ 0 >= -BRAKE_CURRENT_LIMIT
    BY BrakeAssumption
  <2> QED BY <2>1, <2>2 DEF BrakeCurrentLimited
<1> QED BY <1>1, <1>2, <1>3 DEF MotorInv

\* KEY's zero-current frame, which coasting sends as well.
LEMMA CoastInv ==
  ASSUME MotorInv, Emergency_Stop_Output,
         UNCHANGED <<control_mode, motor_ready, motor_shutdown, free_flag,
                     pad, speed_rpm, frc_ctrl_mode>>
  PROVE  MotorInv'
<1> USE DEF MotorInv
<1>1. MotorTypeOK'
  BY DEF Emergency_Stop_Output, MotorTypeOK, pad, Bit, Cmds, Stopped, Frames
<1>2. NoCmd \notin HostCmds
  BY DEF NoCmd, HostCmds
<1> QED
  BY <1>1, <1>2 DEF Emergency_Stop_Output, ReadyExcludesStops, NotReadyNotDriven,
       GamepadHasAuthority, BrakeCurrentLimited, LostPadHasNoKey, pad

\* Speed_set: the brake, coasting and the PID frame.
LEMMA SpeedSetInv == MotorInv /\ Speed_set => MotorInv'
<1> SUFFICES ASSUME MotorInv, Speed_set PROVE MotorInv'
  OBVIOUS
<1> USE DEF MotorInv
<1>1. CASE brake_flag = 1
  <2>1. /\ Active_Brake_Output(brake_last_current, motor_ready, free_flag)
        /\ UNCHANGED <<control_mode, motor_shutdown, pad, frc_ctrl_mode>>
    BY <1>1 DEF Speed_set
  <2>2. /\ brake_last_current \in [Wheels -> Int] /\ Limited(brake_last_current)
        /\ motor_ready = 0 /\ free_flag \in Bit
    BY <1>1 DEF MotorTypeOK, BrakeCurrentLimited, Limited, ReadyExcludesStops, Bit
  <2>3. /\ Vcx' = NoCmd /\ Wc' = NoCmd /\ set_spd' = Stopped
        /\ brake_last_current' \in [Wheels -> Int] /\ Limited(brake_last_current')
        /\ speed_rpm' \in [Wheels -> Speeds] /\ frame' \in Frames
        /\ brake_flag' \in Bit /\ motor_ready' = 0 /\ free_flag' \in Bit
    BY <2>1, <2>2, ActiveBrakeStep DEF Bit
  <2>4. MotorTypeOK'
    BY <2>1, <2>3 DEF MotorTypeOK, pad, Bit, Cmds, Stopped
  <2>5. ReadyExcludesStops' /\ NotReadyNotDriven' /\ GamepadHasAuthority' /\ LostPadHasNoKey'
    BY <2>1, <2>3 DEF ReadyExcludesStops, NotReadyNotDriven, GamepadHasAuthority,
                      LostPadHasNoKey, pad
  <2> QED BY <2>3, <2>4, <2>5 DEF BrakeCurrentLimited, Limited
<1>2. CASE brake_flag = 0 /\ (free_flag = 1 \/ motor_shutdown = 1)
  <2>1. /\ Emergency_Stop_Output
        /\ UNCHANGED <<control_mode, motor_ready, motor_shutdown, free_flag,
                       pad, speed_rpm, frc_ctrl_mode>>
    BY <1>2 DEF Speed_set
  <2> QED
    BY <2>1, CoastInv
<1>3. CASE brake_flag = 0 /\ free_flag = 0 /\ motor_shutdown = 0
  <2>1. /\ set_spd' = IF motor_ready = 1 THEN <<Vcx, Wc>> ELSE Stopped
        /\ frame' = "pid"
        /\ UNCHANGED <<flags, Vcx, Wc, brake_last_current, pad, speed_rpm, frc_ctrl_mode>>
    BY <1>3 DEF Speed_set
  <2>2. MotorTypeOK'
    BY <2>1 DEF MotorTypeOK, flags, pad, Bit, Cmds, Stopped, Frames
  <2> QED
    BY <2>1, <2>2 DEF ReadyExcludesStops, NotReadyNotDriven, GamepadHasAuthority,
                      LostPadHasNoKey, BrakeCurrentLimited, flags, pad
<1> QED BY <1>1, <1>2, <1>3 DEF MotorTypeOK, Bit, Speed_set

\* The gamepad task, branch by branch.
LEMMA JoystickInv == MotorInv /\ Joystick_motor_control => MotorInv'
<1> SUFFICES ASSUME MotorInv, Joystick_motor_control PROVE MotorInv'
  OBVIOUS
<1> USE DEF MotorInv
<1>1. PICK poll \in PollResults :
        /\ sticks' = poll[1] /\ PS2_KEY' = poll[2]
        /\ Joystick_v_set(poll[2])
        /\ BrakeBranch(poll[2]) \/ DisableBranch(poll[2]) \/ DriveBranch(poll[2])
        /\ UNCHANGED frc_ctrl_mode
  BY DEF Joystick_motor_control
<1> DEFINE key == poll[2]
<1>2. /\ sticks' \in StickClasses /\ PS2_KEY' \in Keys
      /\ LostPadHasNoKey'
  BY <1>1 DEF PollResults, LostPadHasNoKey
<1>3. speed_count' \in 0 .. max_count - 1 /\ flagg' \in Bit
  BY <1>1, LevelsAssumption DEF Joystick_v_set, MotorTypeOK, Bit
<1>4. frc_ctrl_mode' \in 0 .. 2
  BY <1>1 DEF MotorTypeOK
<1>5. CASE BrakeBranch(key)
  <2> DEFINE last == IF brake_flag = 0 \/ XStop(key) THEN NoCurrent ELSE brake_last_current
  <2>1. /\ control_mode' = 0 /\ motor_shutdown' = 0
        /\ Active_Brake_Output(last, 0, 0)
    BY <1>5 DEF BrakeBranch
  <2>2. \A w \in Wheels : NoCurrent[w] = 0
    BY DEF NoCurrent
  <2>3. NoCurrent \in [Wheels -> Int] /\ Limited(NoCurrent)
    BY <2>2, BrakeAssumption DEF NoCurrent, Limited
  <2>4. last \in [Wheels -> Int] /\ Limited(last)
    BY <2>3 DEF MotorTypeOK, BrakeCurrentLimited, Limited
  <2> HIDE DEF last
  <2>5. /\ Vcx' = NoCmd /\ Wc' = NoCmd /\ set_spd' = Stopped
        /\ brake_last_current' \in [Wheels -> Int] /\ Limited(brake_last_current')
        /\ speed_rpm' \in [Wheels -> Speeds] /\ frame' \in Frames
        /\ brake_flag' \in Bit /\ motor_ready' = 0 /\ free_flag' \in Bit
    BY <2>1, <2>4, ActiveBrakeStep DEF Bit
  <2>6. MotorTypeOK'
    BY <1>2, <1>3, <1>4, <2>1, <2>5 DEF MotorTypeOK, Bit, Cmds, Stopped
  <2> QED
    BY <1>2, <2>1, <2>5, <2>6 DEF ReadyExcludesStops, NotReadyNotDriven,
         GamepadHasAuthority, BrakeCurrentLimited, Limited
<1>6. CASE DisableBranch(key)
  <2>1. MotorTypeOK'
    BY <1>2, <1>3, <1>4, <1>6 DEF DisableBranch, Emergency_Stop_Output, MotorTypeOK, Bit,
         Cmds, Stopped, Frames
  <2> QED
    BY <1>2, <1>6, <2>1 DEF DisableBranch, Emergency_Stop_Output, ReadyExcludesStops,
         NotReadyNotDriven, GamepadHasAuthority, BrakeCurrentLimited
<1>7. CASE DriveBranch(key)
  <2>1. Vcx' \in Cmds /\ Wc' \in Cmds
    <3>1. <<"stick", speed_count'>> \in StickCmds /\ <<"stick", 0>> \in StickCmds
      BY <1>3, LevelsAssumption DEF StickCmds
    <3> QED BY <1>7, <3>1 DEF DriveBranch, MotorTypeOK, Cmds
  <2>2. MotorTypeOK'
    BY <1>2, <1>3, <1>4, <1>7, <2>1 DEF DriveBranch, MotorTypeOK, Bit
  <2>3. ReadyExcludesStops' /\ NotReadyNotDriven' /\ BrakeCurrentLimited'
    BY <1>7 DEF DriveBranch, ReadyExcludesStops, NotReadyNotDriven, BrakeCurrentLimited,
         MotorTypeOK, Bit
  <2>4. GamepadHasAuthority'
    <3>1. \A level : <<"stick", level>> \notin HostCmds /\ NoCmd \notin HostCmds
      BY DEF HostCmds, NoCmd
    <3> SUFFICES ASSUME control_mode' = 0, motor_ready' = 1
                 PROVE  Vcx' \notin HostCmds /\ Wc' \notin HostCmds
      BY DEF GamepadHasAuthority
    <3>2. motor_shutdown' = 0
      BY <2>3 DEF ReadyExcludesStops
    <3> QED BY <1>7, <3>1, <3>2 DEF DriveBranch
  <2> QED BY <1>2, <2>2, <2>3, <2>4
<1> QED BY <1>1, <1>5, <1>6, <1>7

LEMMA MotorStepInv == MotorInv /\ [MotorNext]_motorVars => MotorInv'
<1> SUFFICES ASSUME MotorInv, [MotorNext]_motorVars PROVE MotorInv'
  OBVIOUS
<1>1. CASE Speed_set
  BY <1>1, SpeedSetInv
<1>2. CASE Joystick_motor_control
  BY <1>2, JoystickInv
<1>3. CASE Serial_Output
  <2>1. MotorTypeOK'
    BY <1>3 DEF Serial_Output, MotorInv, MotorTypeOK, flags, pad, drive
  <2> QED
    BY <1>3, <2>1 DEF Serial_Output, MotorInv, flags, pad, drive, ReadyExcludesStops,
         NotReadyNotDriven, GamepadHasAuthority, BrakeCurrentLimited, LostPadHasNoKey
<1>4. ASSUME NEW v \in HostMsgs, NEW w \in HostMsgs, Serial_Input(v, w)
      PROVE  MotorInv'
  <2>1. Vcx' \in Cmds /\ Wc' \in Cmds
    BY <1>4 DEF Serial_Input, MotorInv, MotorTypeOK, Cmds, HostCmds
  <2>2. MotorTypeOK'
    BY <1>4, <2>1 DEF Serial_Input, MotorInv, MotorTypeOK, flags, pad
  <2>3. GamepadHasAuthority'
    BY <1>4 DEF Serial_Input, MotorInv, GamepadHasAuthority, flags
  <2> QED
    BY <1>4, <2>2, <2>3 DEF Serial_Input, MotorInv, flags, pad, ReadyExcludesStops,
         NotReadyNotDriven, BrakeCurrentLimited, LostPadHasNoKey
<1>5. CASE KeyStop
  BY <1>5, CoastInv DEF KeyStop
<1>6. CASE CanFeedback
  <2>1. MotorTypeOK'
    BY <1>6 DEF CanFeedback, MotorInv, MotorTypeOK, flags, pad, drive
  <2> QED
    BY <1>6, <2>1 DEF CanFeedback, MotorInv, flags, pad, drive, ReadyExcludesStops,
         NotReadyNotDriven, GamepadHasAuthority, BrakeCurrentLimited, LostPadHasNoKey
<1>7. CASE UNCHANGED motorVars
  <2>1. MotorTypeOK'
    BY <1>7 DEF motorVars, MotorInv, MotorTypeOK, flags, pad, drive
  <2> QED
    BY <1>7, <2>1 DEF motorVars, MotorInv, flags, pad, drive, ReadyExcludesStops,
         NotReadyNotDriven, GamepadHasAuthority, BrakeCurrentLimited, LostPadHasNoKey
<1> QED BY <1>1, <1>2, <1>3, <1>4, <1>5, <1>6, <1>7 DEF MotorNext

\* The strengthening holds of every behaviour of the motor side.
THEOREM MotorInvariant == MotorSpec => []MotorInv
<1>1. MotorInit => MotorInv
  BY MotorInitInv
<1>2. MotorInv /\ [MotorNext]_motorVars => MotorInv'
  BY MotorStepInv
<1> QED BY <1>1, <1>2, PTL DEF MotorSpec

\* Types, for every number of wheels and every range of speeds.
THEOREM MotorTypeCorrect == MotorSpec => []MotorTypeOK
BY MotorInvariant, PTL DEF MotorInv

\* No order of buttons, tasks and messages leaves ready motors shut down,
\* coasting or braking.
THEOREM ReadyExcludesStopsHolds == MotorSpec => []ReadyExcludesStops
BY MotorInvariant, PTL DEF MotorInv

\* Between a stop and the next Y the wheels have no speed target.
THEOREM NotReadyNotDrivenHolds == MotorSpec => []NotReadyNotDriven
BY MotorInvariant, PTL DEF MotorInv

\* A vehicle driven by the gamepad never follows the host.
THEOREM GamepadHasAuthorityHolds == MotorSpec => []GamepadHasAuthority
BY MotorInvariant, PTL DEF MotorInv

\* No brake current exceeds the limit, whatever speeds the motors report.
THEOREM BrakeCurrentLimitedHolds == MotorSpec => []BrakeCurrentLimited
BY MotorInvariant, PTL DEF MotorInv

-----------------------------------------------------------------------------
(* The two action properties of the brake. *)

\* What the brake frames of one call look like: every wheel is ramped from the
\* current before, or from 0 when the call latches the brake.
LEMMA BrakeFrame ==
  ASSUME MotorInv, MotorNext,
         frame' = "brake", brake_last_current' # brake_last_current
  PROVE  \E last \in [Wheels -> Int] :
           /\ last = IF brake_flag = 0 \/ (sticks = "lost" /\ PS2_KEY' = 14)
                     THEN NoCurrent ELSE brake_last_current
           /\ speed_rpm' \in [Wheels -> Speeds]
           /\ brake_last_current' = [w \in Wheels |->
                Ramp_Brake_Current(last[w], Damping_Brake_Current(speed_rpm'[w]))]
<1> DEFINE base == IF brake_flag = 0 \/ (sticks = "lost" /\ PS2_KEY' = 14)
                   THEN NoCurrent ELSE brake_last_current
<1>1. base \in [Wheels -> Int]
  BY DEF MotorInv, MotorTypeOK, NoCurrent
<1>2. \A last, ready, free :
        Active_Brake_Output(last, ready, free) =>
          /\ speed_rpm' \in [Wheels -> Speeds]
          /\ brake_last_current' = [w \in Wheels |->
               Ramp_Brake_Current(last[w], Damping_Brake_Current(speed_rpm'[w]))]
  BY DEF Active_Brake_Output
<1>3. CASE Speed_set
  <2>1. brake_flag = 1 /\ Active_Brake_Output(brake_last_current, motor_ready, free_flag)
        /\ UNCHANGED pad
    BY <1>3 DEF Speed_set, Emergency_Stop_Output
  <2>2. base = brake_last_current
    BY <2>1 DEF pad, MotorInv, LostPadHasNoKey
  <2> HIDE DEF base
  <2>3. brake_last_current' = [w \in Wheels |->
               Ramp_Brake_Current(base[w], Damping_Brake_Current(speed_rpm'[w]))]
    BY <1>2, <2>1, <2>2
  <2> QED BY <1>1, <1>2, <2>1, <2>3 DEF base
<1>4. CASE Joystick_motor_control
  <2>1. PICK poll \in PollResults :
          /\ PS2_KEY' = poll[2]
          /\ BrakeBranch(poll[2])
    BY <1>4 DEF Joystick_motor_control, DisableBranch, DriveBranch, Emergency_Stop_Output
  <2>2. PS2_KEY' = 14 /\ Active_Brake_Output(base, 0, 0)
    BY <2>1 DEF BrakeBranch, XStop
  <2> HIDE DEF base
  <2> QED BY <1>1, <1>2, <2>2 DEF base
<1> QED
  BY <1>3, <1>4 DEF MotorNext, Serial_Output, Serial_Input, KeyStop, CanFeedback, drive,
     Emergency_Stop_Output

\* "rate-limits current changes", "holding B does not reset the current ramp":
\* for every step size and every sequence of speeds.
THEOREM BrakeRampContinuousHolds == MotorSpec => BrakeRampContinuous
<1> DEFINE fresh == brake_flag = 0 \/ (sticks = "lost" /\ PS2_KEY' = 14)
           Continuous ==
             frame' = "brake" /\ brake_last_current' # brake_last_current =>
               \A w \in Wheels :
                 LET before == IF fresh THEN 0 ELSE brake_last_current[w]
                 IN  /\ brake_last_current'[w] - before <= BRAKE_CURRENT_STEP
                     /\ before - brake_last_current'[w] <= BRAKE_CURRENT_STEP
<1>1. ASSUME MotorInv, [MotorNext]_motorVars PROVE [Continuous]_motorVars
  <2> SUFFICES ASSUME MotorNext, frame' = "brake", brake_last_current' # brake_last_current,
                      NEW w \in Wheels
               PROVE  LET before == IF fresh THEN 0 ELSE brake_last_current[w]
                      IN  /\ brake_last_current'[w] - before <= BRAKE_CURRENT_STEP
                          /\ before - brake_last_current'[w] <= BRAKE_CURRENT_STEP
    BY <1>1
  <2>1. PICK last \in [Wheels -> Int] :
          /\ last = IF fresh THEN NoCurrent ELSE brake_last_current
          /\ speed_rpm' \in [Wheels -> Speeds]
          /\ brake_last_current' = [u \in Wheels |->
               Ramp_Brake_Current(last[u], Damping_Brake_Current(speed_rpm'[u]))]
    BY <1>1, BrakeFrame
  <2>2. last[w] = IF fresh THEN 0 ELSE brake_last_current[w]
    BY <2>1 DEF NoCurrent
  <2> HIDE DEF fresh
  <2>3. speed_rpm'[w] \in Int
    BY <2>1, SpeedsAssumption
  <2>4. Damping_Brake_Current(speed_rpm'[w]) \in Int
    BY <2>3, DampingBounds
  <2>5. brake_last_current'[w]
          = Ramp_Brake_Current(last[w], Damping_Brake_Current(speed_rpm'[w]))
    BY <2>1
  <2>6. last[w] \in Int
    OBVIOUS
  <2> QED BY <2>2, <2>4, <2>5, <2>6, RampBounds
<1>2. BrakeRampContinuous <=> [][Continuous]_motorVars
  BY DEF BrakeRampContinuous
<1> HIDE DEF Continuous
<1> QED BY <1>1, <1>2, MotorInvariant, PTL DEF MotorSpec

\* A wheel that reverses under the brake is never pushed harder than before.
THEOREM BrakeNeverAddsPushHolds == MotorSpec => BrakeNeverAddsPush
<1> DEFINE NoPush ==
             frame' = "brake" /\ brake_last_current' # brake_last_current =>
               \A w \in Wheels :
                 /\ speed_rpm'[w] > 0 /\ brake_last_current'[w] > 0
                      => brake_last_current'[w] < brake_last_current[w]
                 /\ speed_rpm'[w] < 0 /\ brake_last_current'[w] < 0
                      => brake_last_current'[w] > brake_last_current[w]
<1>1. ASSUME MotorInv, [MotorNext]_motorVars PROVE [NoPush]_motorVars
  <2> SUFFICES ASSUME MotorNext, frame' = "brake", brake_last_current' # brake_last_current,
                      NEW w \in Wheels
               PROVE  /\ speed_rpm'[w] > 0 /\ brake_last_current'[w] > 0
                           => brake_last_current'[w] < brake_last_current[w]
                      /\ speed_rpm'[w] < 0 /\ brake_last_current'[w] < 0
                           => brake_last_current'[w] > brake_last_current[w]
    BY <1>1
  <2> DEFINE fresh == brake_flag = 0 \/ (sticks = "lost" /\ PS2_KEY' = 14)
  <2>1. PICK last \in [Wheels -> Int] :
          /\ last = IF fresh THEN NoCurrent ELSE brake_last_current
          /\ speed_rpm' \in [Wheels -> Speeds]
          /\ brake_last_current' = [u \in Wheels |->
               Ramp_Brake_Current(last[u], Damping_Brake_Current(speed_rpm'[u]))]
    BY <1>1, BrakeFrame
  <2>2. last[w] = 0 \/ last[w] = brake_last_current[w]
    BY <2>1 DEF NoCurrent
  <2>3. speed_rpm'[w] \in Int
    BY <2>1, SpeedsAssumption
  <2> DEFINE target == Damping_Brake_Current(speed_rpm'[w])
             next   == Ramp_Brake_Current(last[w], target)
  <2>4. /\ target \in Int
        /\ speed_rpm'[w] > 0 => target <= 0
        /\ speed_rpm'[w] < 0 => target >= 0
    BY <2>3, DampingBounds
  <2>5. brake_last_current'[w] = next
    BY <2>1
  <2>6. last[w] \in Int
    OBVIOUS
  <2> HIDE DEF target
  <2>7. /\ next \in Int
        /\ target >= last[w] => last[w] <= next /\ next <= target
        /\ target <= last[w] => target <= next /\ next <= last[w]
        /\ target < last[w] => next < last[w]
        /\ target > last[w] => next > last[w]
    BY <2>4, <2>6, RampBounds
  <2> HIDE DEF next
  <2> QED BY <2>2, <2>3, <2>4, <2>5, <2>6, <2>7
<1>2. BrakeNeverAddsPush <=> [][NoPush]_motorVars
  BY DEF BrakeNeverAddsPush
<1> HIDE DEF NoPush
<1> QED BY <1>1, <1>2, MotorInvariant, PTL DEF MotorSpec

-----------------------------------------------------------------------------
(* A lost gamepad, as far as a pass of its task goes.                        *)
LostPadDisarms ==
  [][/\ Joystick_motor_control /\ sticks = "lost" =>
          /\ motor_ready' = 0 /\ set_spd' = Stopped
          /\ motor_shutdown' = 1 \/ brake_flag' = 1 \/ free_flag' = 1
     /\ motor_ready = 0 /\ motor_ready' = 1 =>
          Joystick_motor_control /\ sticks = "neutral" /\ PS2_KEY' = 13]_motorVars

\* The pass that reads the bytes of a lost gamepad takes the motors out of
\* service, B held or not, and whatever follows, only a Y with neutral sticks
\* puts them back: no other branch, task, host command or feedback does
\* (Joystick.c, Motor_Speed_pid.c).
THEOREM LostPadDisarmsHolds == MotorSpec => LostPadDisarms
<1>1. ASSUME MotorInv, MotorNext, Joystick_motor_control, sticks = "lost"
      PROVE  /\ motor_ready' = 0 /\ set_spd' = Stopped
             /\ motor_shutdown' = 1 \/ brake_flag' = 1 \/ free_flag' = 1
  <2>1. PICK key : BrakeBranch(key) \/ DisableBranch(key)
    BY <1>1 DEF Joystick_motor_control, DriveBranch, XStop
  <2>2. CASE DisableBranch(key)
    BY <2>2 DEF DisableBranch, Emergency_Stop_Output
  <2>3. CASE BrakeBranch(key)
    BY <2>3 DEF BrakeBranch, Active_Brake_Output
  <2> QED BY <2>1, <2>2, <2>3
<1>2. ASSUME MotorInv, MotorNext, motor_ready = 0, motor_ready' = 1
      PROVE  Joystick_motor_control /\ sticks = "neutral" /\ PS2_KEY' = 13
  <2>1. Joystick_motor_control
    BY <1>2 DEF MotorNext, Speed_set, Active_Brake_Output, Serial_Output, Serial_Input, KeyStop,
                CanFeedback, flags
  <2>2. PICK key : PS2_KEY' = key /\ (BrakeBranch(key) \/ DisableBranch(key) \/ DriveBranch(key))
    BY <2>1 DEF Joystick_motor_control
  <2>3. DriveBranch(key) /\ YStart(key)
    BY <1>2, <2>2 DEF BrakeBranch, DisableBranch, DriveBranch, Active_Brake_Output
  <2> QED BY <2>1, <2>2, <2>3 DEF YStart
<1>3. MotorInv /\ [MotorNext]_motorVars =>
        [/\ Joystick_motor_control /\ sticks = "lost" =>
              /\ motor_ready' = 0 /\ set_spd' = Stopped
              /\ motor_shutdown' = 1 \/ brake_flag' = 1 \/ free_flag' = 1
         /\ motor_ready = 0 /\ motor_ready' = 1 =>
              Joystick_motor_control /\ sticks = "neutral" /\ PS2_KEY' = 13]_motorVars
  BY <1>1, <1>2
<1> QED BY <1>3, MotorInvariant, PTL DEF MotorSpec, LostPadDisarms

===============================================================================
