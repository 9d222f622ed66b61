----------------------------- MODULE MotorControl -----------------------------
(***************************************************************************)
(* The motor side of the STM32 lower controller (firmware/rm_c_board,      *)
(* Motor_Speed_pid.c and Joystick.c): who may command the wheels, what the *)
(* gamepad's buttons do, and which CAN current frame each periodic task    *)
(* sends.  Every action is one call of a task of main.c, run to its end;   *)
(* LowerController composes them with the main loop and the interrupts.    *)
(*                                                                         *)
(* A speed command is kept as its origin (which stick level, which host    *)
(* message), never as a float: NoCmd stands for 0.  The four wheels of the *)
(* board are the set Wheels; a current is an Int, the speed of a wheel the *)
(* rpm its motor last reported.                                            *)
(***************************************************************************)
EXTENDS Integers

CONSTANTS
  Wheels,                        \* the driven wheels, motor_chassis[0..3]
  Speeds,                        \* the rpm values CAN feedback may report
  HostMsgs,                      \* identities of the host's vcx/wc messages
  Keys,                          \* PS2 key codes the gamepad may send, 0 is none
  max_count,                     \* number of stick speed levels
  BRAKE_STOP_RPM,                \* at most this rpm counts as stopped
  BRAKE_LOW_SPEED_RPM,           \* below this rpm the lower limit applies
  BRAKE_CURRENT_LIMIT,           \* largest brake current
  BRAKE_LOW_SPEED_CURRENT_LIMIT, \* largest brake current at low speed
  BRAKE_DAMPING_KP,              \* brake current per rpm
  BRAKE_CURRENT_STEP             \* largest change of brake current per frame

ASSUME SpeedsAssumption == Speeds \subseteq Int /\ Speeds # {}

ASSUME KeysAssumption == Keys \subseteq 0 .. 16 /\ 0 \in Keys

ASSUME LevelsAssumption == max_count \in Nat \ {0}

ASSUME BrakeAssumption ==
  /\ BRAKE_STOP_RPM \in Nat
  /\ BRAKE_LOW_SPEED_RPM \in Nat
  /\ BRAKE_CURRENT_LIMIT \in Nat
  /\ BRAKE_LOW_SPEED_CURRENT_LIMIT \in 0 .. BRAKE_CURRENT_LIMIT
  /\ BRAKE_DAMPING_KP \in Nat
  /\ BRAKE_CURRENT_STEP \in Nat \ {0}

VARIABLES
  control_mode,        \* 0: the gamepad commands, 1: the host does
  motor_ready,         \* 1 after Y: commands reach the wheels
  motor_shutdown,      \* 1 after X or a lost gamepad
  free_flag,           \* 1: the wheels coast
  brake_flag,          \* 1: the active brake of B is latched
  Vcx, Wc,             \* the current command, by origin
  set_spd,             \* the command the wheel speed targets were computed from
  brake_last_current,  \* the last brake current of each wheel
  speed_rpm,           \* the rpm each motor last reported
  frame,               \* kind of the CAN current frame sent last
  sticks,              \* stick bytes left in Data by the previous poll
  PS2_KEY,             \* the key of the last poll
  speed_count, flagg,  \* stick speed level, and its key-is-down latch
  frc_ctrl_mode        \* the mode last reported to the host

flags == <<control_mode, motor_ready, motor_shutdown, free_flag, brake_flag>>
pad   == <<sticks, PS2_KEY, speed_count, flagg>>
drive == <<Vcx, Wc, set_spd, brake_last_current, frame>>
motorVars == <<flags, pad, drive, speed_rpm, frc_ctrl_mode>>

Bit     == {0, 1}
NoCmd   == <<"zero", 0>>
StickCmds == {"stick"} \X (0 .. max_count - 1)
HostCmds  == {"host"} \X HostMsgs
Cmds      == {NoCmd} \union StickCmds \union HostCmds
Stopped   == <<NoCmd, NoCmd>>
NoCurrent == [w \in Wheels |-> 0]

\* The stick positions the code tells apart: LY = 128 and RX = 127 (neutral),
\* all four bytes 255 or all four 128 (what an unplugged or sleeping receiver
\* answers), anything else.
StickClasses == {"neutral", "lost", "moved"}
Frames == {"none", "zero", "pid", "brake"}

-----------------------------------------------------------------------------
(* The brake current of one wheel. *)

Clip(x, limit) == IF x > limit THEN limit ELSE IF x < -limit THEN -limit ELSE x

\* Mutants: no upper bound on the current; a current along the motion.
DampingOneSided(speed) ==
  LET out == -BRAKE_DAMPING_KP * speed
  IN  IF out < -BRAKE_CURRENT_LIMIT THEN -BRAKE_CURRENT_LIMIT ELSE out

DampingWrongSign(speed) == Clip(BRAKE_DAMPING_KP * speed, BRAKE_CURRENT_LIMIT)

Damping_Brake_Current(speed) ==
  Clip(-BRAKE_DAMPING_KP * speed,
       IF -BRAKE_LOW_SPEED_RPM < speed /\ speed < BRAKE_LOW_SPEED_RPM
       THEN BRAKE_LOW_SPEED_CURRENT_LIMIT
       ELSE BRAKE_CURRENT_LIMIT)

Ramp_Brake_Current(last, target) ==
  last + Clip(target - last, BRAKE_CURRENT_STEP)

Brake_Wheels_Stopped ==
  \A w \in Wheels : -BRAKE_STOP_RPM <= speed_rpm[w] /\ speed_rpm[w] <= BRAKE_STOP_RPM

-----------------------------------------------------------------------------
(* Init: the C initialisers. Data starts as zero bytes: a moved stick. *)

MotorInit ==
  /\ control_mode = 1
  /\ motor_ready = 0 /\ motor_shutdown = 0 /\ free_flag = 0 /\ brake_flag = 0
  /\ Vcx = NoCmd /\ Wc = NoCmd /\ set_spd = Stopped
  /\ brake_last_current = NoCurrent
  /\ speed_rpm \in [Wheels -> Speeds]
  /\ frame = "none"
  /\ sticks = "moved" /\ PS2_KEY = 0
  /\ speed_count = 0 /\ flagg = 0
  /\ frc_ctrl_mode = 0

(* Set_free is the same function by another name. *)
Emergency_Stop_Output ==
  /\ Vcx' = NoCmd /\ Wc' = NoCmd /\ set_spd' = Stopped
  /\ brake_flag' = 0
  /\ frame' = "zero"
  /\ UNCHANGED brake_last_current

(* The caller's brake_last_current, motor_ready and free_flag are arguments, *)
(* because B assigns them before it calls.  Feedback interrupts may replace  *)
(* the speeds between the stop test and the reads that make up the frame.    *)
Active_Brake_Output(last, ready, free) ==
  /\ Vcx' = NoCmd /\ Wc' = NoCmd /\ set_spd' = Stopped
  /\ \/ /\ Brake_Wheels_Stopped
        /\ brake_flag' = 0 /\ free_flag' = 1 /\ motor_ready' = 0
        /\ brake_last_current' = NoCurrent
        /\ frame' = "zero"
        /\ UNCHANGED speed_rpm
     \/ /\ ~Brake_Wheels_Stopped
        /\ brake_flag' = 1 /\ free_flag' = free /\ motor_ready' = ready
        /\ speed_rpm' \in [Wheels -> Speeds]
        /\ brake_last_current' = [w \in Wheels |->
             Ramp_Brake_Current(last[w], Damping_Brake_Current(speed_rpm'[w]))]
        /\ frame' = "brake"

(* The 200 Hz wheel task.  With no brake and no coasting it always sends a  *)
(* PID frame, towards speed 0 while the motors are not ready.               *)
Speed_set ==
  \/ /\ brake_flag = 1
     /\ Active_Brake_Output(brake_last_current, motor_ready, free_flag)
     /\ UNCHANGED <<control_mode, motor_shutdown, pad, frc_ctrl_mode>>
  \/ /\ brake_flag = 0
     /\ free_flag = 1 \/ motor_shutdown = 1
     /\ Emergency_Stop_Output
     /\ UNCHANGED <<control_mode, motor_ready, motor_shutdown, free_flag,
                    pad, speed_rpm, frc_ctrl_mode>>
  \/ /\ brake_flag = 0 /\ free_flag = 0 /\ motor_shutdown = 0
     /\ set_spd' = IF motor_ready = 1 THEN <<Vcx, Wc>> ELSE Stopped
     /\ frame' = "pid"
     /\ UNCHANGED <<flags, Vcx, Wc, brake_last_current, pad, speed_rpm, frc_ctrl_mode>>

-----------------------------------------------------------------------------
(* The gamepad task.  PS2_Receive takes the stick bytes of the previous poll *)
(* and then polls: a key is one frame newer than the sticks beside it.       *)

PollResults == {p \in StickClasses \X Keys : p[1] = "lost" => p[2] = 0}

\* Mutant: the level is not bounded by max_count.
LevelUnbounded(key) ==
  /\ speed_count' = speed_count + (IF key = 5 /\ flagg = 0 THEN 1 ELSE 0)
  /\ flagg' = IF key = 0 THEN 0 ELSE 1

Joystick_v_set(key) ==
  LET step == IF flagg = 1 THEN 0
              ELSE IF key = 5 /\ speed_count < max_count - 1 THEN 1
              ELSE IF key = 7 /\ speed_count > 0 THEN -1 ELSE 0
  IN  /\ speed_count' = speed_count + step
      /\ flagg' = IF key \in {5, 7} THEN 1 ELSE IF key = 0 THEN 0 ELSE flagg

\* Mutant: a lost gamepad goes unnoticed.
XStopButtonOnly(key) == key = 16

XStop(key)  == key = 16 \/ sticks = "lost"
YStart(key) == key = 13 /\ sticks = "neutral"

\* Mutants: B leaves motor_ready alone; every B frame restarts the ramp.
BrakeStaysReady(key) ==
  /\ key = 14 /\ control_mode' = 0 /\ motor_shutdown' = 0
  /\ Active_Brake_Output(IF brake_flag = 0 THEN NoCurrent ELSE brake_last_current,
                         motor_ready, 0)

BrakeRestartsRamp(key) ==
  /\ key = 14 /\ control_mode' = 0 /\ motor_shutdown' = 0
  /\ Active_Brake_Output(NoCurrent, 0, 0)

BrakeBranch(key) ==
  /\ key = 14
  /\ control_mode' = 0 /\ motor_shutdown' = 0
  /\ Active_Brake_Output(IF brake_flag = 0 \/ XStop(key) THEN NoCurrent
                         ELSE brake_last_current, 0, 0)

\* Mutant: X without the call of Set_free.
DisableWithoutOutput(key) ==
  /\ XStop(key) /\ key # 14
  /\ control_mode' = 0 /\ motor_shutdown' = 1 /\ motor_ready' = 0 /\ free_flag' = 1
  /\ brake_flag' = 0
  /\ UNCHANGED <<drive, speed_rpm>>

DisableBranch(key) ==
  /\ XStop(key) /\ key # 14
  /\ control_mode' = 0 /\ motor_shutdown' = 1 /\ motor_ready' = 0 /\ free_flag' = 1
  /\ Emergency_Stop_Output
  /\ UNCHANGED speed_rpm

DriveBranch(key) ==
  /\ ~XStop(key) /\ key # 14
  /\ control_mode' = IF key = 9 THEN 1 ELSE IF key = 10 THEN 0 ELSE control_mode
  /\ IF YStart(key)
     THEN motor_shutdown' = 0 /\ motor_ready' = 1 /\ free_flag' = 0 /\ brake_flag' = 0
     ELSE UNCHANGED <<motor_shutdown, motor_ready, free_flag, brake_flag>>
  /\ IF control_mode' = 0 /\ motor_ready' = 1 /\ motor_shutdown' = 0
     THEN IF sticks = "neutral"
          THEN Vcx' = NoCmd /\ Wc' = NoCmd
          ELSE Vcx' = <<"stick", speed_count'>> /\ Wc' = <<"stick", 0>>
     ELSE UNCHANGED <<Vcx, Wc>>
  /\ UNCHANGED <<set_spd, brake_last_current, frame, speed_rpm>>

Joystick_motor_control ==
  \E poll \in PollResults :
    /\ sticks' = poll[1] /\ PS2_KEY' = poll[2]
    /\ Joystick_v_set(poll[2])
    /\ BrakeBranch(poll[2]) \/ DisableBranch(poll[2]) \/ DriveBranch(poll[2])
    /\ UNCHANGED frc_ctrl_mode

-----------------------------------------------------------------------------
(* The status line, the host's commands, the KEY stop and the CAN feedback. *)

Serial_Output ==
  /\ frc_ctrl_mode' = IF motor_shutdown = 1 \/ brake_flag = 1 THEN 2
                      ELSE IF control_mode = 0 THEN 1 ELSE 0
  /\ UNCHANGED <<flags, pad, drive, speed_rpm>>

\* Mutant: the host is obeyed in either mode.
SerialInputAnyMode(v, w) ==
  /\ Vcx' = <<"host", v>> /\ Wc' = <<"host", w>>
  /\ UNCHANGED <<flags, set_spd, brake_last_current, frame, pad, speed_rpm, frc_ctrl_mode>>

(* sscanf of a buffer whose two numbers come from messages v and w. *)
Serial_Input(v, w) ==
  /\ IF control_mode = 1
     THEN Vcx' = <<"host", v>> /\ Wc' = <<"host", w>>
     ELSE UNCHANGED <<Vcx, Wc>>
  /\ UNCHANGED <<flags, set_spd, brake_last_current, frame, pad, speed_rpm, frc_ctrl_mode>>

KeyStop ==
  /\ Emergency_Stop_Output
  /\ UNCHANGED <<control_mode, motor_ready, motor_shutdown, free_flag,
                 pad, speed_rpm, frc_ctrl_mode>>

CanFeedback ==
  /\ speed_rpm' \in [Wheels -> Speeds]
  /\ UNCHANGED <<flags, pad, drive, frc_ctrl_mode>>

MotorNext ==
  \/ Speed_set
  \/ Joystick_motor_control
  \/ Serial_Output
  \/ \E v, w \in HostMsgs : Serial_Input(v, w)
  \/ KeyStop
  \/ CanFeedback

MotorSpec == MotorInit /\ [][MotorNext]_motorVars

-----------------------------------------------------------------------------
(* Properties. *)

\* Every variable keeps its type, and a brake current its range.
MotorTypeOK ==
  /\ control_mode \in Bit /\ motor_ready \in Bit /\ motor_shutdown \in Bit
  /\ free_flag \in Bit /\ brake_flag \in Bit
  /\ Vcx \in Cmds /\ Wc \in Cmds /\ set_spd \in Cmds \X Cmds
  /\ brake_last_current \in [Wheels -> Int]
  /\ speed_rpm \in [Wheels -> Speeds]
  /\ frame \in Frames
  /\ sticks \in StickClasses /\ PS2_KEY \in Keys
  /\ speed_count \in 0 .. max_count - 1 /\ flagg \in Bit
  /\ frc_ctrl_mode \in 0 .. 2

\* Joystick.c and Motor_Speed_pid.c set four flags in five places: whatever the
\* order of the buttons, motors that are ready are neither shut down, coasting
\* nor braking.
ReadyExcludesStops ==
  motor_ready = 1 => motor_shutdown = 0 /\ free_flag = 0 /\ brake_flag = 0

\* From an X, a B, a lost gamepad or the end of a brake until the next Y, no
\* wheel has a speed target, and the frame sent last does not drive to one.
NotReadyNotDriven == motor_ready = 0 => set_spd = Stopped

\* A vehicle driven by the gamepad never holds a host command, whatever the
\* host sent before, during or after the switch of mode.
GamepadHasAuthority ==
  control_mode = 0 /\ motor_ready = 1 => Vcx \notin HostCmds /\ Wc \notin HostCmds

\* The state a wheel's current is limited in: while the brake is latched no
\* wheel is asked for more than the high-speed limit.
BrakeCurrentLimited ==
  \A w \in Wheels : /\ brake_last_current[w] <= BRAKE_CURRENT_LIMIT
                    /\ brake_last_current[w] >= -BRAKE_CURRENT_LIMIT

\* Two consecutive brake frames, or the latch and the first one, differ by at
\* most one step per wheel, B held or not: the README's "rate-limits current
\* changes" and "holding B does not reset the current ramp".
BrakeRampContinuous ==
  [][frame' = "brake" /\ brake_last_current' # brake_last_current =>
       \A w \in Wheels :
         LET fresh  == brake_flag = 0 \/ (sticks = "lost" /\ PS2_KEY' = 14)
             before == IF fresh THEN 0 ELSE brake_last_current[w]
         IN  /\ brake_last_current'[w] - before <= BRAKE_CURRENT_STEP
             /\ before - brake_last_current'[w] <= BRAKE_CURRENT_STEP]_motorVars

\* The ramp may lag a wheel that reverses, so a brake current can for a moment
\* have the sign of the wheel's speed.  It then shrinks: no brake frame ever
\* pushes a wheel along its motion harder than the frame before it.
BrakeNeverAddsPush ==
  [][frame' = "brake" /\ brake_last_current' # brake_last_current =>
       \A w \in Wheels :
         /\ speed_rpm'[w] > 0 /\ brake_last_current'[w] > 0
              => brake_last_current'[w] < brake_last_current[w]
         /\ speed_rpm'[w] < 0 /\ brake_last_current'[w] < 0
              => brake_last_current'[w] > brake_last_current[w]]_motorVars

\* docs-EN/knowledge/frc.md: "ctrl_mode=2 means motor disabled or safety
\* takeover".  Here: a status line sent while the wheels coast says 2.
CoastingIsReported ==
  [][Serial_Output /\ free_flag = 1 => frc_ctrl_mode' = 2]_motorVars
=============================================================================
