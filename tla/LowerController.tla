--------------------------- MODULE LowerController ---------------------------
(***************************************************************************)
(* The lower controller's program (main.c, Task.c, usart.c, stm32f4xx_it.c):*)
(* the super loop that runs MotorControl's tasks when their waiting time   *)
(* is over, and the interrupts that fall between any two of its steps:     *)
(* TIM8's tick, the KEY button, the USART of the host, the CAN feedback.   *)
(*                                                                         *)
(* The loop is one thread: a task runs to its end.  The one exception the  *)
(* state shows is the receive buffer, which the USART interrupt overwrites *)
(* while sscanf reads it: the parse is two steps, one per number.          *)
(***************************************************************************)
EXTENDS MotorControl

CONSTANTS
  Period     \* Waiting value a task is given when it runs, in ticks of TIM8

Tasks == {"Serial_Output", "Speed_set", "Joystick"}

ASSUME PeriodAssumption == Period \in [Tasks -> Nat]

VARIABLES
  pc,                        \* where the main loop is
  Waiting,                   \* ticks until each task is due again
  stop_flag,                 \* 1 once KEY was pressed, never reset
  UART1_RX_Buffer,           \* the message last copied from the DMA buffer
  new_serial_data_received,  \* 1: the loop has a buffer to parse
  temp_vcx                   \* the first number, while sscanf reads the second

loopVars == <<pc, Waiting, stop_flag, UART1_RX_Buffer, new_serial_data_received, temp_vcx>>
vars == <<motorVars, loopVars>>

Empty == "empty"    \* nothing received yet: no number can be parsed

ASSUME EmptyAssumption == Empty \notin HostMsgs

Places == {"top", "Serial_Output", "Speed_set", "Joystick", "serial", "parse"}

Init ==
  /\ MotorInit
  /\ pc = "top"
  /\ Waiting = [t \in Tasks |-> 0]
  /\ stop_flag = 0
  /\ UART1_RX_Buffer = Empty /\ new_serial_data_received = 0 /\ temp_vcx = Empty

-----------------------------------------------------------------------------
(* The main loop. *)

\* Mutant: the loop never gets to the serial check.
AfterSkipsSerial(t) == CASE t = "Serial_Output" -> "Speed_set"
                         [] t = "Speed_set"     -> "Joystick"
                         [] t = "Joystick"      -> "top"

After(t) == CASE t = "Serial_Output" -> "Speed_set"
              [] t = "Speed_set"     -> "Joystick"
              [] t = "Joystick"      -> "serial"

\* while (1): the KEY branch sends zero current and starts over.
LoopTop ==
  /\ pc = "top"
  /\ \/ stop_flag = 1 /\ KeyStop /\ UNCHANGED pc
     \/ stop_flag = 0 /\ pc' = "Serial_Output" /\ UNCHANGED motorVars
  /\ UNCHANGED <<Waiting, stop_flag, UART1_RX_Buffer, new_serial_data_received, temp_vcx>>

\* TaskRun, one task of it: a task that is due runs and waits for its period.
RunTask(t) ==
  /\ pc = t /\ pc' = After(t)
  /\ Waiting[t] = 0
  /\ Waiting' = [Waiting EXCEPT ![t] = Period[t]]
  /\ \/ t = "Serial_Output" /\ Serial_Output
     \/ t = "Speed_set" /\ Speed_set
     \/ t = "Joystick" /\ Joystick_motor_control
  /\ UNCHANGED <<stop_flag, UART1_RX_Buffer, new_serial_data_received, temp_vcx>>

SkipTask(t) ==
  /\ pc = t /\ pc' = After(t)
  /\ Waiting[t] > 0
  /\ UNCHANGED <<motorVars, Waiting, stop_flag, UART1_RX_Buffer,
                 new_serial_data_received, temp_vcx>>

\* if (new_serial_data_received): Serial_Input up to the first number.
SerialCheck ==
  /\ pc = "serial"
  /\ IF new_serial_data_received = 1
     THEN /\ new_serial_data_received' = 0
          /\ IF control_mode = 1 /\ UART1_RX_Buffer # Empty
             THEN pc' = "parse" /\ temp_vcx' = UART1_RX_Buffer
             ELSE pc' = "top" /\ UNCHANGED temp_vcx
     ELSE pc' = "top" /\ UNCHANGED <<new_serial_data_received, temp_vcx>>
  /\ UNCHANGED <<motorVars, Waiting, stop_flag, UART1_RX_Buffer>>

\* Mutants: the flag is cleared after the parse; the parse sets the wheel targets.
ParseThenClear ==
  /\ pc = "parse" /\ pc' = "top"
  /\ Serial_Input(temp_vcx, UART1_RX_Buffer)
  /\ temp_vcx' = Empty /\ new_serial_data_received' = 0
  /\ UNCHANGED <<Waiting, stop_flag, UART1_RX_Buffer>>

ParseDrivesAtOnce ==
  /\ pc = "parse" /\ pc' = "top"
  /\ Vcx' = <<"host", temp_vcx>> /\ Wc' = <<"host", UART1_RX_Buffer>>
  /\ set_spd' = <<Vcx', Wc'>>
  /\ temp_vcx' = Empty
  /\ UNCHANGED <<flags, brake_last_current, frame, pad, speed_rpm, frc_ctrl_mode,
                 Waiting, stop_flag, UART1_RX_Buffer, new_serial_data_received>>

\* The second number, then both assignments.
SerialParse ==
  /\ pc = "parse" /\ pc' = "top"
  /\ Serial_Input(temp_vcx, UART1_RX_Buffer)
  /\ temp_vcx' = Empty
  /\ UNCHANGED <<Waiting, stop_flag, UART1_RX_Buffer, new_serial_data_received>>

MainLoop ==
  \/ LoopTop
  \/ \E t \in Tasks : RunTask(t) \/ SkipTask(t)
  \/ SerialCheck
  \/ SerialParse

-----------------------------------------------------------------------------
(* The interrupts.  None changes what another interrupt or MainLoop reads    *)
(* except through the variables named here.                                  *)

\* Mutant: the waiting time is decremented without a test for 0 (an 8-bit wrap).
TaskCheckWraps ==
  /\ \E t \in Tasks : Waiting[t] > 0
  /\ Waiting' = [t \in Tasks |-> (Waiting[t] + 255) % 256]
  /\ UNCHANGED <<motorVars, pc, stop_flag, UART1_RX_Buffer, new_serial_data_received, temp_vcx>>

\* TIM8, once per millisecond: TaskCheck.
TaskCheck ==
  /\ \E t \in Tasks : Waiting[t] > 0
  /\ Waiting' = [t \in Tasks |-> IF Waiting[t] > 0 THEN Waiting[t] - 1 ELSE 0]
  /\ UNCHANGED <<motorVars, pc, stop_flag, UART1_RX_Buffer, new_serial_data_received, temp_vcx>>

\* Mutant: a second press releases the stop.
KeyToggles ==
  /\ stop_flag' = 1 - stop_flag
  /\ UNCHANGED <<motorVars, pc, Waiting, UART1_RX_Buffer, new_serial_data_received, temp_vcx>>

\* EXTI0: the KEY button.
KeyPressed ==
  /\ stop_flag' = 1
  /\ UNCHANGED <<motorVars, pc, Waiting, UART1_RX_Buffer, new_serial_data_received, temp_vcx>>

\* USART1 idle line: a message is complete and is copied out.
UartIdle ==
  /\ \E m \in HostMsgs : UART1_RX_Buffer' = m
  /\ new_serial_data_received' = 1
  /\ UNCHANGED <<motorVars, pc, Waiting, stop_flag, temp_vcx>>

\* The DMA buffer filled up before the line went idle: the flag is raised, the
\* loop's buffer keeps the message before.
RxCplt ==
  /\ new_serial_data_received' = 1
  /\ UNCHANGED <<motorVars, pc, Waiting, stop_flag, UART1_RX_Buffer, temp_vcx>>

Feedback == CanFeedback /\ UNCHANGED loopVars

Interrupt == TaskCheck \/ KeyPressed \/ UartIdle \/ RxCplt \/ Feedback

Next == MainLoop \/ Interrupt

\* The loop never stops and TIM8 never does; the rest is the environment.
Fairness == WF_vars(MainLoop) /\ WF_vars(TaskCheck)

Spec == Init /\ [][Next]_vars /\ Fairness

-----------------------------------------------------------------------------
(* Properties. *)

\* Every variable of the loop keeps its type, and a message is being parsed
\* only while the host commands.
TypeOK ==
  /\ MotorTypeOK
  /\ pc \in Places
  /\ Waiting \in [Tasks -> Nat]
  /\ \A t \in Tasks : Waiting[t] <= Period[t]
  /\ stop_flag \in Bit /\ new_serial_data_received \in Bit
  /\ UART1_RX_Buffer \in HostMsgs \union {Empty}
  /\ temp_vcx \in HostMsgs \union {Empty}
  /\ pc = "parse" => /\ control_mode = 1
                     /\ temp_vcx # Empty /\ UART1_RX_Buffer # Empty

\* Every step of the loop and of an interrupt is a step of MotorControl, so
\* what holds of the tasks in any order holds of the program.
TasksAreAtomic == MotorSpec

Torn == Vcx \in HostCmds /\ Wc \in HostCmds /\ Vcx # Wc

\* The interrupt can replace the buffer between the two numbers.  A command of
\* two halves is then not left alone: the same interrupt raised the flag again,
\* so the loop looks at the buffer once more.  (That parse may be torn in turn by
\* yet another message, or dropped when the mode has changed.)
TornCommandIsReparsed ==
  [][Torn' /\ ~Torn => new_serial_data_received' = 1]_vars

\* KEY: whatever the loop was doing, zero-current frames follow and nothing
\* else does ever again.
KeyStopsForGood == (stop_flag = 1) ~> [](frame = "zero" /\ Vcx = NoCmd /\ set_spd = Stopped)

\* A message flagged by the interrupt is looked at, unless KEY stopped the loop.
MessageIsLookedAt ==
  (new_serial_data_received = 1) ~> (new_serial_data_received = 0 \/ stop_flag = 1)

\* A lost gamepad: once its bytes are read, the motors are shut down, or braked
\* by a B that the gamepad sent after it came back.
LostPadDisables ==
  (sticks = "lost") ~> (motor_shutdown = 1 \/ brake_flag = 1 \/ free_flag = 1 \/ stop_flag = 1)
=============================================================================
