------------------------- MODULE LowerControllerProofs -------------------------
(***************************************************************************)
(* The program of the lower controller implements MotorControl, so every   *)
(* theorem about the tasks in any order holds of the loop with its         *)
(* interrupts; and what is proved of the loop itself, to the end of a KEY  *)
(* stop and of the wait of a message.                                      *)
(***************************************************************************)
EXTENDS LowerController, MotorControlProofs

\* The loop's own part of TypeOK.
LoopTypeOK ==
  /\ pc \in Places
  /\ Waiting \in [Tasks -> Nat]
  /\ \A t \in Tasks : Waiting[t] <= Period[t]
  /\ stop_flag \in Bit /\ new_serial_data_received \in Bit
  /\ UART1_RX_Buffer \in HostMsgs \union {Empty}
  /\ temp_vcx \in HostMsgs \union {Empty}
  /\ pc = "parse" => control_mode = 1 /\ temp_vcx # Empty /\ UART1_RX_Buffer # Empty

\* While the second number is read, a buffer that is no longer the one the
\* first number came from has been flagged again.
OverwriteIsFlagged ==
  pc = "parse" => temp_vcx = UART1_RX_Buffer \/ new_serial_data_received = 1

LoopInv == MotorInv /\ LoopTypeOK /\ OverwriteIsFlagged

-----------------------------------------------------------------------------
\* One step of the loop or of an interrupt is one step of MotorControl, or none.
LEMMA StepIsMotorStep == LoopTypeOK /\ [Next]_vars => [MotorNext]_motorVars
<1> SUFFICES ASSUME LoopTypeOK, [Next]_vars PROVE [MotorNext]_motorVars
  OBVIOUS
<1>1. CASE MainLoop
  <2>1. CASE LoopTop
    BY <2>1 DEF LoopTop, MotorNext
  <2>2. ASSUME NEW t \in Tasks, RunTask(t) PROVE MotorNext
    BY <2>2 DEF RunTask, MotorNext
  <2>3. ASSUME NEW t \in Tasks, SkipTask(t) PROVE UNCHANGED motorVars
    BY <2>3 DEF SkipTask
  <2>4. CASE SerialCheck
    BY <2>4 DEF SerialCheck
  <2>5. CASE SerialParse
    BY <2>5 DEF SerialParse, MotorNext, LoopTypeOK
  <2> QED BY <1>1, <2>1, <2>2, <2>3, <2>4, <2>5 DEF MainLoop
<1>2. CASE Interrupt
  BY <1>2 DEF Interrupt, TaskCheck, KeyPressed, UartIdle, RxCplt, Feedback, MotorNext
<1>3. CASE UNCHANGED vars
  BY <1>3 DEF vars
<1> QED BY <1>1, <1>2, <1>3 DEF Next

LEMMA LoopInitInv == Init => LoopInv
<1> SUFFICES ASSUME Init PROVE LoopInv
  OBVIOUS
<1>1. MotorInv
  BY MotorInitInv DEF Init
<1>2. LoopTypeOK /\ OverwriteIsFlagged
  BY PeriodAssumption DEF Init, LoopTypeOK, OverwriteIsFlagged, Places, Bit, Empty
<1> QED BY <1>1, <1>2 DEF LoopInv

\* The steps of the main loop.
LEMMA MainLoopInv == LoopInv /\ MainLoop => LoopTypeOK' /\ OverwriteIsFlagged'
<1> SUFFICES ASSUME LoopInv, MainLoop PROVE LoopTypeOK' /\ OverwriteIsFlagged'
  OBVIOUS
<1> USE DEF LoopInv, LoopTypeOK, OverwriteIsFlagged
<1>1. CASE LoopTop
  BY <1>1 DEF LoopTop, Places
<1>2. ASSUME NEW t \in Tasks, RunTask(t) PROVE LoopTypeOK' /\ OverwriteIsFlagged'
  <2>1. pc' \in Places /\ pc' # "parse" /\ pc # "parse"
    BY <1>2 DEF RunTask, After, Tasks, Places
  <2>2. Waiting' \in [Tasks -> Nat] /\ \A u \in Tasks : Waiting'[u] <= Period[u]
    <3>1. Waiting' = [Waiting EXCEPT ![t] = Period[t]]
      BY <1>2 DEF RunTask
    <3>2. \A u \in Tasks : Period[u] \in Nat
      BY PeriodAssumption
    <3>3. \A u \in Tasks : Waiting'[u] = IF u = t THEN Period[u] ELSE Waiting[u]
      BY <3>1
    <3>4. Waiting' \in [Tasks -> Nat]
      BY <3>1, <3>2, <1>2
    <3> QED BY <3>2, <3>3, <3>4
  <2> QED BY <1>2, <2>1, <2>2 DEF RunTask
<1>3. ASSUME NEW t \in Tasks, SkipTask(t) PROVE LoopTypeOK' /\ OverwriteIsFlagged'
  <2>1. pc' \in Places /\ pc' # "parse" /\ pc # "parse"
    BY <1>3 DEF SkipTask, After, Tasks, Places
  <2> QED BY <1>3, <2>1 DEF SkipTask
<1>4. CASE SerialCheck
  BY <1>4 DEF SerialCheck, Places, Bit, motorVars, flags
<1>5. CASE SerialParse
  BY <1>5 DEF SerialParse, Places
<1> QED BY <1>1, <1>2, <1>3, <1>4, <1>5 DEF MainLoop

\* The interrupts.
LEMMA InterruptInv == LoopInv /\ Interrupt => LoopTypeOK' /\ OverwriteIsFlagged'
<1> SUFFICES ASSUME LoopInv, Interrupt PROVE LoopTypeOK' /\ OverwriteIsFlagged'
  OBVIOUS
<1> USE DEF LoopInv, LoopTypeOK, OverwriteIsFlagged
<1>1. CASE TaskCheck
  <2>1. Waiting' \in [Tasks -> Nat] /\ \A t \in Tasks : Waiting'[t] <= Period[t]
    BY <1>1, PeriodAssumption DEF TaskCheck
  <2> QED BY <1>1, <2>1 DEF TaskCheck, motorVars, flags
<1>2. CASE KeyPressed
  BY <1>2 DEF KeyPressed, Bit, motorVars, flags
<1>3. CASE UartIdle
  BY <1>3, EmptyAssumption DEF UartIdle, Bit, motorVars, flags
<1>4. CASE RxCplt
  BY <1>4 DEF RxCplt, Bit, motorVars, flags
<1>5. CASE Feedback
  BY <1>5 DEF Feedback, CanFeedback, loopVars, flags
<1> QED BY <1>1, <1>2, <1>3, <1>4, <1>5 DEF Interrupt

\* The strengthening holds of every behaviour of the program.
THEOREM LoopInvariant == Spec => []LoopInv
<1>1. Init => LoopInv
  BY LoopInitInv
<1>2. LoopInv /\ [Next]_vars => LoopInv'
  <2> SUFFICES ASSUME LoopInv, [Next]_vars PROVE LoopInv'
    OBVIOUS
  <2>1. MotorInv'
    BY StepIsMotorStep, MotorStepInv DEF LoopInv
  <2>2. CASE MainLoop
    BY <2>1, <2>2, MainLoopInv DEF LoopInv
  <2>3. CASE Interrupt
    BY <2>1, <2>3, InterruptInv DEF LoopInv
  <2>4. CASE UNCHANGED vars
    BY <2>1, <2>4 DEF vars, loopVars, motorVars, flags, LoopInv, LoopTypeOK, OverwriteIsFlagged
  <2> QED BY <2>2, <2>3, <2>4 DEF Next
<1> QED BY <1>1, <1>2, PTL DEF Spec

\* Types of the whole program, for every period and every set of messages.
THEOREM TypeCorrect == Spec => []TypeOK
<1>1. LoopInv => TypeOK
  BY DEF LoopInv, LoopTypeOK, MotorInv, TypeOK
<1> QED BY <1>1, LoopInvariant, PTL

\* The loop and its interrupts implement the tasks in any order.
THEOREM TasksAreAtomicHolds == Spec => TasksAreAtomic
<1>1. Init => MotorInit
  BY DEF Init
<1>2. LoopInv /\ [Next]_vars => [MotorNext]_motorVars
  BY StepIsMotorStep DEF LoopInv
<1> QED BY <1>1, <1>2, LoopInvariant, PTL DEF Spec, TasksAreAtomic, MotorSpec

\* Hence what is proved of the motor side holds of the program: the gamepad's
\* authority over the host, the promises about the brake and a lost gamepad.
COROLLARY ProgramKeepsMotorProperties ==
  Spec => /\ []ReadyExcludesStops /\ []NotReadyNotDriven /\ []GamepadHasAuthority
          /\ []BrakeCurrentLimited
          /\ BrakeRampContinuous /\ BrakeNeverAddsPush /\ LostPadDisarms
BY TasksAreAtomicHolds, ReadyExcludesStopsHolds, NotReadyNotDrivenHolds,
   GamepadHasAuthorityHolds, BrakeCurrentLimitedHolds,
   BrakeRampContinuousHolds, BrakeNeverAddsPushHolds, LostPadDisarmsHolds, PTL DEF TasksAreAtomic

\* A command made of two messages leaves the flag raised: it is parsed again.
THEOREM TornCommandIsReparsedHolds == Spec => TornCommandIsReparsed
<1>1. ASSUME LoopInv, [Next]_vars
      PROVE  [Torn' /\ ~Torn => new_serial_data_received' = 1]_vars
  <2> SUFFICES ASSUME Next, Torn', ~Torn PROVE new_serial_data_received' = 1
    BY <1>1
  <2>1. NoCmd \notin HostCmds /\ \A level : <<"stick", level>> \notin HostCmds
    BY DEF NoCmd, HostCmds
  <2>2. ~ UNCHANGED <<Vcx, Wc>>
    BY DEF Torn
  <2>3. ASSUME Emergency_Stop_Output \/ Joystick_motor_control \/ Speed_set PROVE FALSE
    <3>1. CASE Emergency_Stop_Output
      BY <2>1, <3>1 DEF Emergency_Stop_Output, Torn
    <3>2. CASE Speed_set
      BY <2>1, <2>2, <3>1, <3>2 DEF Speed_set, Active_Brake_Output, Torn
    <3>3. CASE Joystick_motor_control
      <4>1. PICK poll \in PollResults :
              BrakeBranch(poll[2]) \/ DisableBranch(poll[2]) \/ DriveBranch(poll[2])
        BY <3>3 DEF Joystick_motor_control
      <4>2. Vcx' = NoCmd \/ Vcx' = <<"stick", speed_count'>> \/ UNCHANGED <<Vcx, Wc>>
        BY <4>1 DEF BrakeBranch, DisableBranch, DriveBranch, Emergency_Stop_Output,
           Active_Brake_Output
      <4> QED BY <2>1, <2>2, <4>2 DEF Torn
    <3> QED BY <2>3, <3>1, <3>2, <3>3
  <2>4. CASE SerialParse
    <3>1. \/ Vcx' = <<"host", temp_vcx>> /\ Wc' = <<"host", UART1_RX_Buffer>>
          \/ UNCHANGED <<Vcx, Wc>>
      BY <2>4 DEF SerialParse, Serial_Input
    <3>2. temp_vcx # UART1_RX_Buffer
      BY <2>2, <3>1 DEF Torn
    <3> QED BY <1>1, <2>4, <3>2 DEF SerialParse, LoopInv, OverwriteIsFlagged
  <2>5. CASE MainLoop
    <3>1. CASE LoopTop
      BY <2>2, <2>3, <3>1 DEF LoopTop, KeyStop, motorVars, drive
    <3>2. ASSUME NEW t \in Tasks, RunTask(t) PROVE FALSE
      BY <2>2, <2>3, <3>2 DEF RunTask, Serial_Output, drive
    <3>3. ASSUME NEW t \in Tasks, SkipTask(t) PROVE FALSE
      BY <2>2, <3>3 DEF SkipTask, motorVars, drive
    <3>4. CASE SerialCheck
      BY <2>2, <3>4 DEF SerialCheck, motorVars, drive
    <3> QED BY <2>4, <2>5, <3>1, <3>2, <3>3, <3>4 DEF MainLoop
  <2>6. CASE Interrupt
    BY <2>2, <2>6 DEF Interrupt, TaskCheck, KeyPressed, UartIdle, RxCplt, Feedback,
       CanFeedback, motorVars, drive
  <2> QED BY <2>5, <2>6 DEF Next
<1> QED BY <1>1, LoopInvariant, PTL DEF Spec, TornCommandIsReparsed

-----------------------------------------------------------------------------
(* Liveness.  The provers cannot evaluate ENABLED: that the loop can take a  *)
(* step that is not a stutter, except where it waits at its top after KEY    *)
(* with everything already zero, is a hypothesis.                            *)
Still == frame = "zero" /\ Vcx = NoCmd /\ set_spd = Stopped

LoopIsEnabled == [](pc # "top" \/ stop_flag = 0 \/ ~Still => ENABLED <<MainLoop>>_vars)

\* Where a step of the loop leads: round by the three tasks and the serial check.
Onward(p) == CASE p = "top"    -> {"Serial_Output"}
               [] p \in Tasks  -> {After(p)}
               [] p = "serial" -> {"parse", "top"}
               [] p = "parse"  -> {"top"}

LEMMA LoopMoves ==
  LoopTypeOK /\ MainLoop
    => /\ stop_flag' = stop_flag
       /\ new_serial_data_received' = IF pc = "serial" THEN 0 ELSE new_serial_data_received
       /\ IF pc = "top" /\ stop_flag = 1 THEN pc' = "top" /\ Still' ELSE pc' \in Onward(pc)
<1> SUFFICES ASSUME LoopTypeOK, MainLoop
    PROVE /\ stop_flag' = stop_flag
          /\ new_serial_data_received' = IF pc = "serial" THEN 0 ELSE new_serial_data_received
          /\ IF pc = "top" /\ stop_flag = 1 THEN pc' = "top" /\ Still' ELSE pc' \in Onward(pc)
  OBVIOUS
<1> USE DEF Onward, Tasks
<1>1. CASE LoopTop
  BY <1>1 DEF LoopTop, KeyStop, Emergency_Stop_Output, Still
<1>2. ASSUME NEW t \in Tasks, RunTask(t) \/ SkipTask(t)
      PROVE  /\ pc = t /\ pc' = After(t)
             /\ UNCHANGED <<stop_flag, new_serial_data_received>>
  BY <1>2 DEF RunTask, SkipTask
<1>3. CASE SerialCheck
  BY <1>3 DEF SerialCheck, LoopTypeOK, Bit
<1>4. CASE SerialParse
  BY <1>4 DEF SerialParse
<1> QED BY <1>1, <1>2, <1>3, <1>4 DEF MainLoop

LEMMA InterruptStays ==
  Interrupt \/ UNCHANGED vars
    => /\ UNCHANGED <<pc, frame, Vcx, set_spd>>
       /\ stop_flag' \in {stop_flag, 1}
       /\ new_serial_data_received' \in {new_serial_data_received, 1}
BY DEF Interrupt, TaskCheck, KeyPressed, UartIdle, RxCplt, Feedback, CanFeedback, vars,
       loopVars, motorVars, drive

\* KEY was pressed and the loop is at p; it came round and everything is zero.
Stopping(p) == stop_flag = 1 /\ pc = p
GoneOn(p)   == \E q \in Onward(p) : Stopping(q)
GoesOn(p)   == Stopping(p) ~> GoneOn(p)
Halted      == Stopping("top") /\ Still

LEMMA StoppingStep ==
  ASSUME NEW p \in Places, LoopTypeOK, Stopping(p), [Next]_vars
  PROVE  /\ Stopping(p)' \/ (p # "top" /\ GoneOn(p)')
         /\ MainLoop => IF p = "top" THEN Halted' ELSE GoneOn(p)'
         /\ Halted => Halted'
<1>1. ASSUME Interrupt \/ UNCHANGED vars PROVE Stopping(p)' /\ (Halted => Halted')
  BY <1>1, InterruptStays DEF Stopping, Halted, Still
<1>2. ASSUME MainLoop
      PROVE  IF p = "top" THEN Halted' ELSE GoneOn(p)'
  BY <1>2, LoopMoves DEF GoneOn, Stopping, Halted
<1>3. Halted' => Stopping("top")'
  BY DEF Halted
<1>4. ASSUME MainLoop, pc # "top" PROVE ~Halted
  BY <1>4 DEF Halted, Stopping
<1>5. p = pc
  BY DEF Stopping
<1> QED BY <1>1, <1>2, <1>3, <1>4, <1>5 DEF Next

\* With KEY pressed the loop at p comes to its next place.
LEMMA StoppingGoesOn ==
  ASSUME NEW p \in Places, p # "top"
  PROVE  Spec /\ LoopIsEnabled => GoesOn(p)
<1>1. LoopInv /\ Stopping(p) /\ [Next]_vars
        => Stopping(p)' \/ GoneOn(p)'
  BY StoppingStep DEF LoopInv
<1>2. LoopInv /\ Stopping(p) /\ [Next]_vars /\ <<MainLoop>>_vars
        => GoneOn(p)'
  BY StoppingStep DEF LoopInv
<1>3. Stopping(p) => pc # "top"
  BY DEF Stopping
<1> QED BY <1>1, <1>2, <1>3, LoopInvariant, PTL DEF Spec, Fairness, LoopIsEnabled, GoesOn

\* KEY stops for good: from wherever the loop is it comes round to its top,
\* zeroes the currents, the command and the targets, and nothing that follows
\* changes them (main.c, the stop_flag branch of the loop).
THEOREM KeyStopsForGoodHolds == Spec /\ LoopIsEnabled => KeyStopsForGood
<1>1. Spec /\ LoopIsEnabled
        => /\ Stopping("Serial_Output") ~> Stopping("Speed_set")
           /\ Stopping("Speed_set") ~> Stopping("Joystick")
           /\ Stopping("Joystick") ~> Stopping("serial")
           /\ Stopping("serial") ~> (Stopping("parse") \/ Stopping("top"))
           /\ Stopping("parse") ~> Stopping("top")
  <2>1. GoneOn("Serial_Output") <=> Stopping("Speed_set")
    BY DEF GoneOn, Onward, Tasks, After
  <2>2. GoneOn("Speed_set") <=> Stopping("Joystick")
    BY DEF GoneOn, Onward, Tasks, After
  <2>3. GoneOn("Joystick") <=> Stopping("serial")
    BY DEF GoneOn, Onward, Tasks, After
  <2>4. GoneOn("serial") <=> Stopping("parse") \/ Stopping("top")
    BY DEF GoneOn, Onward, Tasks
  <2>5. GoneOn("parse") <=> Stopping("top")
    BY DEF GoneOn, Onward, Tasks
  <2>6. ASSUME NEW p \in Places \ {"top"}
        PROVE  Spec /\ LoopIsEnabled => GoesOn(p)
    BY StoppingGoesOn
  <2>7. Spec /\ LoopIsEnabled
          => /\ GoesOn("Serial_Output") /\ GoesOn("Speed_set") /\ GoesOn("Joystick")
             /\ GoesOn("serial") /\ GoesOn("parse")
    BY <2>6 DEF Places
  <2> QED BY <2>1, <2>2, <2>3, <2>4, <2>5, <2>7, PTL DEF GoesOn
<1>2. LoopInv /\ Stopping("top") /\ [Next]_vars => Stopping("top")'
  BY StoppingStep DEF LoopInv, Places
<1>3. LoopInv /\ Stopping("top") /\ [Next]_vars /\ <<MainLoop>>_vars => Halted'
  BY StoppingStep DEF LoopInv, Places
<1>4. LoopInv /\ Halted /\ [Next]_vars => Halted'
  BY StoppingStep DEF LoopInv, Places, Halted
<1>5. Stopping("top") /\ ~Halted => ~Still
  BY DEF Halted
<1>6. LoopInv /\ stop_flag = 1
        => \/ Stopping("top") \/ Stopping("Serial_Output") \/ Stopping("Speed_set")
           \/ Stopping("Joystick") \/ Stopping("serial") \/ Stopping("parse")
  BY DEF LoopInv, LoopTypeOK, Places, Stopping
<1>7. Halted => Still
  BY DEF Halted
<1>8. Spec /\ LoopIsEnabled => (Stopping("top") ~> Halted)
  BY <1>2, <1>3, <1>5, LoopInvariant, PTL DEF Spec, Fairness, LoopIsEnabled
<1>9. Spec => [](Halted => []Still)
  BY <1>4, <1>7, LoopInvariant, PTL DEF Spec
<1>10. Spec /\ LoopIsEnabled => ((stop_flag = 1) ~> []Still)
  BY <1>1, <1>6, <1>8, <1>9, LoopInvariant, PTL
<1> QED BY <1>10, PTL DEF KeyStopsForGood, Still

\* A flagged message waits while the loop is at p; it has been looked at.
Flagged(p)  == new_serial_data_received = 1 /\ stop_flag = 0 /\ pc = p
LookedAt    == new_serial_data_received = 0 \/ stop_flag = 1
Nearer(p)   == LookedAt \/ \E q \in Onward(p) : Flagged(q)
ComesOn(p)  == Flagged(p) ~> Nearer(p)

LEMMA FlaggedStep ==
  ASSUME NEW p \in Places, LoopTypeOK, Flagged(p), [Next]_vars
  PROVE  /\ Flagged(p)' \/ Nearer(p)'
         /\ MainLoop => Nearer(p)'
         /\ MainLoop /\ p = "serial" => LookedAt'
<1>1. ASSUME Interrupt \/ UNCHANGED vars PROVE Flagged(p)' \/ Nearer(p)'
  BY <1>1, InterruptStays DEF Flagged, Nearer, LookedAt
<1>2. ASSUME MainLoop PROVE Nearer(p)' /\ (p = "serial" => LookedAt')
  BY <1>2, LoopMoves DEF Flagged, Nearer, LookedAt
<1> QED BY <1>1, <1>2 DEF Next

LEMMA FlaggedComesOn ==
  ASSUME NEW p \in Places
  PROVE  Spec /\ LoopIsEnabled => ComesOn(p)
<1>1. LoopInv /\ Flagged(p) /\ [Next]_vars => Flagged(p)' \/ Nearer(p)'
  BY FlaggedStep DEF LoopInv
<1>2. LoopInv /\ Flagged(p) /\ [Next]_vars /\ <<MainLoop>>_vars => Nearer(p)'
  BY FlaggedStep DEF LoopInv
<1>3. Flagged(p) => stop_flag = 0
  BY DEF Flagged
<1> QED BY <1>1, <1>2, <1>3, LoopInvariant, PTL DEF Spec, Fairness, LoopIsEnabled, ComesOn

\* A message the interrupt flagged is looked at, wherever the loop is when it
\* comes and however many follow it, unless KEY stops the loop (main.c, the
\* check of new_serial_data_received after the tasks).
THEOREM MessageIsLookedAtHolds == Spec /\ LoopIsEnabled => MessageIsLookedAt
<1>1. /\ Nearer("parse") => LookedAt \/ Flagged("top")
      /\ Nearer("top") => LookedAt \/ Flagged("Serial_Output")
      /\ Nearer("Serial_Output") => LookedAt \/ Flagged("Speed_set")
      /\ Nearer("Speed_set") => LookedAt \/ Flagged("Joystick")
      /\ Nearer("Joystick") => LookedAt \/ Flagged("serial")
  BY DEF Nearer, Onward, Tasks, After
<1>2. ASSUME NEW p \in Places PROVE Spec /\ LoopIsEnabled => ComesOn(p)
  BY FlaggedComesOn
<1>3. Spec /\ LoopIsEnabled
        => /\ ComesOn("parse") /\ ComesOn("top") /\ ComesOn("Serial_Output")
           /\ ComesOn("Speed_set") /\ ComesOn("Joystick")
  BY <1>2 DEF Places
<1>4. LoopInv /\ Flagged("serial") /\ [Next]_vars => Flagged("serial")' \/ LookedAt'
  <2>1. ASSUME LoopInv, Flagged("serial"), Interrupt \/ UNCHANGED vars
        PROVE  Flagged("serial")' \/ LookedAt'
    BY <2>1, InterruptStays DEF Flagged, LookedAt
  <2> QED BY <2>1, FlaggedStep DEF LoopInv, Places, Next
<1>5. LoopInv /\ Flagged("serial") /\ [Next]_vars /\ <<MainLoop>>_vars => LookedAt'
  BY FlaggedStep DEF LoopInv, Places
<1>6. Flagged("serial") => stop_flag = 0
  BY DEF Flagged
<1>7. Spec /\ LoopIsEnabled => (Flagged("serial") ~> LookedAt)
  BY <1>4, <1>5, <1>6, LoopInvariant, PTL DEF Spec, Fairness, LoopIsEnabled
<1>8. LoopInv => \/ LookedAt \/ Flagged("parse") \/ Flagged("top") \/ Flagged("Serial_Output")
                 \/ Flagged("Speed_set") \/ Flagged("Joystick") \/ Flagged("serial")
  BY DEF LoopInv, LoopTypeOK, Places, Bit, LookedAt, Flagged
<1>9. Spec /\ LoopIsEnabled => []<>LookedAt
  BY <1>1, <1>3, <1>7, <1>8, LoopInvariant, PTL DEF ComesOn
<1> QED BY <1>9, PTL DEF MessageIsLookedAt, LookedAt
================================================================================
