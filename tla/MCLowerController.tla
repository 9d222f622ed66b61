-------------------------- MODULE MCLowerController --------------------------
(* LowerController for TLC. *)
EXTENDS LowerController

MCSpeeds == {0, 700}

\* The gamepad task runs at half the rate of the wheel task (10 and 5 ticks),
\* the status line at the gamepad's; one model tick is five of TIM8.
MCPeriod == [t \in Tasks |-> IF t = "Speed_set" THEN 1 ELSE 2]
==============================================================================
