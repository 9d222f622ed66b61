---------------------------- MODULE MCMotorControl ----------------------------
(* MotorControl with the constants of Motor_Speed_pid.c, for TLC. *)
EXTENDS MotorControl

\* Inside the stop band, in the low-speed band, and past the saturation of the
\* damping current (8000 / 12 = 667 rpm); both directions occur.
MCSpeeds == {-700, 0, 200}
===============================================================================
