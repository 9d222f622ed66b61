--------------------------- MODULE MCGpsRouteRunner ---------------------------
(* GpsRouteRunner for TLC. *)
EXTENDS GpsRouteRunner

\* One step of the vehicle is 1.  A jump by 1 is consistent until the alignment
\* shifts too; one by 3 is beyond every threshold.
MCJumps == {1, 3}
MCOffsets == {0, 1}
===============================================================================
