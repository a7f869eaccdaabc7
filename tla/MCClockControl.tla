--------------------------- MODULE MCClockControl ----------------------------
(* SimClockControl on two jobs, a and b, and one or two tests.               *)
EXTENDS SimClockControl

CONSTANTS a, b, t, u

(* The instants callers ask for, and the delays jobs ask for.                *)
Zero == {0}
One == {1}
Four == {4}
Soon == {0, 1}
Later == {1, 2}
Three == {3}
OneThree == {1, 3}
=============================================================================
