---------------------------- MODULE MCClockWalks -----------------------------
(* SimClockControlWalks on two jobs, a and b, and one test.                  *)
EXTENDS SimClockControlWalks, MCClockControl
=============================================================================
