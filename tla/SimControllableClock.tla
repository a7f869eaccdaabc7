------------------------ MODULE SimControllableClock ------------------------
(* The clock of one simulation: a mode over the clock underneath it.         *)
(*                                                                           *)
(* util/clock/sim-clock.ts, sim-clock-mode.ts, sim-controllable-clock.ts.    *)
(* An instant is an integer number of milliseconds, at the grain the         *)
(* instances choose.  The clock underneath (SimRealClock or SimFixedClock)   *)
(* is the variable base; it moves by itself only when BaseAdvances.          *)
EXTENDS Integers

CONSTANTS
    BaseAdvances,  \* whether the clock underneath moves by itself
    MaxBase        \* bound: how far the clock underneath is followed

ASSUME ClockAssumption ==
    /\ BaseAdvances \in BOOLEAN
    /\ MaxBase \in Nat

VARIABLES
    base,  \* what the clock underneath reads
    mode   \* SimFrozenClockMode(at) or SimRunningClockMode(at)

clockVars == <<base, mode>>

(* Frozen at an instant, or running at an offset from the base: `at` is the  *)
(* instant of the one and the offset of the other.                           *)
FrozenAt(instant) == [isFrozen |-> TRUE, at |-> instant]
RunningAt(offset) == [isFrozen |-> FALSE, at |-> offset]

Modes == [isFrozen : BOOLEAN, at : Int]

Now == IF mode.isFrozen THEN mode.at ELSE base + mode.at

AdvancesIgnoringMode == BaseAdvances  \* mutant: the mode is not asked

Advances == ~mode.isFrozen /\ BaseAdvances

(* The mode each operation leaves behind.  Switching to the mode the clock   *)
(* is already in changes nothing.                                            *)
FrozenMode == IF mode.isFrozen THEN mode ELSE FrozenAt(Now)

ResumedAtBase == IF mode.isFrozen THEN RunningAt(0) ELSE mode  \* mutant: snaps back

ResumedMode == IF mode.isFrozen THEN RunningAt(mode.at - base) ELSE mode

ClockInit ==
    /\ base = 0
    /\ mode = RunningAt(0)

Freeze ==
    /\ mode' = FrozenMode
    /\ UNCHANGED base

Resume ==
    /\ mode' = ResumedMode
    /\ UNCHANGED base

SetClockTo(instant) ==
    /\ mode' = FrozenAt(instant)
    /\ UNCHANGED base

(* Real time passing underneath.                                             *)
Tick ==
    /\ BaseAdvances
    /\ base < MaxBase
    /\ base' = base + 1
    /\ UNCHANGED mode

-----------------------------------------------------------------------------

ClockTypeOK ==
    /\ base \in 0 .. MaxBase
    /\ mode \in Modes

=============================================================================
