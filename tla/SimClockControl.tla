--------------------------- MODULE SimClockControl ---------------------------
(* Moving one simulation's clock, and waiting for the simulation to settle.  *)
(*                                                                           *)
(* util/clock/sim-clock-control.ts over the clock and the background tasks   *)
(* that service/aws/sim-aws-timekeeping.ts builds for a SimAws.  The callers *)
(* are the tests outside every held job and the jobs allowed to ask from     *)
(* inside themselves; each has at most one call under way.  A step is what   *)
(* runs between two awaits.                                                  *)
EXTENDS BackgroundTasks, Functions

CONSTANTS
    Instants,   \* the instants callers ask the clock for
    MayAsk,     \* the jobs that may move the clock or wait for completion
    MaySwitch   \* the tests that may freeze and resume the clock

ASSUME ControlAssumption ==
    /\ Instants \subseteq Int
    /\ MayAsk \subseteq Jobs
    /\ MaySwitch \subseteq Tests

VARIABLE call  \* the call each caller has under way, or how its last one ended

vars == <<clockVars, backgroundVars, call>>

(* at: where the call has got to.  after: what follows complete().  target:  *)
(* the instant asked for.  from, since and last are kept for the properties: *)
(* the clock and the queue's count when the call was made, and the instant   *)
(* of its last dispatch.                                                     *)
Calls ==
    [at : {"none", "reach", "walk", "settle", "returned", "threw"},
     op : {"complete", "setTo"},
     after : {"walk", "returned"},
     target : Int, from : Int, since : Nat, last : Int]

NoCall == [at |-> "none", op |-> "complete", after |-> "returned",
           target |-> 0, from |-> 0, since |-> 0, last |-> 0]

NewCall(operation, at, instant) ==
    [at |-> at, op |-> operation, after |-> "returned",
     target |-> instant, from |-> Now, since |-> pushes, last |-> Now]

(* A call that is over keeps nothing but how it ended.                       *)
Ended(how) == [NoCall EXCEPT !.at = how]

UnderWay(c) == call[c].at \in {"reach", "walk", "settle"}

(* The call is inside the loop that dispatches what falls due on the way.    *)
OnWalk(c) == UnderWay(c) /\ call[c].after = "walk"

(* A job runs on while it awaits no call of its own and no timer.            *)
CanStep(j) == job[j] = "running" /\ ~UnderWay(j) /\ ~Blocked(j)

CanAct(c) == IF c \in Tests THEN ~UnderWay(c) ELSE CanStep(c)

CanAsk(c) == CanAct(c) /\ c \in Tests \cup MayAsk

-----------------------------------------------------------------------------
(* complete(), racing what is runnable once the rest of the step is done.    *)
(* With nothing to race it is over, and what follows it comes next.          *)
Complete(c, race, current) ==
    IF race.batch = {}
      THEN /\ settle' = [settle EXCEPT ![c] = NoRace]
           /\ call' = [call EXCEPT ![c] = IF current.after = "walk"
                                             THEN [current EXCEPT !.at = "walk"]
                                             ELSE Ended("returned")]
      ELSE /\ settle' = [settle EXCEPT ![c] = race]
           /\ call' = [call EXCEPT ![c] = [current EXCEPT !.at = "settle"]]

AskComplete(c) ==
    /\ CanAsk(c)
    /\ Complete(c, Look(c, job, parked, Advances), NewCall("complete", "settle", Now))
    /\ UNCHANGED <<clockVars, job, byCaller, queued, pushes, parked, hostQueue>>

\* mutant: complete() is over with its first batch
LookOnce(c) ==
    /\ RaceIsOver(c)
    /\ settle' = [settle EXCEPT ![c] = NoRace]
    /\ call' = [call EXCEPT ![c] = IF call[c].after = "walk" THEN [call[c] EXCEPT !.at = "walk"]
                                                             ELSE Ended("returned")]
    /\ UNCHANGED <<clockVars, job, byCaller, queued, pushes, parked, hostQueue>>

\* mutant: a failure still leaves the clock at the instant asked for
LookAgainAndArrive(c) ==
    /\ RaceIsOver(c)
    /\ IF RaceThrows(c)
         THEN /\ settle' = [settle EXCEPT ![c] = NoRace]
              /\ call' = [call EXCEPT ![c] = Ended("threw")]
              /\ SetClockTo(call[c].target)
         ELSE /\ Complete(c, Look(c, job, parked, settle[c].runs), call[c])
              /\ UNCHANGED clockVars
    /\ UNCHANGED <<job, byCaller, queued, pushes, parked, hostQueue>>

(* complete() looks again once its race is over, or throws a failure.        *)
LookAgain(c) ==
    /\ RaceIsOver(c)
    /\ IF RaceThrows(c)
         THEN /\ settle' = [settle EXCEPT ![c] = NoRace]
              /\ call' = [call EXCEPT ![c] = Ended("threw")]
         ELSE Complete(c, Look(c, job, parked, settle[c].runs), call[c])
    /\ UNCHANGED <<clockVars, job, byCaller, queued, pushes, parked, hostQueue>>

-----------------------------------------------------------------------------
(* setTo: freeze, give the host a turn, walk to the instant, settle.         *)

SetTo(c, instant) ==
    /\ CanAsk(c)
    /\ Freeze
    /\ hostQueue' = Append(hostQueue, [kind |-> "reach", who |-> c])
    /\ call' = [call EXCEPT ![c] = NewCall("setTo", "reach", instant)]
    /\ UNCHANGED <<job, byCaller, queued, pushes, parked, settle>>

(* advanceBy: setTo an instant measured from the frozen clock.               *)
AdvanceBy(c, duration) == duration >= 0 /\ SetTo(c, Now + duration)

AlwaysNow(instant) == Now      \* mutant: the clock is not moved to the due time
NeverNow(instant) == instant   \* mutant: an overdue task drags the clock back

LaterOfNow(instant) == IF instant < Now THEN Now ELSE instant

(* The walk is over: the clock is set to the instant asked for.              *)
Arrive(c) ==
    /\ SetClockTo(call[c].target)
    /\ Complete(c, Look(c, job, parked, FALSE), [call[c] EXCEPT !.after = "returned"])
    /\ UNCHANGED <<job, byCaller, queued, pushes, parked>>

(* The next entry due happens with the clock at its own instant, and the     *)
(* walk waits for what comes of it.                                          *)
Dispatch(c, entry) ==
    LET jobs == IF entry.kind = "task" THEN [job EXCEPT ![entry.job] = "running"] ELSE job
        waiting == IF entry.kind = "timer" THEN WithoutTimer(entry) ELSE parked
        instant == LaterOfNow(entry.due)
    IN  /\ SetClockTo(instant)
        /\ queued' = queued \ {entry}
        /\ job' = jobs
        /\ parked' = waiting
        /\ Complete(c, Look(c, jobs, waiting, FALSE),
                    [call[c] EXCEPT !.after = "walk", !.last = instant])
        /\ UNCHANGED <<byCaller, pushes>>

(* runDueTasksUpTo: one turn of the loop.                                    *)
WalkOn(c) ==
    \/ DueBy(call[c].target) = {} /\ Arrive(c)
    \/ \E entry \in queued : IsNextDueBy(entry, call[c].target) /\ Dispatch(c, entry)

Walk(c) ==
    /\ call[c].at = "walk"
    /\ WalkOn(c)
    /\ UNCHANGED hostQueue

(* The host turn setTo gave up is over.  Time moves forward through what     *)
(* falls due; moved backwards it runs nothing.                               *)
Reach(c) ==
    /\ hostQueue # <<>>
    /\ Head(hostQueue) = [kind |-> "reach", who |-> c]
    /\ hostQueue' = Tail(hostQueue)
    /\ IF call[c].target >= Now THEN WalkOn(c) ELSE Arrive(c)

-----------------------------------------------------------------------------

Init == ClockInit /\ BackgroundInit /\ call = [c \in Callers |-> NoCall]

(* What a test or a running job asks of the scheduler.                       *)
Asked(c, j) ==
    /\ CanAct(c)
    /\ \/ \E delay \in TaskDelays : ScheduleAt(j, delay)
       \/ Schedule(j)
       \/ CancelScheduled(j)
       \/ c \in Tests /\ Outstanding(j)

Waits(j) == CanStep(j) /\ \E delay \in ParkDelays : Park(j, delay)

Ends(j) == CanStep(j) /\ (Finish(j) \/ Fail(j))

(* An invocation's deadline or its stall watch ends it where it waits.       *)
TimesOut(j) == job[j] = "running" /\ Blocked(j) /\ Fail(j)

HostTimer == \E entry \in queued : HostTimerFires(entry)

Background ==
    /\ \/ \E c \in Callers, j \in Jobs : Asked(c, j)
       \/ StartDeferred
       \/ HostTimer
       \/ \E j \in Jobs : Waits(j) \/ Ends(j) \/ TimesOut(j)
    /\ UNCHANGED <<clockVars, call>>

Ask(c) ==
    \/ AskComplete(c)
    \/ \E instant \in Instants : SetTo(c, instant) \/ AdvanceBy(c, instant - Now)

Proceed(c) == LookAgain(c) \/ Walk(c) \/ Reach(c)

(* freeze and resume; and advanceBy, which has frozen the clock by the time  *)
(* it refuses what is no duration.                                           *)
Switch ==
    /\ \/ (\E c \in MaySwitch : CanAct(c)) /\ (Freeze \/ Resume)
       \/ (\E c \in Callers : CanAsk(c)) /\ Freeze
    /\ UNCHANGED <<backgroundVars, call>>

TimePasses == Tick /\ UNCHANGED <<backgroundVars, call>>

Next ==
    \/ Background
    \/ TimePasses
    \/ \E c \in Callers : Ask(c) \/ Proceed(c)
    \/ Switch

Spec == Init /\ [][Next]_vars

(* The host runs its callbacks and its timers, promises that can settle do,  *)
(* real time passes, and a job that keeps coming to where it could end does. *)
Fairness ==
    /\ WF_vars(StartDeferred /\ UNCHANGED <<clockVars, call>>)
    /\ WF_vars(HostTimer /\ UNCHANGED <<clockVars, call>>)
    /\ WF_vars(TimePasses)
    /\ \A c \in Callers : WF_vars(Proceed(c))
    /\ \A j \in Jobs : SF_vars(Ends(j) /\ UNCHANGED <<clockVars, call>>)

FairSpec == Spec /\ Fairness

-----------------------------------------------------------------------------

TypeOK ==
    /\ ClockTypeOK
    /\ job \in [Jobs -> JobStates]
    /\ byCaller \subseteq Jobs
    /\ queued \subseteq Entries
    /\ \A entry \in queued : entry.id < pushes
    /\ pushes \in 0 .. MaxPushes
    /\ parked \subseteq Jobs
    /\ hostQueue \in Seq(HostCalls)
    /\ settle \in [Callers -> Races]
    /\ call \in [Callers -> Calls]

(* Nothing waits for what is not on its way.  A parked job runs and has a    *)
(* timer queued to release it, a timer queued has a running job behind it,   *)
(* and a job scheduled for an instant is queued for it exactly once.         *)
WaitsAreOnTheClock ==
    /\ \A j \in parked : TimersOf(j) # {}
    /\ \A entry \in queued :
         job[entry.job] = IF entry.kind = "timer" THEN "running" ELSE "queued"
    /\ \A j \in Jobs : job[j] = "queued" => \E entry \in queued : entry.job = j
    /\ \A entry, other \in queued :
         entry.kind = "task" /\ entry.job = other.job => entry = other

(* And the host's queue holds, once each, the deferred jobs and the calls    *)
(* that gave up their turn, and nothing else.                                *)
WaitsAreOnTheHost ==
    /\ IsInjective(hostQueue)
    /\ Range(hostQueue) =
         {callback \in HostCalls :
            IF callback.kind = "task" THEN job[callback.who] = "deferred"
                                      ELSE call[callback.who].at = "reach"}

EveryWaitIsQueued == WaitsAreOnTheClock /\ WaitsAreOnTheHost

(* "Nothing dispatches it until the clock gets there": whatever way an entry *)
(* leaves the queue with its job running on, the clock has reached it.       *)
HappensOnTime ==
    [][\A entry \in queued \ queued' : job'[entry.job] = "running" => Now' >= entry.due]_vars

(* Time is moved backwards only for a caller who asked for an instant        *)
(* earlier than the clock read: an overdue task does not drag it back, and   *)
(* nor does the end of somebody else's walk.                                 *)
TimeMovesForward ==
    [][Now' < Now => \E c \in Callers : call'[c] # call[c] /\ call[c].target < call[c].from]_vars

(* When setTo returns, what was queued before it was called and has fallen   *)
(* due by its instant has happened, or was given up.                         *)
OwedHappens ==
    [][\A c \in Callers :
         /\ UnderWay(c) /\ call'[c].at = "returned"
         /\ call[c].op = "setTo" /\ call[c].target >= call[c].from
         => \A entry \in queued' : entry.id < call[c].since => entry.due > call[c].target]_vars

(* When setTo returns, nothing is left that its instant should have caused,  *)
(* what came up on the way included.                                         *)
NothingDueIsLeft ==
    [][\A c \in Callers :
         /\ UnderWay(c) /\ call'[c].at = "returned"
         /\ call[c].op = "setTo" /\ call[c].target >= call[c].from
         => \A entry \in queued' : entry.due > call[c].target]_vars

(* A failure in the work a caller waits for is thrown to that caller, and    *)
(* nothing else is: work somebody started answers to them alone.             *)
RaceEnds(c) == settle[c].batch # {} /\ settle'[c] # settle[c] /\ ~settle'[c].woken

TaskFailed(c) == \E j \in settle[c].batch \ byCaller : job[j] = "failed"

FailuresSurface ==
    [][\A c \in Callers : RaceEnds(c) => (call'[c].at = "threw" <=> TaskFailed(c))]_vars

(* The same, where nothing parks while the failure is waited for.            *)
FailuresSurfaceUnlessParked ==
    [][\A c \in Callers : RaceEnds(c) =>
         (call'[c].at = "threw" <=> TaskFailed(c) /\ ~settle[c].woken)]_vars

(* A failure on the way leaves the clock where the walk had got to, with     *)
(* what was due later still queued.                                          *)
ThrowStopsTheClock ==
    [][\A c \in Callers :
         UnderWay(c) /\ call'[c].at = "threw" /\ call[c].after = "walk"
         => Now' = call[c].last /\ queued' = queued]_vars

(* "Work waiting on the clock cannot" get anywhere on its own: complete()    *)
(* never settles down, while time stands still, to wait for work that is     *)
(* stopped at a timer the clock has yet to reach.                            *)
Looks(c) == settle'[c] # settle[c] /\ ~settle'[c].woken

WaitsForWhatCanMove ==
    [][\A c \in Callers : Looks(c) =>
         \A j \in settle'[c].batch :
           \/ ~Blocked(j)' \/ Advances'
           \/ \E entry \in TimersOf(j)' : entry.due <= Now']_vars

(* Two pieces of work never wait for each other to settle.                   *)
NoMutualWait ==
    \A a, b \in Jobs : ~(a \in settle[b].batch /\ b \in settle[a].batch)

(* Every call to move the clock or to settle comes to an end.                *)
CallsReturn == \A c \in Callers : UnderWay(c) ~> ~UnderWay(c)

(* A clock that runs releases whoever waits on it, with nobody moving it, as *)
(* soon as the clock underneath gets to the instants waited for.             *)
WithinReach(j) ==
    Advances /\ \A entry \in TimersOf(j) : entry.due - Now <= MaxBase - base

RunningClockReleases ==
    \A j \in Jobs : j \in parked /\ WithinReach(j) ~> (j \notin parked \/ mode.isFrozen)

(* "Switching never loses the current simulated instant": going back and     *)
(* forth between frozen and running, however far the clock underneath has    *)
(* moved in between, moves nothing.                                          *)
SwitchingKeepsTheInstant == [][Switch => Now' = Now]_vars

(* While `advances` is false time moves only for a caller who moves it, and  *)
(* while it is true it moves exactly as far as the clock underneath does.    *)
AdvancesTellsTheTruth ==
    [][call' = call => Now' = IF Advances THEN Now + (base' - base) ELSE Now]_vars

=============================================================================
