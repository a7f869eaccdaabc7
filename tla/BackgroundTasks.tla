--------------------------- MODULE BackgroundTasks ---------------------------
(* A simulation's asynchronous work and what completion waits for.           *)
(*                                                                           *)
(* util/background: background.ts (BackgroundTasks), background-due-tasks.ts *)
(* (the queue of work waiting on the clock), background-pending-tasks.ts     *)
(* and background-clock-waits.ts (the work held outstanding, and how much of *)
(* it is worth waiting for), background-settled-tasks.ts; and the timers     *)
(* through which work waits on the clock, which Lambda invocations ask for   *)
(* (sim-lambda-invocation-timers.ts, sim-lambda-clock-timer.ts).             *)
(*                                                                           *)
(* A job is one piece of work: a task handed to the scheduler, or work a     *)
(* caller started and holds the promise of.  Each is used once.  What a job  *)
(* does while it runs is left open: it schedules other jobs, waits on the    *)
(* clock, asks the simulation to settle, and ends either way, in any order   *)
(* the constants allow.                                                      *)
EXTENDS SimControllableClock, Sequences, FiniteSets

CONSTANTS
    Jobs,       \* pieces of asynchronous work
    Tests,      \* callers outside every held job
    MayFail,    \* the jobs that may end in an error
    MayPark,    \* the jobs that may wait on the clock
    Racers,     \* the jobs that go on working while a timer of theirs is out
    TaskDelays, \* how far from now a job is scheduled, past instants included
    ParkDelays, \* how long a job asks a timer for
    MaxPushes   \* bound: entries ever put on the due queue

ASSUME BackgroundAssumption ==
    /\ MayFail \subseteq Jobs
    /\ MayPark \subseteq Jobs
    /\ Racers \subseteq Jobs
    /\ Jobs \cap Tests = {}
    /\ TaskDelays \subseteq Int
    /\ ParkDelays \subseteq Nat
    /\ MaxPushes \in Nat

Callers == Tests \cup Jobs

VARIABLES
    job,        \* where each job has got to
    byCaller,   \* the jobs a caller started, whose failure it is told of
    queued,     \* BackgroundDueTasks#queued, by the order of its pushes
    pushes,     \* how many entries were ever pushed
    parked,     \* the jobs whose clock wait count is not zero
    hostQueue,  \* setTimeout(0) callbacks the host has yet to run, in order
    settle      \* the race each caller of complete() is waiting on

backgroundVars == <<job, byCaller, queued, pushes, parked, hostQueue, settle>>

JobStates == {"idle", "queued", "deferred", "running", "done", "failed"}

Entries == [id : Nat, due : Int, job : Jobs, kind : {"task", "timer"}]

HostCalls == [kind : {"task"}, who : Jobs] \cup [kind : {"reach"}, who : Callers]

(* batch: the work in Promise.allSettled.  woken: #clockWaits.next resolved. *)
(* runs: whether the clock ran when complete() was called.                   *)
Races == [batch : SUBSET Jobs, woken : BOOLEAN, runs : BOOLEAN]

NoRace == [batch |-> {}, woken |-> FALSE, runs |-> FALSE]

-----------------------------------------------------------------------------
(* The queue of work waiting on the clock.                                   *)

IsDueBefore(entry, instant) == entry.due < instant  \* mutant: off by one

IsDueBy(entry, instant) == entry.due <= instant

DueBy(instant) == {entry \in queued : IsDueBy(entry, instant)}

(* takeNextDueBy: the earliest due, the first pushed among equals.           *)
IsNextDueBy(entry, instant) ==
    /\ entry \in DueBy(instant)
    /\ \A other \in DueBy(instant) :
         \/ entry.due < other.due
         \/ entry.due = other.due /\ entry.id <= other.id

TimersOf(j) == {entry \in queued : entry.kind = "timer" /\ entry.job = j}

\* mutant: entries share a place in the order of pushes
PushUncounted(due, j, kind) ==
    /\ pushes < MaxPushes
    /\ queued' = queued \cup {[id |-> pushes, due |-> due, job |-> j, kind |-> kind]}
    /\ UNCHANGED pushes

Push(due, j, kind) ==
    /\ pushes < MaxPushes
    /\ queued' = queued \cup {[id |-> pushes, due |-> due, job |-> j, kind |-> kind]}
    /\ pushes' = pushes + 1

-----------------------------------------------------------------------------
(* The work held outstanding.                                                *)

(* A job with a timer out is blocked on it, unless it races the timer.       *)
Blocked(j) == TimersOf(j) # {} /\ j \notin Racers

Held(jobs) == {j \in Jobs : jobs[j] \in {"deferred", "running"}}

\* mutant: the work asking is not left out
RunnableWithOwn(c, jobs, waiting, runs) ==
    {j \in Held(jobs) : runs \/ j \notin waiting}

\* mutant: work parked on a clock that stands still is not left out
RunnableWithParked(c, jobs, waiting, runs) == Held(jobs) \ {c}

(* BackgroundClockWaits.runnable, asked for by c: everything held but c's    *)
(* own work, and but what waits on a clock that stands still.                *)
Runnable(c, jobs, waiting, runs) ==
    {j \in Held(jobs) : j # c /\ (runs \/ j \notin waiting)}

(* One turn of complete()'s loop: race what is runnable now.                 *)
Look(c, jobs, waiting, runs) ==
    [batch |-> Runnable(c, jobs, waiting, runs), woken |-> FALSE, runs |-> runs]

AllSettled(c) == \A j \in settle[c].batch : job[j] \in {"done", "failed"}

\* mutant: work a caller started rejects here too
AllFailedInBatch(c) == {j \in settle[c].batch : job[j] = "failed"}

(* The failures allSettled reports: a caller's own work never rejects here.  *)
FailedInBatch(c) == {j \in settle[c].batch : job[j] = "failed" /\ j \notin byCaller}

(* BackgroundClockWaits.wake: every race under way is resolved, empty handed.*)
Wake(races) ==
    [c \in Callers |-> IF races[c].batch = {} THEN races[c]
                                              ELSE [races[c] EXCEPT !.woken = TRUE]]

-----------------------------------------------------------------------------

BackgroundInit ==
    /\ job = [j \in Jobs |-> "idle"]
    /\ byCaller = {}
    /\ queued = {}
    /\ pushes = 0
    /\ parked = {}
    /\ hostQueue = <<>>
    /\ settle = [c \in Callers |-> NoRace]

(* scheduleAt: a job to happen at an instant of simulated time.              *)
ScheduleAt(j, delay) ==
    /\ job[j] = "idle"
    /\ Push(Now + delay, j, "task")
    /\ job' = [job EXCEPT ![j] = "queued"]
    /\ UNCHANGED <<byCaller, parked, hostQueue, settle>>

(* cancelScheduled: every entry of the job comes off the queue.              *)
CancelScheduled(j) ==
    /\ job[j] = "queued"
    /\ queued' = {entry \in queued : entry.job # j}
    /\ job' = [job EXCEPT ![j] = "idle"]
    /\ UNCHANGED <<byCaller, pushes, parked, hostQueue, settle>>

(* schedule: held from now, and run on a later turn of the host.             *)
Schedule(j) ==
    /\ job[j] = "idle"
    /\ job' = [job EXCEPT ![j] = "deferred"]
    /\ hostQueue' = Append(hostQueue, [kind |-> "task", who |-> j])
    /\ UNCHANGED <<byCaller, queued, pushes, parked, settle>>

(* outstanding: work a caller starts and is answered by.                     *)
Outstanding(j) ==
    /\ job[j] = "idle"
    /\ job' = [job EXCEPT ![j] = "running"]
    /\ byCaller' = byCaller \cup {j}
    /\ UNCHANGED <<queued, pushes, parked, hostQueue, settle>>

(* The host reaches a deferred task.                                         *)
StartDeferred ==
    /\ hostQueue # <<>>
    /\ Head(hostQueue).kind = "task"
    /\ job' = [job EXCEPT ![Head(hostQueue).who] = "running"]
    /\ hostQueue' = Tail(hostQueue)
    /\ UNCHANGED <<byCaller, queued, pushes, parked, settle>>

(* A running job asks for a timer.  A delay of nothing is due where the      *)
(* clock reads and is no wait on it; any other makes the job parked, which   *)
(* it says once however many timers it has out.                              *)
Park(j, delay) ==
    /\ j \in MayPark
    /\ Push(Now + delay, j, "timer")
    /\ IF delay > 0 /\ j \notin parked
         THEN /\ parked' = parked \cup {j}
              /\ settle' = Wake(settle)
         ELSE UNCHANGED <<parked, settle>>
    /\ UNCHANGED <<job, byCaller, hostQueue>>

\* mutant: the job is never released
WithoutTimerStillParked(entry) == parked

(* SimLambdaClockTimer.#dispatch: the timer comes off both timelines, and    *)
(* the last one out of a job says it no longer waits on the clock.           *)
WithoutTimer(entry) ==
    IF TimersOf(entry.job) \subseteq {entry} THEN parked \ {entry.job} ELSE parked

(* The host timer of a clock timer fires and finds its instant reached.      *)
HostTimerFires(entry) ==
    /\ entry.kind = "timer"
    /\ IsDueBy(entry, Now)
    /\ queued' = queued \ {entry}
    /\ parked' = WithoutTimer(entry)
    /\ UNCHANGED <<job, byCaller, pushes, hostQueue, settle>>

(* A job settles, giving up whatever timers it still has out.                *)
End(j, how) ==
    /\ job' = [job EXCEPT ![j] = how]
    /\ queued' = queued \ TimersOf(j)
    /\ parked' = parked \ {j}
    /\ UNCHANGED <<byCaller, pushes, hostQueue, settle>>

Finish(j) == End(j, "done")

Fail(j) == j \in MayFail /\ End(j, "failed")

(* complete()'s race is over: the batch has settled, or something parked.    *)
RaceIsOver(c) ==
    /\ settle[c].batch # {}
    /\ AllSettled(c) \/ settle[c].woken

(* throwFirstFailure: only a settled batch has anything to throw.  A race a   *)
(* park has won settles with nothing, whatever the batch has come to.        *)
RaceThrows(c) ==
    /\ ~settle[c].woken
    /\ FailedInBatch(c) # {}

=============================================================================
