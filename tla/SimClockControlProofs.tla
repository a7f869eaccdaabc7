------------------------ MODULE SimClockControlProofs ------------------------
(* Theorems about SimClockControl, for every set of jobs, tests, instants    *)
(* and delays.                                                               *)
EXTENDS SimClockControl, TLAPS

USE DEF Callers

(* The clock reads an integer in either mode.                                *)
LEMMA NowIsInt == ASSUME ClockAssumption, ClockTypeOK PROVE Now \in Int
BY DEF ClockAssumption, ClockTypeOK, Modes, Now

(* What a caller is recorded as asking for has the shape of a call.          *)
LEMMA NewCallType ==
    ASSUME TypeOK, ClockAssumption, NEW op \in {"complete", "setTo"},
           NEW at \in {"none", "reach", "walk", "settle", "returned", "threw"}, NEW instant \in Int
    PROVE  NewCall(op, at, instant) \in Calls
BY NowIsInt, BackgroundAssumption DEF TypeOK, NewCall, Calls

(* So has a call that is over.                                               *)
LEMMA EndedType ==
    ASSUME NEW how \in {"returned", "threw"} PROVE Ended(how) \in Calls
BY DEF Ended, NoCall, Calls

(* complete() leaves a well formed race and call behind.                     *)
LEMMA CompleteType ==
    ASSUME TypeOK, NEW c \in Callers, NEW race \in Races, NEW current \in Calls,
           Complete(c, race, current)
    PROVE  settle' \in [Callers -> Races] /\ call' \in [Callers -> Calls]
<1>1. NoRace \in Races
  BY DEF NoRace, Races
<1>2. Ended("returned") \in Calls
  BY EndedType
<1>3. [current EXCEPT !.at = "walk"] \in Calls /\ [current EXCEPT !.at = "settle"] \in Calls
  BY DEF Calls
<1>4. QED
  BY <1>1, <1>2, <1>3 DEF Complete, TypeOK

(* What complete() races next has the shape of a race.                       *)
LEMMA LookType ==
    ASSUME NEW c, NEW jobs, NEW waiting, NEW runs \in BOOLEAN
    PROVE  Look(c, jobs, waiting, runs) \in Races
BY DEF Look, Races, Runnable, Held

(* Dispatching the next entry due keeps the types of everything it           *)
(* changes.                                                                  *)
LEMMA DispatchType ==
    ASSUME TypeOK, ClockAssumption, NEW c \in Callers, NEW entry \in queued, Dispatch(c, entry)
    PROVE  /\ ClockTypeOK' /\ job' \in [Jobs -> JobStates] /\ queued' \subseteq queued
           /\ parked' \subseteq Jobs /\ UNCHANGED <<byCaller, pushes>>
           /\ settle' \in [Callers -> Races] /\ call' \in [Callers -> Calls]
<1> DEFINE jobs == IF entry.kind = "task" THEN [job EXCEPT ![entry.job] = "running"] ELSE job
           waiting == IF entry.kind = "timer" THEN WithoutTimer(entry) ELSE parked
           instant == LaterOfNow(entry.due)
           race == Look(c, jobs, waiting, FALSE)
           current == [call[c] EXCEPT !.after = "walk", !.last = instant]
<1>1. entry \in Entries
  BY DEF TypeOK
<1>2. instant \in Int
  BY <1>1, NowIsInt DEF TypeOK, LaterOfNow, Entries
<1>3. ClockTypeOK'
  BY <1>2 DEF Dispatch, SetClockTo, FrozenAt, ClockTypeOK, Modes, TypeOK
<1>4. jobs \in [Jobs -> JobStates]
  BY DEF TypeOK, JobStates
<1>5. waiting \subseteq Jobs
  BY DEF TypeOK, WithoutTimer
<1>6. race \in Races
  BY LookType
<1>7. current \in Calls
  <2>1. call[c] \in Calls
    BY DEF TypeOK
  <2> HIDE DEF instant
  <2> QED BY <2>1, <1>2 DEF Calls
<1>8. Complete(c, race, current)
  BY DEF Dispatch
<1>9. settle' \in [Callers -> Races] /\ call' \in [Callers -> Calls]
  <2> HIDE DEF race, current
  <2> QED BY <1>6, <1>7, <1>8, CompleteType
<1>10. QED
  BY <1>3, <1>4, <1>5, <1>9 DEF Dispatch

(* So does reaching the instant asked for.                                   *)
LEMMA ArriveType ==
    ASSUME TypeOK, ClockAssumption, NEW c \in Callers, Arrive(c)
    PROVE  /\ ClockTypeOK' /\ UNCHANGED <<job, byCaller, queued, pushes, parked>>
           /\ settle' \in [Callers -> Races] /\ call' \in [Callers -> Calls]
<1> DEFINE race == Look(c, job, parked, FALSE)
           current == [call[c] EXCEPT !.after = "returned"]
<1>1. call[c] \in Calls
  BY DEF TypeOK
<1>2. ClockTypeOK'
  BY <1>1 DEF Arrive, SetClockTo, FrozenAt, ClockTypeOK, Modes, TypeOK, Calls
<1>3. race \in Races /\ current \in Calls /\ Complete(c, race, current)
  BY <1>1, LookType DEF Arrive, Calls
<1>4. settle' \in [Callers -> Races] /\ call' \in [Callers -> Calls]
  <2> HIDE DEF race, current
  <2> QED BY <1>3, CompleteType
<1>5. QED
  BY <1>2, <1>4 DEF Arrive

(* One turn of runDueTasksUpTo's loop, whichever of the two it is, keeps     *)
(* every type.                                                               *)
LEMMA WalkOnType ==
    ASSUME TypeOK, ClockAssumption, NEW c \in Callers, WalkOn(c),
           hostQueue' \in Seq(HostCalls)
    PROVE  TypeOK'
<1>1. CASE Arrive(c)
  BY <1>1, ArriveType DEF TypeOK, ClockTypeOK
<1>2. CASE \E entry \in queued : Dispatch(c, entry)
  BY <1>2, DispatchType DEF TypeOK, ClockTypeOK
<1>3. QED
  BY <1>1, <1>2 DEF WalkOn

-----------------------------------------------------------------------------
(* Type correctness, one lemma per kind of step.                             *)

(* A job that ends keeps every type.                                         *)
LEMMA EndType ==
    ASSUME TypeOK, NEW j \in Jobs, NEW how \in {"done", "failed"}, End(j, how),
           UNCHANGED <<clockVars, call>>
    PROVE  TypeOK'
<1>1. job' \in [Jobs -> JobStates]
  BY DEF TypeOK, End, JobStates
<1>2. queued' \subseteq queued /\ parked' \subseteq parked
  BY DEF End
<1>3. ClockTypeOK'
  BY DEF TypeOK, ClockTypeOK, clockVars
<1>4. UNCHANGED <<byCaller, pushes, hostQueue, settle>>
  BY DEF End
<1>5. QED
  BY <1>1, <1>2, <1>3, <1>4 DEF TypeOK

(* An entry put on the due queue is an entry, numbered below the count of    *)
(* the pushes.                                                               *)
LEMMA PushType ==
    ASSUME TypeOK, BackgroundAssumption, NEW due \in Int, NEW j \in Jobs,
           NEW kind \in {"task", "timer"}, Push(due, j, kind)
    PROVE  /\ queued' \subseteq Entries /\ pushes' \in 0 .. MaxPushes
           /\ \A entry \in queued' : entry.id < pushes'
<1>1. [id |-> pushes, due |-> due, job |-> j, kind |-> kind] \in Entries
  BY DEF TypeOK, Entries, BackgroundAssumption
<1>2. \A entry \in queued : entry.id < pushes + 1
  BY DEF TypeOK, Entries, BackgroundAssumption
<1>3. QED
  BY <1>1, <1>2 DEF TypeOK, Push, BackgroundAssumption

(* Waking the races under way leaves them races.                             *)
LEMMA WakeType ==
    ASSUME settle \in [Callers -> Races] PROVE Wake(settle) \in [Callers -> Races]
<1>1. ASSUME NEW c \in Callers PROVE [settle[c] EXCEPT !.woken = TRUE] \in Races
  BY DEF Races
<1>2. QED
  BY <1>1 DEF Wake

(* Whatever the scheduler, the host's queue and the jobs do keeps every      *)
(* type.                                                                     *)
LEMMA BackgroundType ==
    ASSUME TypeOK, ClockAssumption, BackgroundAssumption, Background
    PROVE  TypeOK'
<1> USE DEF TypeOK
<1>1. ClockTypeOK' /\ call' \in [Callers -> Calls] /\ UNCHANGED <<clockVars, call>>
  BY DEF Background, ClockTypeOK, clockVars, Modes
<1>2. ASSUME NEW j \in Jobs, NEW delay \in TaskDelays, ScheduleAt(j, delay) PROVE TypeOK'
  <2>1. Now + delay \in Int
    BY NowIsInt DEF BackgroundAssumption
  <2>2. queued' \subseteq Entries /\ pushes' \in 0 .. MaxPushes
        /\ \A entry \in queued' : entry.id < pushes'
    BY <1>2, <2>1, PushType DEF ScheduleAt
  <2>3. QED
    BY <1>1, <1>2, <2>2 DEF ScheduleAt, JobStates
<1>3. ASSUME NEW j \in Jobs, Schedule(j) PROVE TypeOK'
  <2>1. [kind |-> "task", who |-> j] \in HostCalls
    BY DEF HostCalls
  <2>2. hostQueue' \in Seq(HostCalls)
    BY <1>3, <2>1 DEF Schedule
  <2>3. QED
    BY <1>1, <1>3, <2>2 DEF Schedule, JobStates
<1>4. ASSUME NEW j \in Jobs, CancelScheduled(j) PROVE TypeOK'
  BY <1>1, <1>4 DEF CancelScheduled, JobStates
<1>5. ASSUME NEW j \in Jobs, Outstanding(j) PROVE TypeOK'
  BY <1>1, <1>5 DEF Outstanding, JobStates
<1>6. CASE StartDeferred
  <2>1. hostQueue' \in Seq(HostCalls)
    BY <1>6 DEF StartDeferred
  <2>2. QED
    BY <1>1, <1>6, <2>1 DEF StartDeferred, JobStates
<1>7. CASE HostTimer
  <2> PICK entry \in queued : HostTimerFires(entry)
    BY <1>7 DEF HostTimer
  <2> QED BY <1>1 DEF HostTimerFires, WithoutTimer
<1>8. ASSUME NEW j \in Jobs, NEW delay \in ParkDelays, Park(j, delay) PROVE TypeOK'
  <2>1. Now + delay \in Int
    BY NowIsInt DEF BackgroundAssumption
  <2>2. queued' \subseteq Entries /\ pushes' \in 0 .. MaxPushes
        /\ \A entry \in queued' : entry.id < pushes'
    BY <1>8, <2>1, PushType DEF Park
  <2>3. settle' \in [Callers -> Races] /\ parked' \subseteq Jobs
    BY <1>8, WakeType DEF Park
  <2>4. QED
    BY <1>1, <1>8, <2>2, <2>3 DEF Park
<1>9. ASSUME NEW j \in Jobs, Ends(j) \/ TimesOut(j) PROVE TypeOK'
  BY <1>1, <1>9, EndType DEF Ends, TimesOut, Finish, Fail
<1>10. QED
  BY <1>2, <1>3, <1>4, <1>5, <1>6, <1>7, <1>8, <1>9 DEF Background, Asked, Waits

(* Asking to settle or to move the clock keeps every type.                   *)
LEMMA AskType ==
    ASSUME TypeOK, ClockAssumption, ControlAssumption, NEW c \in Callers, Ask(c)
    PROVE  TypeOK'
<1> USE DEF TypeOK
<1>1. CASE AskComplete(c)
  <2> DEFINE race == Look(c, job, parked, Advances)
             current == NewCall("complete", "settle", Now)
  <2>1. race \in Races
    <3>1. Advances \in BOOLEAN
      BY DEF Advances
    <3>2. QED
      BY <3>1, LookType
  <2>2. current \in Calls
    BY NowIsInt, NewCallType
  <2>3. Complete(c, race, current)
    BY <1>1 DEF AskComplete
  <2>4. settle' \in [Callers -> Races] /\ call' \in [Callers -> Calls]
    <3> HIDE DEF race, current
    <3> QED BY <2>1, <2>2, <2>3, CompleteType
  <2>5. QED
    BY <1>1, <2>4 DEF AskComplete, clockVars, ClockTypeOK, Modes
<1>2. ASSUME NEW instant \in Int, SetTo(c, instant) PROVE TypeOK'
  <2>1. NewCall("setTo", "reach", instant) \in Calls
    BY NewCallType
  <2>2. hostQueue' \in Seq(HostCalls)
    <3>1. [kind |-> "reach", who |-> c] \in HostCalls
      BY DEF HostCalls
    <3>2. QED
      BY <1>2, <3>1 DEF SetTo
  <2>3. ClockTypeOK'
    BY <1>2, NowIsInt DEF SetTo, Freeze, FrozenMode, FrozenAt, ClockTypeOK, Modes
  <2>4. QED
    BY <1>2, <2>1, <2>2, <2>3 DEF SetTo
<1>3. ASSUME NEW instant \in Instants, AdvanceBy(c, instant - Now) PROVE TypeOK'
  <2>1. instant \in Int /\ Now \in Int
    BY NowIsInt DEF ControlAssumption
  <2>2. SetTo(c, Now + (instant - Now)) /\ Now + (instant - Now) \in Int
    BY <1>3, <2>1 DEF AdvanceBy
  <2>3. QED
    BY <1>2, <2>2
<1>4. QED
  BY <1>1, <1>2, <1>3 DEF Ask, ControlAssumption

(* A call getting on keeps every type.                                       *)
LEMMA ProceedType ==
    ASSUME TypeOK, ClockAssumption, NEW c \in Callers, Proceed(c)
    PROVE  TypeOK'
<1>1. CASE LookAgain(c)
  <2>1. settle[c] \in Races /\ call[c] \in Calls
    BY DEF TypeOK
  <2>2. CASE RaceThrows(c)
    <3>1. NoRace \in Races /\ Ended("threw") \in Calls
      BY EndedType DEF NoRace, Races
    <3>2. QED
      BY <1>1, <2>2, <3>1 DEF LookAgain, TypeOK, clockVars, ClockTypeOK
  <2>3. CASE ~RaceThrows(c)
    <3> DEFINE race == Look(c, job, parked, settle[c].runs)
    <3>1. race \in Races
      BY <2>1, LookType DEF Races
    <3>2. Complete(c, race, call[c])
      BY <1>1, <2>3 DEF LookAgain
    <3>3. settle' \in [Callers -> Races] /\ call' \in [Callers -> Calls]
      <4> HIDE DEF race
      <4> QED BY <2>1, <3>1, <3>2, CompleteType
    <3>4. QED
      BY <1>1, <3>3 DEF LookAgain, TypeOK, clockVars, ClockTypeOK
  <2>4. QED
    BY <2>2, <2>3
<1>2. CASE Walk(c)
  BY <1>2, WalkOnType DEF Walk, TypeOK
<1>3. CASE Reach(c)
  <2>1. hostQueue' \in Seq(HostCalls)
    BY <1>3 DEF Reach, TypeOK
  <2>2. CASE WalkOn(c)
    BY <2>1, <2>2, WalkOnType
  <2>3. CASE Arrive(c)
    BY <2>1, <2>3, ArriveType DEF TypeOK, ClockTypeOK
  <2>4. QED
    BY <1>3, <2>2, <2>3 DEF Reach
<1>4. QED
  BY <1>1, <1>2, <1>3 DEF Proceed

(* Freezing, resuming and time passing keep every type.                      *)
LEMMA SwitchType ==
    ASSUME TypeOK, ClockAssumption, Switch \/ TimePasses
    PROVE  TypeOK'
<1>1. Now \in Int
  BY NowIsInt DEF TypeOK
<1>2. ClockTypeOK'
  <2>1. ClockTypeOK /\ base \in Int /\ mode \in Modes /\ mode.at \in Int
    BY DEF TypeOK, ClockTypeOK, Modes, ClockAssumption
  <2>2. CASE TimePasses
    BY <2>1, <2>2 DEF TimePasses, Tick, ClockTypeOK, ClockAssumption
  <2>3. CASE Switch
    <3>1. FrozenMode \in Modes
      BY <2>1, <1>1 DEF FrozenMode, FrozenAt, Modes
    <3>2. ResumedMode \in Modes
      BY <2>1 DEF ResumedMode, RunningAt, Modes
    <3>3. QED
      BY <2>1, <2>3, <3>1, <3>2 DEF Switch, Freeze, Resume, ClockTypeOK
  <2>4. QED
    BY <2>2, <2>3
<1>3. QED
  BY <1>2 DEF TypeOK, Switch, TimePasses, backgroundVars

(* Every variable keeps the type the code gives it, whatever the callers,    *)
(* the jobs and the clock do.                                                *)
THEOREM TypeCorrect == Spec => []TypeOK
<1>1. Init => TypeOK
  BY BackgroundAssumption, ClockAssumption
     DEF Init, ClockInit, BackgroundInit, TypeOK, ClockTypeOK, Modes, RunningAt, JobStates,
         NoRace, Races, NoCall, Calls
<1>2. TypeOK /\ [Next]_vars => TypeOK'
  <2> SUFFICES ASSUME TypeOK, [Next]_vars PROVE TypeOK'
    OBVIOUS
  <2> USE ClockAssumption, BackgroundAssumption, ControlAssumption
  <2>1. CASE Background
    BY <2>1, BackgroundType
  <2>2. CASE TimePasses \/ Switch
    BY <2>2, SwitchType
  <2>3. ASSUME NEW c \in Callers, Ask(c) PROVE TypeOK'
    BY <2>3, AskType
  <2>4. ASSUME NEW c \in Callers, Proceed(c) PROVE TypeOK'
    BY <2>4, ProceedType
  <2>5. CASE UNCHANGED vars
    BY <2>5 DEF vars, clockVars, backgroundVars, TypeOK, ClockTypeOK
  <2>6. QED
    BY <2>1, <2>2, <2>3, <2>4, <2>5 DEF Next
<1>3. QED
  BY <1>1, <1>2, PTL DEF Spec

-----------------------------------------------------------------------------
(* What leaves the queue with its job running on was due by then, whichever  *)
(* way it left: dispatched by a walk, or by its own host timer.              *)

(* What a walk takes off the due queue it takes off with the clock at its    *)
(* instant or later.                                                         *)
LEMMA DispatchOnTime ==
    ASSUME TypeOK, ClockAssumption, NEW c, NEW entry \in queued, Dispatch(c, entry),
           NEW gone \in queued \ queued'
    PROVE  Now' >= gone.due
<1>1. gone = entry
  BY DEF Dispatch
<1>2. Now' = LaterOfNow(entry.due)
  BY DEF Dispatch, SetClockTo, FrozenAt, Now
<1>3. entry.due \in Int /\ Now \in Int
  BY NowIsInt DEF TypeOK, Entries
<1>4. QED
  BY <1>1, <1>2, <1>3 DEF LaterOfNow

(* What leaves the due queue in any other way does so because its host       *)
(* timer found its instant reached, or because its job is over.              *)
LEMMA BackgroundOnTime ==
    ASSUME TypeOK, ClockAssumption, Background,
           NEW gone \in queued \ queued', job'[gone.job] = "running"
    PROVE  Now' >= gone.due
<1>1. gone.job \in Jobs /\ gone.due \in Int /\ Now \in Int /\ job \in [Jobs -> JobStates]
  BY NowIsInt DEF TypeOK, Entries
<1>2. Now' = Now
  BY DEF Background, clockVars, Now
<1>3. ASSUME NEW due, NEW j, NEW kind, Push(due, j, kind) PROVE FALSE
  BY <1>3 DEF Push
<1>4. ASSUME NEW j \in Jobs, CancelScheduled(j) PROVE FALSE
  BY <1>1, <1>4 DEF CancelScheduled
<1>5. ASSUME NEW j \in Jobs, NEW how \in {"done", "failed"}, End(j, how) PROVE FALSE
  BY <1>1, <1>5 DEF End, TimersOf
<1>6. CASE HostTimer
  BY <1>1, <1>2, <1>6 DEF HostTimer, HostTimerFires, IsDueBy
<1>7. CASE \E c \in Callers, j \in Jobs : Asked(c, j)
  BY <1>3, <1>4, <1>7 DEF Asked, ScheduleAt, Schedule, Outstanding
<1>8. CASE \E j \in Jobs : Waits(j) \/ Ends(j) \/ TimesOut(j)
  BY <1>3, <1>5, <1>8 DEF Waits, Park, Ends, TimesOut, Finish, Fail
<1>9. QED
  BY <1>6, <1>7, <1>8 DEF Background, StartDeferred

(* Work that waits for an instant of simulated time does not happen before   *)
(* the clock reaches it (BackgroundDueTasks, SimClockControl.setTo and       *)
(* SimLambdaClockTimer.#dispatch together).                                  *)
THEOREM HappeningOnTime == Spec => HappensOnTime
<1> DEFINE OnTime ==
      \A entry \in queued \ queued' : job'[entry.job] = "running" => Now' >= entry.due
<1>1. TypeOK /\ [Next]_vars => [OnTime]_vars
  <2> SUFFICES ASSUME TypeOK, Next, NEW gone \in queued \ queued', job'[gone.job] = "running"
               PROVE  Now' >= gone.due
    OBVIOUS
  <2>1. CASE Background
    BY <2>1, BackgroundOnTime, ClockAssumption
  <2>2. CASE TimePasses \/ Switch
    BY <2>2 DEF TimePasses, Switch, backgroundVars
  <2>3. ASSUME NEW c \in Callers, Ask(c) PROVE FALSE
    BY <2>3 DEF Ask, AskComplete, AdvanceBy, SetTo
  <2>4. ASSUME NEW c \in Callers, NEW entry \in queued, Dispatch(c, entry) PROVE Now' >= gone.due
    BY <2>4, DispatchOnTime, ClockAssumption
  <2>5. ASSUME NEW c \in Callers, Proceed(c) PROVE Now' >= gone.due
    BY <2>4, <2>5 DEF Proceed, LookAgain, Walk, Reach, WalkOn, Arrive
  <2>6. QED
    BY <2>1, <2>2, <2>3, <2>5 DEF Next
<1>2. QED
  BY <1>1, TypeCorrect, PTL DEF Spec, HappensOnTime

(* SimFrozenClockMode holds the instant the running clock read.              *)
LEMMA FreezeKeepsNow == ASSUME Freeze PROVE mode'.isFrozen /\ Now' = Now
BY DEF Freeze, FrozenMode, FrozenAt, Now

(* SimRunningClockMode starts at the instant the frozen clock held.          *)
LEMMA ResumeKeepsNow == ASSUME TypeOK, ClockAssumption, Resume PROVE Now' = Now
<1>1. base \in Int /\ mode.at \in Int
  BY DEF TypeOK, ClockTypeOK, Modes, ClockAssumption
<1>2. QED
  BY <1>1 DEF Resume, ResumedMode, RunningAt, Now

(* Freezing and resuming the clock read the instant it stood at on both      *)
(* sides (SimClockMode.freeze, resume).                                      *)
THEOREM SwitchingKeeps == Spec => SwitchingKeepsTheInstant
<1>1. TypeOK /\ [Next]_vars => [Switch => Now' = Now]_vars
  BY FreezeKeepsNow, ResumeKeepsNow, ClockAssumption DEF Switch
<1>2. QED
  BY <1>1, TypeCorrect, PTL DEF Spec, SwitchingKeepsTheInstant

-----------------------------------------------------------------------------
(* Nothing waits for what is not on its way.  The host's queue and the       *)
(* queue of the clock are followed apart: WaitsAreOnTheHost needs only that  *)
(* a job is deferred, or a call at its turn, exactly while it is queued.     *)

(* What was not in a queue that holds everything once is, appended to it,    *)
(* in it once.                                                               *)
LEMMA AppendOnce ==
    ASSUME NEW S, NEW q \in Seq(S), NEW x \in S, IsInjective(q), x \notin Range(q)
    PROVE  IsInjective(Append(q, x)) /\ Range(Append(q, x)) = Range(q) \cup {x}
<1> DEFINE longer == Append(q, x)
<1>1. /\ DOMAIN q = 1 .. Len(q) /\ DOMAIN longer = 1 .. (Len(q) + 1) /\ Len(q) \in Nat
      /\ \A i \in 1 .. Len(q) : longer[i] = q[i]
      /\ longer[Len(q) + 1] = x
  OBVIOUS
<1> HIDE DEF longer
<1>2. \A i \in DOMAIN longer : i \in DOMAIN q \/ i = Len(q) + 1
  BY <1>1
<1>3. IsInjective(longer)
  BY <1>1, <1>2 DEF IsInjective, Range
<1>4. Range(longer) = Range(q) \cup {x}
  BY <1>1, <1>2 DEF Range
<1>5. QED
  BY <1>3, <1>4 DEF longer

(* A queue that holds everything once holds its head no more when it is      *)
(* taken.                                                                    *)
LEMMA TailOnce ==
    ASSUME NEW S, NEW q \in Seq(S), q # <<>>, IsInjective(q)
    PROVE  IsInjective(Tail(q)) /\ Range(Tail(q)) = Range(q) \ {Head(q)}
<1> DEFINE rest == Tail(q)
<1>1. /\ DOMAIN q = 1 .. Len(q) /\ DOMAIN rest = 1 .. (Len(q) - 1) /\ Len(q) \in Nat \ {0}
      /\ \A i \in 1 .. (Len(q) - 1) : rest[i] = q[i + 1]
      /\ Head(q) = q[1]
  OBVIOUS
<1> HIDE DEF rest
<1>2. IsInjective(rest)
  BY <1>1 DEF IsInjective
<1>3. ASSUME NEW y \in Range(rest) PROVE y \in Range(q) \ {Head(q)}
  BY <1>1, <1>3 DEF IsInjective, Range
<1>4. ASSUME NEW y \in Range(q), y # Head(q) PROVE y \in Range(rest)
  <2>1. PICK i \in 1 .. Len(q) : y = q[i]
    BY <1>1 DEF Range
  <2>2. i - 1 \in 1 .. (Len(q) - 1) /\ rest[i - 1] = y
    BY <1>1, <1>4, <2>1
  <2>3. QED
    BY <1>1, <2>2 DEF Range
<1>5. QED
  BY <1>2, <1>3, <1>4 DEF rest

(* What touches neither the host's queue nor who waits on it keeps the two   *)
(* in step.                                                                  *)
LEMMA HostKept ==
    ASSUME WaitsAreOnTheHost, hostQueue' = hostQueue,
           \A j \in Jobs : job'[j] = "deferred" <=> job[j] = "deferred",
           \A c \in Callers : call'[c].at = "reach" <=> call[c].at = "reach"
    PROVE  WaitsAreOnTheHost'
<1>1. \A callback \in HostCalls :
        \/ callback.kind = "task" /\ callback.who \in Jobs
        \/ callback.kind = "reach" /\ callback.who \in Callers
  BY DEF HostCalls
<1>2. QED
  BY <1>1 DEF WaitsAreOnTheHost

(* And what touches neither the due queue nor who waits on the clock keeps   *)
(* those in step.                                                            *)
LEMMA ClockKept ==
    ASSUME WaitsAreOnTheClock, UNCHANGED <<job, queued, parked>> PROVE WaitsAreOnTheClock'
BY DEF WaitsAreOnTheClock, TimersOf

(* The callback at the head of the queue has its job or its call waiting.    *)
LEMMA HostHead ==
    ASSUME TypeOK, WaitsAreOnTheHost, hostQueue # <<>>
    PROVE  /\ Head(hostQueue) \in HostCalls
           /\ IF Head(hostQueue).kind = "task" THEN job[Head(hostQueue).who] = "deferred"
                                               ELSE call[Head(hostQueue).who].at = "reach"
<1>1. Head(hostQueue) \in Range(hostQueue)
  <2>1. 1 \in DOMAIN hostQueue /\ Head(hostQueue) = hostQueue[1]
    BY DEF TypeOK
  <2>2. QED
    BY <2>1 DEF Range
<1>2. QED
  BY <1>1 DEF WaitsAreOnTheHost

(* What an entry of the due queue is.                                        *)
LEMMA EntryShape ==
    ASSUME TypeOK, NEW entry \in queued
    PROVE  entry.job \in Jobs /\ entry.kind \in {"task", "timer"}
BY DEF TypeOK, Entries

(* A timer that comes off the due queue releases its job with its last       *)
(* one.                                                                      *)
LEMMA TimerComesOff ==
    ASSUME TypeOK, WaitsAreOnTheClock, NEW entry \in queued, entry.kind = "timer",
           queued' = queued \ {entry}, parked' = WithoutTimer(entry), job' = job
    PROVE  WaitsAreOnTheClock'
<1>1. ASSUME NEW j \in parked' PROVE TimersOf(j)' # {}
  <2>1. j \in parked /\ TimersOf(j) # {}
    BY <1>1 DEF WithoutTimer, WaitsAreOnTheClock
  <2>2. CASE j = entry.job
    BY <1>1, <2>2 DEF WithoutTimer, TimersOf
  <2>3. CASE j # entry.job
    BY <2>1, <2>3 DEF TimersOf
  <2>4. QED
    BY <2>2, <2>3
<1>2. job[entry.job] = "running"
  BY DEF WaitsAreOnTheClock
<1>3. \A j \in Jobs : job'[j] = "queued" => \E other \in queued' : other.job = j
  BY <1>2 DEF WaitsAreOnTheClock
<1>4. QED
  BY <1>1, <1>3 DEF WaitsAreOnTheClock

(* A walk's dispatch leaves nobody waiting on the clock for nothing: a       *)
(* task starts, a timer comes off.                                           *)
LEMMA DispatchKeepsWaits ==
    ASSUME TypeOK, WaitsAreOnTheClock, NEW c, NEW entry \in queued, Dispatch(c, entry)
    PROVE  WaitsAreOnTheClock'
<1>1. entry.job \in Jobs /\ entry.kind \in {"task", "timer"}
  BY EntryShape
<1>2. CASE entry.kind = "timer"
  BY <1>2, TimerComesOff DEF Dispatch
<1>3. CASE entry.kind = "task"
  <2>1. /\ queued' = queued \ {entry} /\ parked' = parked
        /\ job' = [job EXCEPT ![entry.job] = "running"]
    BY <1>3 DEF Dispatch
  <2>2. \A other \in queued' : other.job # entry.job
    BY <1>3, <2>1 DEF WaitsAreOnTheClock
  <2>3. \A j \in Jobs : TimersOf(j)' = TimersOf(j)
    BY <1>3, <2>1 DEF TimersOf
  <2>4. \A j \in parked' : TimersOf(j)' # {}
    BY <2>1, <2>3 DEF TypeOK, WaitsAreOnTheClock
  <2>5. \A other \in queued' : job'[other.job] = job[other.job]
    BY <1>1, <2>1, <2>2, EntryShape DEF TypeOK
  <2>6. \A j \in Jobs : job'[j] = "queued" => \E other \in queued' : other.job = j
    BY <1>1, <2>1 DEF TypeOK, WaitsAreOnTheClock
  <2>7. QED
    BY <2>1, <2>4, <2>5, <2>6 DEF WaitsAreOnTheClock
<1>4. QED
  BY <1>1, <1>2, <1>3

(* complete() changes its own caller's call alone, and never makes it wait   *)
(* for a host turn.                                                          *)
LEMMA CompleteCalls ==
    ASSUME TypeOK, NEW c \in Callers, NEW race, NEW current, Complete(c, race, current),
           current \in Calls
    PROVE  /\ call'[c].at \in {"walk", "settle", "returned"}
           /\ \A d \in Callers \ {c} : call'[d] = call[d]
BY DEF TypeOK, Complete, Calls, Ended, NoCall

(* A walk leaves the queue of the clock sound, and only the call walking     *)
(* moves on, with no job any more deferred than it was.                      *)
LEMMA WalkOnWaits ==
    ASSUME TypeOK, EveryWaitIsQueued, NEW c \in Callers, WalkOn(c) \/ Arrive(c)
    PROVE  /\ WaitsAreOnTheClock'
           /\ call'[c].at # "reach"
           /\ \A d \in Callers \ {c} : call'[d] = call[d]
           /\ \A j \in Jobs : job'[j] = "deferred" <=> job[j] = "deferred"
<1> USE DEF EveryWaitIsQueued
<1>1. call[c] \in Calls
  BY DEF TypeOK
<1>2. CASE Arrive(c)
  <2> DEFINE current == [call[c] EXCEPT !.after = "returned"]
  <2>1. current \in Calls /\ Complete(c, Look(c, job, parked, FALSE), current)
    BY <1>1, <1>2 DEF Arrive, Calls
  <2>2. call'[c].at # "reach" /\ \A d \in Callers \ {c} : call'[d] = call[d]
    <3> HIDE DEF current
    <3> QED BY <2>1, CompleteCalls
  <2>3. WaitsAreOnTheClock'
    BY <1>2, ClockKept DEF Arrive
  <2>4. QED
    BY <1>2, <2>2, <2>3 DEF Arrive
<1>3. ASSUME NEW entry \in queued, Dispatch(c, entry)
      PROVE  /\ call'[c].at # "reach"
             /\ \A d \in Callers \ {c} : call'[d] = call[d]
             /\ \A j \in Jobs : job'[j] = "deferred" <=> job[j] = "deferred"
  <2> DEFINE jobs == IF entry.kind = "task" THEN [job EXCEPT ![entry.job] = "running"] ELSE job
             waiting == IF entry.kind = "timer" THEN WithoutTimer(entry) ELSE parked
             instant == LaterOfNow(entry.due)
             current == [call[c] EXCEPT !.after = "walk", !.last = instant]
  <2>1. Complete(c, Look(c, jobs, waiting, FALSE), current) /\ job' = jobs
    BY <1>3 DEF Dispatch
  <2>2. call'[c].at \in {"walk", "settle", "returned"} /\ \A d \in Callers \ {c} : call'[d] = call[d]
    <3>1. current.after = "walk" /\ \A at : [current EXCEPT !.at = at].at = at
      BY <1>1 DEF Calls
    <3> HIDE DEF current
    <3>2. QED
      BY <2>1, <3>1 DEF Complete, TypeOK
  <2>3. \A j \in Jobs : job'[j] = "deferred" <=> job[j] = "deferred"
    <3>1. entry.kind = "task" => job[entry.job] = "queued"
      BY <1>3 DEF WaitsAreOnTheClock
    <3>2. QED
      BY <2>1, <3>1 DEF TypeOK
  <2>4. QED
    BY <2>2, <2>3
<1>4. QED
  BY <1>2, <1>3, DispatchKeepsWaits DEF WalkOn

(* The step puts callback at the end of the host's queue, for the job or the *)
(* call that starts to wait for it.                                          *)
LEMMA HostAppended ==
    ASSUME TypeOK, WaitsAreOnTheHost, NEW callback \in HostCalls,
           hostQueue' = Append(hostQueue, callback),
           callback \notin Range(hostQueue),
           \A other \in HostCalls :
             (IF other.kind = "task" THEN job'[other.who] = "deferred" ELSE call'[other.who].at = "reach")
             <=> \/ other = callback
                 \/ IF other.kind = "task" THEN job[other.who] = "deferred" ELSE call[other.who].at = "reach"
    PROVE  WaitsAreOnTheHost'
<1>1. IsInjective(hostQueue') /\ Range(hostQueue') = Range(hostQueue) \cup {callback}
  BY AppendOnce DEF TypeOK, WaitsAreOnTheHost
<1>2. QED
  BY <1>1 DEF WaitsAreOnTheHost

(* The host takes the callback at the head of its queue.                     *)
LEMMA HostTaken ==
    ASSUME TypeOK, WaitsAreOnTheHost, hostQueue # <<>>, hostQueue' = Tail(hostQueue),
           \A other \in HostCalls :
             (IF other.kind = "task" THEN job'[other.who] = "deferred" ELSE call'[other.who].at = "reach")
             <=> /\ other # Head(hostQueue)
                 /\ IF other.kind = "task" THEN job[other.who] = "deferred" ELSE call[other.who].at = "reach"
    PROVE  WaitsAreOnTheHost'
<1>1. IsInjective(hostQueue') /\ Range(hostQueue') = Range(hostQueue) \ {Head(hostQueue)}
  BY TailOnce DEF TypeOK, WaitsAreOnTheHost
<1>2. QED
  BY <1>1 DEF WaitsAreOnTheHost

(* A callback of the host's queue is a deferred job or a call that gave up   *)
(* its turn.                                                                 *)
LEMMA HostCallShape ==
    ASSUME NEW callback \in HostCalls
    PROVE  \/ callback.who \in Jobs /\ callback = [kind |-> "task", who |-> callback.who]
           \/ callback.who \in Callers /\ callback = [kind |-> "reach", who |-> callback.who]
BY DEF HostCalls

(* Putting a job's first entry on the due queue, or a running job's next     *)
(* timer, keeps who waits on the clock and what is queued in step.           *)
LEMMA EntryAdded ==
    ASSUME TypeOK, WaitsAreOnTheClock, NEW due, NEW j \in Jobs, NEW kind \in {"task", "timer"},
           Push(due, j, kind),
           \A i \in Jobs \ {j} : job'[i] = job[i],
           job'[j] = IF kind = "timer" THEN "running" ELSE "queued",
           job[j] = IF kind = "timer" THEN "running" ELSE "idle",
           parked' \subseteq parked \/ (kind = "timer" /\ parked' \subseteq parked \cup {j})
    PROVE  WaitsAreOnTheClock'
<1> DEFINE new == [id |-> pushes, due |-> due, job |-> j, kind |-> kind]
<1>1. queued' = queued \cup {new} /\ new.job = j /\ new.kind = kind
  BY DEF Push
<1> HIDE DEF new
<1>2. \A entry \in queued : kind = "task" => entry.job # j
  BY DEF WaitsAreOnTheClock
<1>3. \A entry \in queued : job'[entry.job] = job[entry.job]
  BY <1>2, EntryShape
<1>4. \A i \in parked' : TimersOf(i)' # {}
  BY <1>1 DEF WaitsAreOnTheClock, TimersOf
<1>5. \A entry \in queued' :
        job'[entry.job] = IF entry.kind = "timer" THEN "running" ELSE "queued"
  BY <1>1, <1>3 DEF WaitsAreOnTheClock
<1>6. \A i \in Jobs : job'[i] = "queued" => \E entry \in queued' : entry.job = i
  BY <1>1 DEF WaitsAreOnTheClock
<1>7. \A entry, other \in queued' : entry.kind = "task" /\ entry.job = other.job => entry = other
  <2>1. kind = "timer" => job[j] = "running"
    OBVIOUS
  <2>2. QED
    BY <1>1, <1>2, <2>1 DEF WaitsAreOnTheClock
<1>8. QED
  BY <1>4, <1>5, <1>6, <1>7 DEF WaitsAreOnTheClock

(* So does a job that ends, which takes its timers with it.                  *)
LEMMA EndKeepsWaits ==
    ASSUME TypeOK, WaitsAreOnTheClock, NEW j \in Jobs, NEW how \in {"done", "failed"},
           job[j] = "running", End(j, how)
    PROVE  WaitsAreOnTheClock'
<1>1. job' = [job EXCEPT ![j] = how] /\ queued' = queued \ TimersOf(j) /\ parked' = parked \ {j}
  BY DEF End
<1>2. \A entry \in queued' : entry.job # j
  BY <1>1, EntryShape DEF WaitsAreOnTheClock, TimersOf
<1>3. \A i \in parked' : TimersOf(i)' # {}
  BY <1>1 DEF WaitsAreOnTheClock, TimersOf
<1>4. \A entry \in queued' : job'[entry.job] = job[entry.job]
  BY <1>1, <1>2, EntryShape DEF TypeOK
<1>5. \A i \in Jobs : job'[i] = "queued" => \E entry \in queued' : entry.job = i
  BY <1>1 DEF TypeOK, WaitsAreOnTheClock, TimersOf
<1>6. QED
  BY <1>1, <1>3, <1>4, <1>5 DEF WaitsAreOnTheClock

(* Nothing the scheduler, the host's queue and the jobs do leaves anybody    *)
(* waiting for what is not queued.                                           *)
LEMMA BackgroundWaits ==
    ASSUME TypeOK, EveryWaitIsQueued, Background
    PROVE  EveryWaitIsQueued'
<1> USE DEF EveryWaitIsQueued
<1>1. UNCHANGED call /\ job \in [Jobs -> JobStates]
  BY DEF Background, TypeOK
<1>2. ASSUME NEW j \in Jobs, NEW delay, ScheduleAt(j, delay) PROVE EveryWaitIsQueued'
  <2>1. WaitsAreOnTheClock'
    BY <1>1, <1>2, EntryAdded DEF ScheduleAt
  <2>2. WaitsAreOnTheHost'
    BY <1>1, <1>2, HostKept DEF ScheduleAt
  <2>3. QED
    BY <2>1, <2>2
<1>3. ASSUME NEW j \in Jobs, CancelScheduled(j) PROVE EveryWaitIsQueued'
  <2>1. job[j] = "queued" /\ job' = [job EXCEPT ![j] = "idle"] /\ parked' = parked
        /\ queued' = {entry \in queued : entry.job # j}
    BY <1>3 DEF CancelScheduled
  <2>2. \A i \in parked' : TimersOf(i)' # {}
    <3>1. \A i \in parked : i # j
      BY <2>1 DEF WaitsAreOnTheClock, TimersOf
    <3>2. QED
      BY <2>1, <3>1 DEF WaitsAreOnTheClock, TimersOf
  <2>3. WaitsAreOnTheClock'
    BY <1>1, <2>1, <2>2, EntryShape DEF WaitsAreOnTheClock
  <2>4. WaitsAreOnTheHost'
    BY <1>1, <1>3, HostKept DEF CancelScheduled
  <2>5. QED
    BY <2>3, <2>4
<1>4. ASSUME NEW j \in Jobs, Schedule(j) \/ Outstanding(j) PROVE WaitsAreOnTheClock'
  <2>1. job[j] = "idle" /\ (job' = [job EXCEPT ![j] = "deferred"] \/ job' = [job EXCEPT ![j] = "running"])
        /\ UNCHANGED <<queued, parked>>
    BY <1>4 DEF Schedule, Outstanding
  <2>2. \A entry \in queued : entry.job # j
    BY <2>1 DEF WaitsAreOnTheClock
  <2>3. QED
    BY <1>1, <2>1, <2>2, EntryShape DEF WaitsAreOnTheClock, TimersOf
<1>5. ASSUME NEW j \in Jobs, Schedule(j) PROVE WaitsAreOnTheHost'
  <2> DEFINE callback == [kind |-> "task", who |-> j]
  <2>1. callback \in HostCalls /\ callback \notin Range(hostQueue)
    BY <1>5 DEF HostCalls, Schedule, WaitsAreOnTheHost
  <2>2. \A other \in HostCalls :
          (IF other.kind = "task" THEN job'[other.who] = "deferred" ELSE call'[other.who].at = "reach")
          <=> \/ other = callback
              \/ IF other.kind = "task" THEN job[other.who] = "deferred" ELSE call[other.who].at = "reach"
    BY <1>1, <1>5, HostCallShape DEF Schedule
  <2>3. hostQueue' = Append(hostQueue, callback)
    BY <1>5 DEF Schedule
  <2> HIDE DEF callback
  <2>4. QED
    BY <2>1, <2>2, <2>3, HostAppended
<1>6. ASSUME NEW j \in Jobs, Outstanding(j) PROVE WaitsAreOnTheHost'
  BY <1>1, <1>6, HostKept DEF Outstanding
<1>7. CASE StartDeferred
  <2> DEFINE who == Head(hostQueue).who
  <2>1. who \in Jobs /\ job[who] = "deferred" /\ Head(hostQueue) = [kind |-> "task", who |-> who]
    BY <1>7, HostHead, HostCallShape DEF StartDeferred
  <2>2. job' = [job EXCEPT ![who] = "running"] /\ UNCHANGED <<queued, parked>>
        /\ hostQueue # <<>> /\ hostQueue' = Tail(hostQueue)
    BY <1>7 DEF StartDeferred
  <2> HIDE DEF who
  <2>3. \A entry \in queued : entry.job # who
    BY <2>1 DEF WaitsAreOnTheClock
  <2>4. WaitsAreOnTheClock'
    BY <1>1, <2>1, <2>2, <2>3, EntryShape DEF WaitsAreOnTheClock, TimersOf
  <2>5. WaitsAreOnTheHost'
    BY <1>1, <2>1, <2>2, HostTaken, HostCallShape
  <2>6. QED
    BY <2>4, <2>5
<1>8. CASE HostTimer
  <2> PICK entry \in queued : HostTimerFires(entry)
    BY <1>8 DEF HostTimer
  <2>1. WaitsAreOnTheClock'
    BY TimerComesOff DEF HostTimerFires
  <2>2. WaitsAreOnTheHost'
    BY <1>1, HostKept DEF HostTimerFires
  <2>3. QED
    BY <2>1, <2>2
<1>9. ASSUME NEW j \in Jobs, Waits(j) PROVE EveryWaitIsQueued'
  <2> PICK delay \in ParkDelays : Park(j, delay)
    BY <1>9 DEF Waits
  <2>1. job[j] = "running" /\ UNCHANGED <<job, hostQueue>> /\ parked' \subseteq parked \cup {j}
    BY <1>9 DEF Waits, CanStep, Park
  <2>2. WaitsAreOnTheClock'
    BY <2>1, EntryAdded DEF Park
  <2>3. WaitsAreOnTheHost'
    BY <1>1, <2>1, HostKept
  <2>4. QED
    BY <2>2, <2>3
<1>10. ASSUME NEW j \in Jobs, Ends(j) \/ TimesOut(j) PROVE EveryWaitIsQueued'
  <2>1. job[j] = "running" /\ \E how \in {"done", "failed"} : End(j, how)
    BY <1>10 DEF Ends, TimesOut, CanStep, Finish, Fail
  <2>2. WaitsAreOnTheClock'
    BY <2>1, EndKeepsWaits
  <2>3. WaitsAreOnTheHost'
    BY <1>1, <2>1, HostKept DEF End
  <2>4. QED
    BY <2>2, <2>3
<1>11. QED
  BY <1>2, <1>3, <1>4, <1>5, <1>6, <1>7, <1>8, <1>9, <1>10 DEF Background, Asked

(* Nor does asking to settle or to move the clock.                           *)
LEMMA AskWaits ==
    ASSUME TypeOK, EveryWaitIsQueued, NEW c \in Callers, Ask(c)
    PROVE  EveryWaitIsQueued'
<1> USE DEF EveryWaitIsQueued
<1>1. ~UnderWay(c)
  BY DEF Ask, AskComplete, AdvanceBy, SetTo, CanAsk, CanAct, CanStep
<1>2. WaitsAreOnTheClock'
  BY ClockKept DEF Ask, AskComplete, AdvanceBy, SetTo
<1>3. CASE AskComplete(c)
  <2> DEFINE current == NewCall("complete", "settle", Now)
  <2>1. Complete(c, Look(c, job, parked, Advances), current) /\ UNCHANGED <<job, hostQueue>>
    BY <1>3 DEF AskComplete
  <2>2. current \in Calls
    BY NowIsInt, NewCallType, ClockAssumption DEF TypeOK
  <2>3. call'[c].at # "reach" /\ \A d \in Callers \ {c} : call'[d] = call[d]
    <3> HIDE DEF current
    <3> QED BY <2>1, <2>2, CompleteCalls
  <2>4. QED
    BY <1>1, <1>2, <2>1, <2>3, HostKept DEF UnderWay
<1>4. ASSUME NEW instant, SetTo(c, instant) PROVE WaitsAreOnTheHost'
  <2> DEFINE callback == [kind |-> "reach", who |-> c]
  <2>1. callback \in HostCalls /\ callback \notin Range(hostQueue)
    BY <1>1 DEF HostCalls, WaitsAreOnTheHost, UnderWay
  <2>2. job' = job /\ call'[c].at = "reach" /\ \A d \in Callers \ {c} : call'[d] = call[d]
    BY <1>4 DEF SetTo, NewCall, TypeOK
  <2>3. \A other \in HostCalls :
          (IF other.kind = "task" THEN job'[other.who] = "deferred" ELSE call'[other.who].at = "reach")
          <=> \/ other = callback
              \/ IF other.kind = "task" THEN job[other.who] = "deferred" ELSE call[other.who].at = "reach"
    BY <2>2, HostCallShape
  <2>4. hostQueue' = Append(hostQueue, callback)
    BY <1>4 DEF SetTo
  <2> HIDE DEF callback
  <2>5. QED
    BY <2>1, <2>3, <2>4, HostAppended
<1>5. QED
  BY <1>2, <1>3, <1>4 DEF Ask, AdvanceBy

(* A call is settling exactly while it has a race under way.                 *)
RacesAreSettling == \A c \in Callers : settle[c].batch # {} <=> call[c].at = "settle"

(* complete() leaves a race exactly where it leaves its caller settling.     *)
LEMMA CompleteRaces ==
    ASSUME TypeOK, RacesAreSettling, NEW c \in Callers, NEW race \in Races, NEW current \in Calls,
           Complete(c, race, current)
    PROVE  RacesAreSettling'
<1>1. /\ \A d \in Callers \ {c} : call'[d] = call[d] /\ settle'[d] = settle[d]
      /\ settle'[c] = IF race.batch = {} THEN NoRace ELSE race
      /\ call'[c].at = "settle" <=> race.batch # {}
  BY DEF TypeOK, Complete, Calls, Ended, NoCall
<1>2. QED
  BY <1>1 DEF RacesAreSettling, NoRace

(* Every step keeps it so.                                                   *)
LEMMA RacesStaySettling ==
    ASSUME TypeOK, ClockAssumption, BackgroundAssumption, ControlAssumption,
           RacesAreSettling, [Next]_vars
    PROVE  RacesAreSettling'
<1>1. CASE Background
  <2>1. call' = call /\ (settle' = settle \/ settle' = Wake(settle))
    BY <1>1 DEF Background, Asked, ScheduleAt, Schedule, CancelScheduled, Outstanding, StartDeferred,
        HostTimer, HostTimerFires, Waits, Park, Ends, TimesOut, Finish, Fail, End
  <2>2. \A c \in Callers : Wake(settle)[c].batch = settle[c].batch
    BY DEF Wake, TypeOK, Races
  <2>3. QED
    BY <2>1, <2>2 DEF RacesAreSettling
<1>2. CASE TimePasses \/ Switch \/ UNCHANGED vars
  BY <1>2 DEF TimePasses, Switch, vars, backgroundVars, RacesAreSettling
<1>3. ASSUME NEW c \in Callers, AskComplete(c) PROVE RacesAreSettling'
  <2>1. Look(c, job, parked, Advances) \in Races
    <3>1. Advances \in BOOLEAN
      BY DEF Advances
    <3>2. QED
      BY <3>1, LookType
  <2>2. NewCall("complete", "settle", Now) \in Calls
    BY NowIsInt, NewCallType DEF TypeOK
  <2>3. QED
    BY <1>3, <2>1, <2>2, CompleteRaces DEF AskComplete
<1>4. ASSUME NEW c \in Callers, NEW instant, SetTo(c, instant) PROVE RacesAreSettling'
  <2>1. call[c].at # "settle"
    BY <1>4 DEF SetTo, CanAsk, CanAct, CanStep, UnderWay
  <2>2. QED
    BY <1>4, <2>1 DEF SetTo, NewCall, RacesAreSettling, TypeOK
<1>5. ASSUME NEW c \in Callers, LookAgain(c) PROVE RacesAreSettling'
  <2>1. call[c] \in Calls /\ settle[c] \in Races
    BY DEF TypeOK
  <2>2. CASE RaceThrows(c)
    BY <1>5, <2>2 DEF LookAgain, Ended, NoCall, NoRace, RacesAreSettling, TypeOK
  <2>3. CASE ~RaceThrows(c)
    <3>1. Look(c, job, parked, settle[c].runs) \in Races
      BY <2>1, LookType DEF Races
    <3>2. QED
      BY <1>5, <2>1, <2>3, <3>1, CompleteRaces DEF LookAgain
  <2>4. QED
    BY <2>2, <2>3
<1>6. ASSUME NEW c \in Callers, Arrive(c) PROVE RacesAreSettling'
  <2>1. call[c] \in Calls
    BY DEF TypeOK
  <2>2. [call[c] EXCEPT !.after = "returned"] \in Calls
    BY <2>1 DEF Calls
  <2>3. QED
    BY <1>6, <2>2, LookType, CompleteRaces DEF Arrive
<1>7. ASSUME NEW c \in Callers, NEW entry \in queued, Dispatch(c, entry) PROVE RacesAreSettling'
  <2> DEFINE jobs == IF entry.kind = "task" THEN [job EXCEPT ![entry.job] = "running"] ELSE job
             waiting == IF entry.kind = "timer" THEN WithoutTimer(entry) ELSE parked
             instant == LaterOfNow(entry.due)
             race == Look(c, jobs, waiting, FALSE)
             current == [call[c] EXCEPT !.after = "walk", !.last = instant]
  <2>1. race \in Races /\ instant \in Int /\ call[c] \in Calls
    BY LookType, NowIsInt DEF LaterOfNow, TypeOK, Entries
  <2>2. current \in Calls
    <3> HIDE DEF instant
    <3> QED BY <2>1 DEF Calls
  <2>3. Complete(c, race, current)
    BY <1>7 DEF Dispatch
  <2> HIDE DEF race, current
  <2>4. QED
    BY <2>1, <2>2, <2>3, CompleteRaces
<1>8. QED
  BY <1>1, <1>2, <1>3, <1>4, <1>5, <1>6, <1>7
     DEF Next, Ask, AdvanceBy, Proceed, Walk, Reach, WalkOn

(* A call getting on leaves nobody waiting for what is not queued, because   *)
(* a call that is settling is no callback of the host's.                     *)
LEMMA ProceedWaits ==
    ASSUME TypeOK, EveryWaitIsQueued, RacesAreSettling, NEW c \in Callers, Proceed(c)
    PROVE  EveryWaitIsQueued'
<1> USE DEF EveryWaitIsQueued
<1>1. call[c] \in Calls
  BY DEF TypeOK
<1>2. CASE LookAgain(c)
  <2>1. WaitsAreOnTheClock' /\ UNCHANGED <<job, hostQueue>>
    BY <1>2, ClockKept DEF LookAgain
  <2>2. call[c].at # "reach"
    BY <1>2 DEF LookAgain, RaceIsOver, RacesAreSettling
  <2>3. call'[c].at # "reach" /\ \A d \in Callers \ {c} : call'[d] = call[d]
    BY <1>1, <1>2, CompleteCalls DEF LookAgain, Ended, NoCall, TypeOK
  <2>4. QED
    BY <2>1, <2>2, <2>3, HostKept
<1>3. CASE Walk(c)
  BY <1>3, WalkOnWaits, HostKept DEF Walk
<1>4. CASE Reach(c)
  <2>1. WalkOn(c) \/ Arrive(c)
    BY <1>4 DEF Reach
  <2>2. Head(hostQueue) = [kind |-> "reach", who |-> c] /\ hostQueue # <<>> /\ hostQueue' = Tail(hostQueue)
    BY <1>4 DEF Reach
  <2>3. WaitsAreOnTheHost'
    BY <2>1, <2>2, WalkOnWaits, HostTaken, HostCallShape
  <2>4. QED
    BY <2>1, <2>3, WalkOnWaits
<1>5. QED
  BY <1>2, <1>3, <1>4 DEF Proceed

(* A caller is in a race exactly while it is settling: nobody who has        *)
(* returned, thrown or walked on is still waited for in Promise.race.        *)
THEOREM RacesSettling == Spec => []RacesAreSettling
<1>1. Init => RacesAreSettling
  BY DEF Init, BackgroundInit, NoRace, NoCall, RacesAreSettling
<1>2. TypeOK /\ RacesAreSettling /\ [Next]_vars => RacesAreSettling'
  BY RacesStaySettling, ClockAssumption, BackgroundAssumption, ControlAssumption
<1>3. QED
  BY <1>1, <1>2, TypeCorrect, PTL DEF Spec

(* Whatever waits for an instant, for a timer or for a turn of the host is   *)
(* queued where that comes from, exactly once (BackgroundDueTasks,           *)
(* SimLambdaInvocationTimers and the setTimeout callbacks of                 *)
(* BackgroundTasks.schedule and SimClockControl.setTo).  On its own this is  *)
(* not inductive: that the end of a race leaves a call's turn alone takes    *)
(* RacesAreSettling.                                                         *)
THEOREM WaitsStayQueued == Spec => []EveryWaitIsQueued
<1>1. Init => EveryWaitIsQueued
  <2> SUFFICES ASSUME Init PROVE EveryWaitIsQueued
    OBVIOUS
  <2>1. WaitsAreOnTheClock
    BY DEF Init, BackgroundInit, WaitsAreOnTheClock
  <2>2. WaitsAreOnTheHost
    BY HostCallShape DEF Init, BackgroundInit, NoCall, WaitsAreOnTheHost, IsInjective, Range
  <2>3. QED
    BY <2>1, <2>2 DEF EveryWaitIsQueued
<1>2. TypeOK /\ RacesAreSettling /\ EveryWaitIsQueued /\ [Next]_vars => EveryWaitIsQueued'
  <2> SUFFICES ASSUME TypeOK, RacesAreSettling, EveryWaitIsQueued, [Next]_vars
               PROVE  EveryWaitIsQueued'
    OBVIOUS
  <2>1. CASE Background
    BY <2>1, BackgroundWaits
  <2>2. CASE TimePasses \/ Switch \/ UNCHANGED vars
    BY <2>2, ClockKept, HostKept
       DEF TimePasses, Switch, vars, backgroundVars, EveryWaitIsQueued
  <2>3. ASSUME NEW c \in Callers, Ask(c) \/ Proceed(c) PROVE EveryWaitIsQueued'
    BY <2>3, AskWaits, ProceedWaits
  <2>4. QED
    BY <2>1, <2>2, <2>3 DEF Next
<1>3. QED
  BY <1>1, <1>2, TypeCorrect, RacesSettling, PTL DEF Spec

-----------------------------------------------------------------------------
(* How the race of a caller ends.                                            *)

(* The race a caller waits for is replaced or dropped only by the caller's   *)
(* own next turn, except that a park wakes it.                               *)
LEMMA RaceTurns ==
    ASSUME TypeOK, EveryWaitIsQueued, RacesAreSettling, Next,
           NEW c \in Callers, settle[c].batch # {}, settle'[c] # settle[c], ~settle'[c].woken
    PROVE  LookAgain(c)
<1> USE ClockAssumption, BackgroundAssumption
<1>1. call[c].at = "settle"
  BY DEF RacesAreSettling
<1>2. ~Background
  <2>1. ASSUME Background PROVE settle' = settle \/ settle' = Wake(settle)
    BY <2>1 DEF Background, Asked, ScheduleAt, Schedule, CancelScheduled, Outstanding, StartDeferred,
        HostTimer, HostTimerFires, Waits, Park, Ends, TimesOut, Finish, Fail, End
  <2>2. settle[c] \in Races /\ Wake(settle)[c] = [settle[c] EXCEPT !.woken = TRUE]
    BY DEF TypeOK, Wake
  <2>3. Wake(settle)[c].woken
    BY <2>2 DEF Races
  <2>4. QED
    BY <2>1, <2>3
<1>3. ~TimePasses /\ ~Switch
  BY DEF TimePasses, Switch, backgroundVars
<1>4. ASSUME NEW d \in Callers PROVE ~Ask(d)
  <2>1. CASE d = c
    BY <1>1, <2>1 DEF Ask, AskComplete, AdvanceBy, SetTo, CanAsk, CanAct, CanStep, UnderWay
  <2>2. CASE d # c
    BY <2>2 DEF Ask, AskComplete, AdvanceBy, SetTo, Complete, TypeOK
  <2>3. QED
    BY <2>1, <2>2
<1>5. ASSUME NEW d \in Callers \ {c} PROVE ~Proceed(d)
  BY <1>5 DEF Proceed, LookAgain, Walk, Reach, WalkOn, Arrive, Dispatch, Complete, TypeOK
<1>6. ~Walk(c)
  BY <1>1 DEF Walk
<1>7. ~Reach(c)
  BY <1>1, HostHead DEF Reach, EveryWaitIsQueued
<1>8. QED
  BY <1>2, <1>3, <1>4, <1>5, <1>6, <1>7 DEF Next, Proceed

(* complete() throws when a task it waits for has failed, unless a park has  *)
(* won its race, and only then; the failure of work that a caller started is *)
(* that caller's (throwFirstFailure over the settled batch).                 *)
THEOREM FailuresSurfacing == Spec => FailuresSurfaceUnlessParked
<1> DEFINE Surface ==
      \A c \in Callers : RaceEnds(c) =>
         (call'[c].at = "threw" <=> TaskFailed(c) /\ ~settle[c].woken)
<1>1. TypeOK /\ EveryWaitIsQueued /\ RacesAreSettling /\ [Next]_vars => [Surface]_vars
  <2> SUFFICES ASSUME TypeOK, EveryWaitIsQueued, RacesAreSettling, Next,
                      NEW c \in Callers, RaceEnds(c)
               PROVE  call'[c].at = "threw" <=> TaskFailed(c) /\ ~settle[c].woken
    OBVIOUS
  <2>1. LookAgain(c)
    BY RaceTurns DEF RaceEnds
  <2>2. RaceThrows(c) <=> TaskFailed(c) /\ ~settle[c].woken
    BY DEF RaceThrows, FailedInBatch, TaskFailed
  <2>3. CASE RaceThrows(c)
    BY <2>1, <2>2, <2>3 DEF LookAgain, Ended, NoCall, TypeOK
  <2>4. CASE ~RaceThrows(c)
    <3>1. call[c] \in Calls
      BY DEF TypeOK
    <3>2. call'[c].at # "threw"
      BY <2>1, <2>4, <3>1, CompleteCalls DEF LookAgain
    <3>3. QED
      BY <2>2, <2>4, <3>2
  <2>5. QED
    BY <2>3, <2>4
<1>2. QED
  BY <1>1, TypeCorrect, WaitsStayQueued, RacesSettling, PTL DEF Spec, FailuresSurfaceUnlessParked

-----------------------------------------------------------------------------
(* What a step does to the call of the caller whose step it is, and to the   *)
(* clock.                                                                    *)

(* The fields complete() leaves in the call of c.                            *)
LEMMA CompleteFields ==
    ASSUME TypeOK, NEW c \in Callers, NEW race, NEW current \in Calls, Complete(c, race, current)
    PROVE  /\ \A d \in Callers \ {c} : call'[d] = call[d]
           /\ \/ call'[c].at = "returned" /\ call'[c].since = 0
              \/ /\ call'[c].at \in {"walk", "settle"}
                 /\ call'[c].at = "walk" => current.after = "walk"
                 /\ call'[c].after = current.after /\ call'[c].op = current.op
                 /\ call'[c].target = current.target /\ call'[c].from = current.from
                 /\ call'[c].since = current.since /\ call'[c].last = current.last
           /\ call'[c].at = "returned" => current.after = "returned"
BY DEF TypeOK, Complete, Calls, Ended, NoCall

(* What reaching the instant asked for does to the call and to the clock.    *)
LEMMA ArriveFields ==
    ASSUME TypeOK, NEW c \in Callers, Arrive(c)
    PROVE  /\ \A d \in Callers \ {c} : call'[d] = call[d]
           /\ \/ call'[c].at = "returned" /\ call'[c].since = 0
              \/ /\ call'[c].at = "settle" /\ call'[c].after = "returned"
                 /\ call'[c].op = call[c].op /\ call'[c].since = call[c].since
                 /\ call'[c].target = call[c].target /\ call'[c].from = call[c].from
           /\ mode'.isFrozen /\ Now' = call[c].target
           /\ UNCHANGED <<queued, pushes>>
<1> DEFINE current == [call[c] EXCEPT !.after = "returned"]
<1>1. call[c] \in Calls
  BY DEF TypeOK
<1>2. /\ current \in Calls /\ current.after = "returned" /\ current.op = call[c].op
      /\ current.since = call[c].since /\ current.target = call[c].target /\ current.from = call[c].from
  BY <1>1 DEF Calls
<1>3. Complete(c, Look(c, job, parked, FALSE), current)
  BY DEF Arrive
<1> HIDE DEF current
<1>4. mode'.isFrozen /\ Now' = call[c].target /\ UNCHANGED <<queued, pushes>>
  BY DEF Arrive, SetClockTo, FrozenAt, Now
<1>5. QED
  BY <1>2, <1>3, <1>4, CompleteFields

(* What a walk's dispatch does to the call and to the clock.                 *)
LEMMA DispatchFields ==
    ASSUME TypeOK, ClockAssumption, NEW c \in Callers, NEW entry \in queued, Dispatch(c, entry)
    PROVE  /\ \A d \in Callers \ {c} : call'[d] = call[d]
           /\ call'[c].at \in {"walk", "settle"} /\ call'[c].after = "walk"
           /\ call'[c].op = call[c].op /\ call'[c].since = call[c].since
           /\ call'[c].target = call[c].target
           /\ call'[c].last = Now' /\ Now' = LaterOfNow(entry.due) /\ mode'.isFrozen
           /\ UNCHANGED pushes
<1> DEFINE jobs == IF entry.kind = "task" THEN [job EXCEPT ![entry.job] = "running"] ELSE job
           waiting == IF entry.kind = "timer" THEN WithoutTimer(entry) ELSE parked
           instant == LaterOfNow(entry.due)
           race == Look(c, jobs, waiting, FALSE)
           current == [call[c] EXCEPT !.after = "walk", !.last = instant]
<1>1. call[c] \in Calls /\ instant \in Int
  BY NowIsInt DEF TypeOK, Entries, LaterOfNow
<1>2. mode'.isFrozen /\ Now' = instant /\ UNCHANGED pushes
  BY DEF Dispatch, SetClockTo, FrozenAt, Now
<1>3. Complete(c, race, current)
  BY DEF Dispatch
<1> HIDE DEF race
<1>4. /\ current \in Calls /\ current.after = "walk" /\ current.op = call[c].op
      /\ current.since = call[c].since /\ current.target = call[c].target /\ current.last = instant
  <2> HIDE DEF instant
  <2> QED BY <1>1 DEF Calls
<1> HIDE DEF current
<1>5. QED
  BY <1>2, <1>3, <1>4, CompleteFields

(* What is pushed while a call is under way counts from the call on.         *)
LEMMA BackgroundQueue ==
    ASSUME TypeOK, BackgroundAssumption, Background
    PROVE  /\ pushes' \in {pushes, pushes + 1}
           /\ \A entry \in queued' : entry \in queued \/ entry.id = pushes
           /\ UNCHANGED call /\ mode' = mode /\ Now' = Now
<1>1. ASSUME NEW due, NEW j, NEW kind, Push(due, j, kind)
      PROVE  pushes' = pushes + 1 /\ \A entry \in queued' : entry \in queued \/ entry.id = pushes
  BY <1>1 DEF Push
<1>2. UNCHANGED call /\ mode' = mode /\ Now' = Now
  BY DEF Background, clockVars, Now
<1>3. CASE \E c \in Callers, j \in Jobs : Asked(c, j)
  BY <1>1, <1>2, <1>3 DEF Asked, ScheduleAt, Schedule, CancelScheduled, Outstanding
<1>4. CASE StartDeferred \/ HostTimer
  BY <1>2, <1>4 DEF StartDeferred, HostTimer, HostTimerFires
<1>5. CASE \E j \in Jobs : Waits(j) \/ Ends(j) \/ TimesOut(j)
  BY <1>1, <1>2, <1>5 DEF Waits, Park, Ends, TimesOut, Finish, Fail, End
<1>6. QED
  BY <1>3, <1>4, <1>5 DEF Background

(* A call ends only by a step of its own.                                    *)
LEMMA EndsOfCalls ==
    ASSUME TypeOK, Next,
           NEW c \in Callers, UnderWay(c), call'[c].at \in {"returned", "threw"}
    PROVE  Proceed(c)
<1>1. call'[c] # call[c]
  BY DEF UnderWay
<1>2. ~Background
  BY <1>1, BackgroundAssumption DEF Background
<1>3. ~TimePasses /\ ~Switch
  BY <1>1 DEF TimePasses, Switch
<1>4. ASSUME NEW d \in Callers PROVE ~Ask(d)
  <2>1. CASE d = c
    BY <2>1 DEF Ask, AskComplete, AdvanceBy, SetTo, CanAsk, CanAct, CanStep
  <2>2. CASE d # c
    <3>1. AskComplete(d) \/ (\E instant : SetTo(d, instant)) => call'[c] = call[c]
      BY <2>2 DEF AskComplete, Complete, SetTo, TypeOK
    <3>2. QED
      BY <1>1, <3>1 DEF Ask, AdvanceBy
  <2>3. QED
    BY <2>1, <2>2
<1>5. ASSUME NEW d \in Callers \ {c}, Proceed(d) PROVE call'[c] = call[c]
  BY <1>5, ArriveFields, DispatchFields, ClockAssumption
     DEF Proceed, LookAgain, Complete, Walk, Reach, WalkOn, TypeOK
<1>6. QED
  BY <1>1, <1>2, <1>3, <1>4, <1>5 DEF Next

(* A call that complete() ends finds all other work held waiting on the      *)
(* clock.                                                                    *)
LEMMA ReturnsWithNone ==
    ASSUME TypeOK, NEW c \in Callers, NEW jobs, NEW waiting, NEW runs, NEW current \in Calls,
           Complete(c, Look(c, jobs, waiting, runs), current), call'[c].at = "returned"
    PROVE  \A j \in Held(jobs) \ {c} : j \in waiting
<1> DEFINE race == Look(c, jobs, waiting, runs)
<1>1. race.batch = {}
  <2> HIDE DEF race
  <2>1. [current EXCEPT !.at = "settle"].at # "returned"
    BY DEF Calls
  <2>2. Complete(c, race, current)
    BY DEF race
  <2>3. QED
    BY <2>1, <2>2 DEF Complete, TypeOK
<1>2. QED
  BY <1>1 DEF Look, Runnable, Held

=============================================================================
