---------------------- MODULE SimClockControlWalksProofs ---------------------
(* What complete() leaves behind when it returns, proved for any number of   *)
(* callers whose calls overlap in any way, failures in their walks included. *)
EXTENDS SimClockControlWalks, SimClockControlProofs

(* A call that waits for its turn has no walk yet, and one about to take a   *)
(* turn of a walk is on it.                                                  *)
WalksAreMarked ==
    \A c \in Callers :
      /\ call[c].at = "reach" => call[c].after = "returned"
      /\ call[c].at = "walk" => call[c].after = "walk"

(* A timer that parks its job is ahead of the clock, unless a walk has yet   *)
(* to dispatch it or was cut short before it did.                            *)
ParkedAhead ==
    \A entry \in queued :
      entry.kind = "timer" /\ entry.job \in parked /\ entry.due <= Now
      => entry \in leftBehind \/ AwaitsAWalk(entry)

(* What walks on stays recorded: an entry left behind until it is off the    *)
(* queue, and what a walk cut short now had still due.                       *)
LEMMA HistoryKept ==
    ASSUME WalksNext, NEW entry \in queued'
    PROVE  /\ entry \in leftBehind => entry \in leftBehind'
           /\ \A c \in Callers : CutShort(c) /\ entry \in StillDue(c) => entry \in leftBehind'
BY DEF WalksNext

(* A call getting on is marked for where it has got to.                      *)
LEMMA ProceedIsMarked ==
    ASSUME TypeOK, ClockAssumption, WalksAreMarked, NEW c \in Callers, Proceed(c)
    PROVE  WalksAreMarked'
<1>1. call[c] \in Calls
  BY DEF TypeOK
<1>2. CASE LookAgain(c)
  <2>1. CASE RaceThrows(c)
    BY <1>2, <2>1 DEF LookAgain, Ended, NoCall, TypeOK, WalksAreMarked
  <2>2. CASE ~RaceThrows(c)
    <3> DEFINE race == Look(c, job, parked, settle[c].runs)
    <3>1. Complete(c, race, call[c])
      BY <1>2, <2>2 DEF LookAgain
    <3> HIDE DEF race
    <3>2. QED
      BY <1>1, <3>1, CompleteFields DEF WalksAreMarked
  <2>3. QED
    BY <2>1, <2>2
<1>3. CASE WalkOn(c) \/ Arrive(c)
  BY <1>3, ArriveFields, DispatchFields DEF WalkOn, WalksAreMarked
<1>4. QED
  BY <1>2, <1>3 DEF Proceed, Walk, Reach

(* Where each call has got to and what follows it agree throughout.          *)
LEMMA WalksStayMarked ==
    ASSUME TypeOK, ClockAssumption, BackgroundAssumption, ControlAssumption,
           WalksAreMarked, [Next]_vars
    PROVE  WalksAreMarked'
<1>1. ASSUME NEW c \in Callers, AskComplete(c) PROVE WalksAreMarked'
  <2> DEFINE current == NewCall("complete", "settle", Now)
             race == Look(c, job, parked, Advances)
  <2>1. Complete(c, race, current)
    BY <1>1 DEF AskComplete
  <2>2. current \in Calls
    BY NowIsInt, NewCallType DEF TypeOK
  <2>3. current.after = "returned"
    BY DEF NewCall
  <2> HIDE DEF current, race
  <2>4. QED
    BY <2>1, <2>2, <2>3, CompleteFields DEF WalksAreMarked
<1>2. ASSUME NEW c \in Callers, NEW instant, SetTo(c, instant) PROVE WalksAreMarked'
  BY <1>2 DEF SetTo, NewCall, TypeOK, WalksAreMarked
<1>3. CASE Background \/ TimePasses \/ Switch \/ UNCHANGED vars
  BY <1>3 DEF Background, TimePasses, Switch, vars, WalksAreMarked
<1>4. ASSUME NEW c \in Callers, Proceed(c) PROVE WalksAreMarked'
  BY <1>4, ProceedIsMarked
<1>5. QED
  BY <1>1, <1>2, <1>3, <1>4 DEF Next, Ask, AdvanceBy

-----------------------------------------------------------------------------

(* A step that leaves the clock as it was and every walk under way, and at   *)
(* most parks a job with a timer that is still ahead.                        *)
LEMMA AheadKept ==
    ASSUME ParkedAhead, WalksNext, Now' = Now,
           \A c \in Callers : OnWalk(c) => OnWalk(c)' /\ call'[c].target = call[c].target,
           \A entry \in queued' : entry.kind = "timer" /\ entry.job \in parked' =>
              (entry \in queued /\ entry.job \in parked) \/ ~(entry.due <= Now)
    PROVE  ParkedAhead'
BY HistoryKept DEF ParkedAhead, AwaitsAWalk

(* A job asks for a timer only with none out, so the one that parks it is    *)
(* ahead of the clock.                                                       *)
LEMMA BackgroundAhead ==
    ASSUME TypeOK, EveryWaitIsQueued, ClockAssumption, BackgroundAssumption, Racers = {},
           ParkedAhead, WalksNext, Background
    PROVE  ParkedAhead'
<1>1. Now' = Now /\ Now \in Int /\ call' = call
  BY NowIsInt, BackgroundQueue DEF TypeOK
<1>2. \A c \in Callers : OnWalk(c) => OnWalk(c)' /\ call'[c].target = call[c].target
  BY <1>1 DEF OnWalk, UnderWay
<1>3. ASSUME parked' \subseteq parked, \A entry \in queued' : entry \in queued \/ entry.kind = "task"
      PROVE  ParkedAhead'
  BY <1>1, <1>2, <1>3, AheadKept
<1>4. CASE \E c \in Callers, j \in Jobs : Asked(c, j)
  BY <1>3, <1>4 DEF Asked, ScheduleAt, Push, CancelScheduled, Schedule, Outstanding
<1>5. CASE StartDeferred \/ HostTimer
  BY <1>3, <1>5 DEF StartDeferred, HostTimer, HostTimerFires, WithoutTimer
<1>6. CASE \E j \in Jobs : Ends(j) \/ TimesOut(j)
  BY <1>3, <1>6 DEF Ends, TimesOut, Finish, Fail, End
<1>7. ASSUME NEW j \in Jobs, Waits(j) PROVE ParkedAhead'
  <2> PICK delay \in ParkDelays : Park(j, delay)
    BY <1>7 DEF Waits
  <2>1. delay \in Nat /\ TimersOf(j) = {}
    BY <1>7, BackgroundAssumption DEF Waits, CanStep, Blocked
  <2>2. j \notin parked
    BY <2>1 DEF EveryWaitIsQueued, WaitsAreOnTheClock
  <2>3. \A entry \in queued' : entry \in queued \/ (entry.job = j /\ entry.due = Now + delay)
    BY DEF Park, Push
  <2>4. parked' = IF delay > 0 THEN parked \cup {j} ELSE parked
    BY <2>2 DEF Park
  <2>5. \A entry \in queued : entry.kind = "timer" => entry.job # j
    BY <2>1 DEF TimersOf
  <2>6. \A entry \in queued' : entry.kind = "timer" /\ entry.job \in parked' =>
           (entry \in queued /\ entry.job \in parked) \/ ~(entry.due <= Now)
    BY <1>1, <2>1, <2>2, <2>3, <2>4, <2>5
  <2>7. QED
    BY <1>1, <1>2, <2>6, AheadKept
<1>8. QED
  BY <1>4, <1>5, <1>6, <1>7 DEF Background

(* A look again ends a walk only by cutting it short, which leaves behind    *)
(* whatever only that walk would have dispatched.                            *)
LEMMA LookAgainAhead ==
    ASSUME TypeOK, ParkedAhead, WalksNext, NEW c \in Callers, LookAgain(c)
    PROVE  ParkedAhead'
<1>1. Now' = Now /\ UNCHANGED <<queued, parked>> /\ call[c] \in Calls
  BY DEF LookAgain, clockVars, Now, TypeOK
<1>2. CASE RaceThrows(c)
  <2>1. call'[c].at = "threw" /\ \A d \in Callers \ {c} : call'[d] = call[d]
    BY <1>2 DEF LookAgain, Ended, NoCall, TypeOK
  <2> SUFFICES ASSUME NEW entry \in queued', entry \in queued,
                      entry.kind = "timer", entry.job \in parked, entry.due <= Now
               PROVE  entry \in leftBehind' \/ AwaitsAWalk(entry)'
    BY <1>1 DEF ParkedAhead
  <2>2. CASE entry \in leftBehind
    BY <2>2, HistoryKept
  <2>3. CASE OnWalk(c) /\ call[c].target >= entry.due
    <3>1. entry \in StillDue(c)
      BY <1>1, <2>3 DEF StillDue, DueBy, IsDueBy, TypeOK, Entries, Calls
    <3>2. QED
      BY <2>1, <2>3, <3>1, HistoryKept DEF CutShort
  <2>4. ASSUME NEW d \in Callers \ {c}, OnWalk(d), call[d].target >= entry.due
        PROVE  AwaitsAWalk(entry)'
    BY <2>1, <2>4 DEF AwaitsAWalk, OnWalk, UnderWay
  <2>5. QED
    BY <2>2, <2>3, <2>4 DEF ParkedAhead, AwaitsAWalk
<1>3. CASE ~RaceThrows(c)
  <2> DEFINE race == Look(c, job, parked, settle[c].runs)
  <2>1. Complete(c, race, call[c])
    BY <1>3 DEF LookAgain
  <2> HIDE DEF race
  <2>2. \A d \in Callers : OnWalk(d) => OnWalk(d)' /\ call'[d].target = call[d].target
    BY <1>1, <2>1, CompleteFields DEF OnWalk, UnderWay
  <2>3. QED
    BY <1>1, <2>2, AheadKept
<1>4. QED
  BY <1>2, <1>3

(* What the clock passes as a walk dispatches is on that walk's way.         *)
LEMMA DispatchAhead ==
    ASSUME TypeOK, ClockAssumption, ParkedAhead, WalksNext, NEW c \in Callers,
           NEW next \in queued, IsNextDueBy(next, call[c].target), Dispatch(c, next)
    PROVE  ParkedAhead'
<1>1. /\ OnWalk(c)' /\ call'[c].target = call[c].target /\ Now' = LaterOfNow(next.due)
      /\ \A d \in Callers \ {c} : call'[d] = call[d]
  BY DispatchFields DEF OnWalk, UnderWay
<1>2. queued' \subseteq queued /\ parked' \subseteq parked
  BY DEF Dispatch, WithoutTimer
<1>3. next.due \in Int /\ next.due <= call[c].target /\ call[c].target \in Int /\ Now \in Int
  BY NowIsInt DEF IsNextDueBy, DueBy, IsDueBy, TypeOK, Entries, Calls
<1> SUFFICES ASSUME NEW entry \in queued', entry \in queued, entry.kind = "timer",
                    entry.job \in parked, entry.due <= Now', entry.due \in Int
             PROVE  entry \in leftBehind' \/ AwaitsAWalk(entry)'
  BY <1>2 DEF ParkedAhead, TypeOK, Entries
<1>4. CASE entry.due <= Now
  <2>1. CASE entry \in leftBehind
    BY <2>1, HistoryKept
  <2>2. ASSUME NEW d \in Callers, OnWalk(d), call[d].target >= entry.due
        PROVE  AwaitsAWalk(entry)'
    <3>1. OnWalk(d)' /\ call'[d].target = call[d].target
      BY <1>1, <2>2 DEF OnWalk, UnderWay
    <3>2. QED
      BY <2>2, <3>1 DEF AwaitsAWalk
  <2>3. QED
    BY <1>4, <2>1, <2>2 DEF ParkedAhead, AwaitsAWalk
<1>5. CASE ~(entry.due <= Now)
  <2>1. call'[c].target >= entry.due
    BY <1>1, <1>3, <1>5 DEF LaterOfNow
  <2>2. QED
    BY <1>1, <2>1 DEF AwaitsAWalk
<1>6. QED
  BY <1>4, <1>5

(* The clock arrives where nothing is due any more, or is set back, which    *)
(* leaves every other walk to go on.                                         *)
LEMMA ArriveAhead ==
    ASSUME TypeOK, ClockAssumption, ParkedAhead, WalksNext, NEW c \in Callers, Arrive(c),
           DueBy(call[c].target) = {} \/ (call[c].target < Now /\ ~OnWalk(c))
    PROVE  ParkedAhead'
<1>1. /\ Now' = call[c].target /\ queued' = queued /\ parked' = parked
      /\ \A d \in Callers \ {c} : call'[d] = call[d]
  BY ArriveFields DEF Arrive
<1>2. call[c].target \in Int /\ Now \in Int
  BY NowIsInt DEF TypeOK, Calls
<1>3. CASE DueBy(call[c].target) = {}
  BY <1>1, <1>3 DEF ParkedAhead, DueBy, IsDueBy
<1>4. CASE call[c].target < Now /\ ~OnWalk(c)
  <2> SUFFICES ASSUME NEW entry \in queued', entry \in queued, entry.kind = "timer",
                      entry.job \in parked, entry.due <= Now', entry.due \in Int
               PROVE  entry \in leftBehind' \/ AwaitsAWalk(entry)'
    BY <1>1 DEF ParkedAhead, TypeOK, Entries
  <2>1. entry.due <= Now
    BY <1>1, <1>2, <1>4
  <2>2. CASE entry \in leftBehind
    BY <2>2, HistoryKept
  <2>3. ASSUME NEW d \in Callers, OnWalk(d), call[d].target >= entry.due
        PROVE  AwaitsAWalk(entry)'
    BY <1>1, <1>4, <2>3 DEF AwaitsAWalk, OnWalk, UnderWay
  <2>4. QED
    BY <2>1, <2>2, <2>3 DEF ParkedAhead, AwaitsAWalk
<1>5. QED
  BY <1>3, <1>4

(* Whatever parks work is ahead of the clock, on the way of a walk or left   *)
(* behind by one, whoever moves the clock and however often it is set back.  *)
LEMMA ParkedStaysAhead ==
    ASSUME TypeOK, EveryWaitIsQueued, WalksAreMarked, ClockAssumption, BackgroundAssumption,
           ControlAssumption, Racers = {}, ~BaseAdvances, ParkedAhead, [WalksNext]_walkVars
    PROVE  ParkedAhead'
<1>1. CASE UNCHANGED walkVars
  BY <1>1 DEF walkVars, vars, clockVars, backgroundVars, ParkedAhead, AwaitsAWalk, OnWalk, UnderWay, Now
<1> SUFFICES ASSUME WalksNext PROVE ParkedAhead'
  BY <1>1
<1>2. CASE Background
  BY <1>2, BackgroundAhead
<1>3. CASE TimePasses \/ Switch
  <2>1. Now' = Now /\ UNCHANGED <<queued, parked, call>>
    BY <1>3, FreezeKeepsNow, ResumeKeepsNow DEF TimePasses, Tick, Switch, backgroundVars
  <2>2. QED
    BY <2>1, AheadKept DEF OnWalk, UnderWay
<1>4. ASSUME NEW c \in Callers, Ask(c) PROVE ParkedAhead'
  <2>1. Now' = Now /\ UNCHANGED <<queued, parked>>
    BY <1>4, FreezeKeepsNow DEF Ask, AskComplete, AdvanceBy, SetTo, clockVars, Now
  <2>2. ~OnWalk(c)
    BY <1>4 DEF Ask, AskComplete, AdvanceBy, SetTo, CanAsk, CanAct, CanStep, OnWalk
  <2>3. \A d \in Callers \ {c} : call'[d] = call[d]
    BY <1>4 DEF Ask, AskComplete, AdvanceBy, SetTo, Complete, TypeOK
  <2>4. QED
    BY <2>1, <2>2, <2>3, AheadKept DEF OnWalk, UnderWay
<1>5. ASSUME NEW c \in Callers, Proceed(c) PROVE ParkedAhead'
  <2>1. CASE LookAgain(c)
    BY <2>1, LookAgainAhead
  <2>2. CASE WalkOn(c)
    BY <2>2, ArriveAhead, DispatchAhead DEF WalkOn
  <2>3. CASE Reach(c) /\ call[c].target < Now /\ Arrive(c)
    <3>1. ~OnWalk(c)
      BY <2>3, HostHead DEF Reach, EveryWaitIsQueued, WalksAreMarked, OnWalk
    <3>2. QED
      BY <2>3, <3>1, ArriveAhead
  <2>4. QED
    BY <1>5, <2>1, <2>2, <2>3, NowIsInt DEF Proceed, Walk, Reach, TypeOK, Calls
<1>6. QED
  BY <1>2, <1>3, <1>4, <1>5 DEF WalksNext, Next

-----------------------------------------------------------------------------

(* Once all other work is parked it is stopped for good, as far as it and a  *)
(* standing clock go.                                                        *)
ParkedMeansStopped ==
    \A c \in Callers : (\A j \in Held(job) \ {c} : j \in parked) => OthersAreStopped(c)

LEMMA ParkedIsStopped ==
    ASSUME TypeOK, EveryWaitIsQueued, ParkedAhead, ClockAssumption, Racers = {}, ~BaseAdvances
    PROVE  ParkedMeansStopped
<1> SUFFICES ASSUME NEW c \in Callers, NEW j \in Held(job) \ {c}, j \in parked
             PROVE  /\ Blocked(j) /\ ~Advances
                    /\ \A entry \in TimersOf(j) :
                         entry.due > Now \/ entry \in leftBehind \/ AwaitsAWalk(entry)
  BY DEF ParkedMeansStopped, OthersAreStopped
<1>1. Blocked(j) /\ ~Advances
  BY DEF EveryWaitIsQueued, WaitsAreOnTheClock, Blocked, Advances
<1>2. ASSUME NEW entry \in TimersOf(j), ~(entry.due > Now)
      PROVE  entry \in leftBehind \/ AwaitsAWalk(entry)
  <2>1. entry \in queued /\ entry.kind = "timer" /\ entry.job = j
    BY DEF TimersOf
  <2>2. entry.due <= Now
    BY <1>2, <2>1, NowIsInt DEF TypeOK, Entries
  <2>3. QED
    BY <2>1, <2>2 DEF ParkedAhead
<1>3. QED
  BY <1>1, <1>2

(* The step that ends a call of complete(), or a setTo, leaves no other work *)
(* held that is not parked.                                                  *)
LEMMA ReturnsLeaveParked ==
    ASSUME TypeOK, ClockAssumption, BackgroundAssumption, Next,
           NEW c \in Callers, UnderWay(c), call'[c].at = "returned"
    PROVE  \A j \in Held(job') \ {c} : j \in parked'
<1>1. Proceed(c) /\ call[c] \in Calls
  BY EndsOfCalls DEF TypeOK
<1>2. CASE Arrive(c)
  <2> DEFINE current == [call[c] EXCEPT !.after = "returned"]
  <2>1. current \in Calls
    BY <1>1 DEF Calls
  <2>2. Complete(c, Look(c, job', parked', FALSE), current)
    BY <1>2 DEF Arrive
  <2> HIDE DEF current
  <2>3. QED
    BY <2>1, <2>2, ReturnsWithNone
<1>3. CASE LookAgain(c)
  <2>1. Complete(c, Look(c, job', parked', settle[c].runs), call[c])
    BY <1>3 DEF LookAgain, Ended, NoCall, TypeOK
  <2>2. QED
    BY <1>1, <2>1, ReturnsWithNone
<1>4. ~\E entry \in queued : Dispatch(c, entry)
  BY DispatchFields
<1>5. QED
  BY <1>1, <1>2, <1>3, <1>4 DEF Proceed, Walk, Reach, WalkOn

(* Over a base clock that does not move by itself, complete() returns, at    *)
(* once or after waiting, only when all other work held is stopped at timers *)
(* ahead of the clock, but for what walks have yet to come to or, cut short, *)
(* left behind (BackgroundTasks.complete, SimClockControl.runDueTasksUpTo).  *)
(* It takes the invariant ParkedAhead, which needs WalksAreMarked in turn.   *)
THEOREM NothingIsLeftMoving ==
    ASSUME Racers = {}, ~BaseAdvances
    PROVE  WalksSpec => NothingCanMove
<1> USE ClockAssumption, BackgroundAssumption, ControlAssumption
<1>1. WalksSpec => Spec
  <2>1. WalksInit => Init
    BY DEF WalksInit
  <2>2. [WalksNext]_walkVars => [Next]_vars
    BY DEF WalksNext, walkVars
  <2>3. QED
    BY <2>1, <2>2, PTL DEF WalksSpec, Spec
<1>2. WalksInit => WalksAreMarked /\ ParkedAhead
  BY DEF WalksInit, Init, BackgroundInit, NoCall, WalksAreMarked, ParkedAhead
<1>3. TypeOK /\ WalksAreMarked /\ [WalksNext]_walkVars => WalksAreMarked'
  BY WalksStayMarked DEF WalksNext, walkVars
<1>4. TypeOK /\ EveryWaitIsQueued /\ WalksAreMarked /\ ParkedAhead /\ [WalksNext]_walkVars
      => ParkedAhead'
  BY ParkedStaysAhead
<1>5. TypeOK /\ EveryWaitIsQueued /\ ParkedAhead => ParkedMeansStopped
  BY ParkedIsStopped
<1> DEFINE Returns ==
      \A c \in Callers :
        UnderWay(c) /\ call'[c].at = "returned" => OthersAreStopped(c)'
    AtOnce == \A c \in Callers : ReturnsAtOnce(c) => OthersAreStopped(c)
<1>6. TypeOK /\ ParkedMeansStopped' /\ [WalksNext]_walkVars => [Returns]_walkVars
  BY ReturnsLeaveParked DEF ParkedMeansStopped, WalksNext
<1>7. TypeOK /\ ParkedMeansStopped => AtOnce
  BY DEF ReturnsAtOnce, Look, Runnable, Held, ParkedMeansStopped, Advances
<1>8. QED
  BY <1>1, <1>2, <1>3, <1>4, <1>5, <1>6, <1>7, TypeCorrect, WaitsStayQueued, PTL
     DEF WalksSpec, NothingCanMove

=============================================================================
