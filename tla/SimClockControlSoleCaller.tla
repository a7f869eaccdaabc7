---------------------- MODULE SimClockControlSoleCaller ----------------------
(* What one caller can count on: theorems about SimClockControl where a      *)
(* single test moves the clock and waits for completion, and no job does     *)
(* either from inside itself.  That is how the documentation uses the        *)
(* clock; with a second caller moving it the first two are false.            *)
EXTENDS SimClockControlProofs

SoleCaller == MayAsk = {} /\ \A c, d \in Tests : c = d

(* A call waiting for its turn finds the clock frozen where it was when the  *)
(* call was made.                                                            *)
Stands(c) ==
    call[c].at = "reach" =>
        /\ mode.isFrozen /\ Now = call[c].from
        /\ call[c].op = "setTo" /\ call[c].after = "returned"

(* A walk has the clock frozen at the last instant it dispatched, short of   *)
(* the one it is making for.                                                 *)
Walks(c) ==
    /\ call[c].at = "walk" => call[c].after = "walk"
    /\ OnWalk(c) => /\ call[c].at # "reach" /\ call[c].op = "setTo"
                    /\ mode.isFrozen /\ Now = call[c].last /\ Now <= call[c].target

(* Nothing queued before a call is due by an instant the clock got to.       *)
Owes(c) ==
    /\ call[c].since <= pushes
    /\ /\ call[c].at = "settle" /\ call[c].op = "setTo" /\ call[c].after = "returned"
       /\ call[c].target >= call[c].from
       => \A entry \in queued : entry.id < call[c].since => entry.due > call[c].target

CallIsSound(c) == (UnderWay(c) => c \in Tests) /\ Stands(c) /\ Walks(c) /\ Owes(c)

CallsAreSound == \A c \in Callers : CallIsSound(c)

-----------------------------------------------------------------------------
(* Steps of a call: only c has one under way, and it is sound afterwards.    *)

(* With one test and no job that asks, a step of the test's call leaves no   *)
(* other call to be unsound.                                                 *)
LEMMA OthersAreSound ==
    ASSUME TypeOK, CallsAreSound, SoleCaller, NEW c \in Callers, c \in Tests,
           \A d \in Callers \ {c} : call'[d] = call[d], UNCHANGED pushes,
           CallIsSound(c)'
    PROVE  CallsAreSound'
<1>1. ASSUME NEW d \in Callers \ {c} PROVE CallIsSound(d)'
  <2>1. ~UnderWay(d) /\ call'[d] = call[d]
    BY DEF SoleCaller, CallsAreSound, CallIsSound
  <2>2. call'[d].since <= pushes'
    BY <2>1 DEF CallsAreSound, CallIsSound, Owes
  <2>3. QED
    BY <2>1, <2>2 DEF CallIsSound, Stands, Walks, OnWalk, Owes, UnderWay
<1>2. QED
  BY <1>1 DEF CallsAreSound

(* A call just made is sound: what is queued was pushed before it.           *)
LEMMA AskIsSound ==
    ASSUME TypeOK, ClockAssumption, CallsAreSound, SoleCaller, NEW c \in Callers, Ask(c)
    PROVE  CallsAreSound'
<1>1. c \in Tests /\ UNCHANGED <<pushes, queued>> /\ pushes \in Nat
  BY BackgroundAssumption DEF Ask, AskComplete, AdvanceBy, SetTo, CanAsk, SoleCaller, TypeOK
<1>2. CASE AskComplete(c)
  <2> DEFINE current == NewCall("complete", "settle", Now)
             race == Look(c, job, parked, Advances)
  <2>1. Complete(c, race, current)
    BY <1>2 DEF AskComplete
  <2>2. current \in Calls
    BY NowIsInt, NewCallType DEF TypeOK
  <2>3. current.op = "complete" /\ current.after = "returned" /\ current.since = pushes
    BY DEF NewCall
  <2> HIDE DEF current, race
  <2>4. \/ call'[c].at = "returned" /\ call'[c].since = 0
        \/ /\ call'[c].at = "settle" /\ call'[c].op = "complete"
           /\ call'[c].after = "returned" /\ call'[c].since = pushes
    <3>1. current.after # "walk"
      BY <2>3
    <3>2. QED
      BY <2>1, <2>2, <2>3, <3>1, CompleteFields
  <2>5. CallIsSound(c)'
    BY <1>1, <2>4 DEF CallIsSound, Stands, Walks, OnWalk, Owes, UnderWay
  <2>6. QED
    BY <1>1, <2>1, <2>2, <2>5, CompleteFields, OthersAreSound
<1>3. ASSUME NEW instant, SetTo(c, instant) PROVE CallsAreSound'
  <2>1. call'[c] = NewCall("setTo", "reach", instant) /\ \A d \in Callers \ {c} : call'[d] = call[d]
    BY <1>3 DEF SetTo, TypeOK
  <2>2. mode'.isFrozen /\ Now' = Now
    BY <1>3, FreezeKeepsNow DEF SetTo
  <2>3. /\ call'[c].at = "reach" /\ call'[c].op = "setTo" /\ call'[c].after = "returned"
        /\ call'[c].from = Now /\ call'[c].since = pushes
    BY <2>1 DEF NewCall
  <2>4. CallIsSound(c)'
    BY <1>1, <2>2, <2>3 DEF CallIsSound, Stands, Walks, OnWalk, Owes, UnderWay
  <2>5. QED
    BY <1>1, <2>1, <2>4, OthersAreSound
<1>4. QED
  BY <1>2, <1>3 DEF Ask, AdvanceBy

(* Where a call walks on, the clock has not passed the instant asked for.    *)
LEMMA WalkOnIsSound ==
    ASSUME TypeOK, ClockAssumption, CallsAreSound, SoleCaller, NEW c \in Callers, c \in Tests,
           WalkOn(c), call[c].op = "setTo", Now <= call[c].target
    PROVE  CallsAreSound'
<1>1. call[c] \in Calls /\ Now \in Int /\ call[c].since <= pushes
  BY NowIsInt DEF TypeOK, CallsAreSound, CallIsSound, Owes
<1>2. CASE DueBy(call[c].target) = {} /\ Arrive(c)
  <2>1. \A entry \in queued : entry.due > call[c].target
    BY <1>1, <1>2 DEF DueBy, IsDueBy, TypeOK, Entries, Calls
  <2>2. CallIsSound(c)'
    BY <1>1, <1>2, <2>1, ArriveFields
       DEF CallIsSound, Stands, Walks, OnWalk, Owes, UnderWay, TypeOK
  <2>3. QED
    BY <1>2, <2>2, ArriveFields, OthersAreSound
<1>3. ASSUME NEW entry \in queued, IsNextDueBy(entry, call[c].target), Dispatch(c, entry)
      PROVE  CallsAreSound'
  <2>1. entry.due \in Int /\ entry.due <= call[c].target
    BY <1>3 DEF IsNextDueBy, DueBy, IsDueBy, TypeOK, Entries
  <2>2. Now' <= call[c].target
    BY <1>1, <1>3, <2>1, DispatchFields DEF LaterOfNow
  <2>3. CallIsSound(c)'
    BY <1>1, <1>3, <2>2, DispatchFields
       DEF CallIsSound, Stands, Walks, OnWalk, Owes, UnderWay
  <2>4. QED
    BY <1>3, <2>3, DispatchFields, OthersAreSound
<1>4. QED
  BY <1>2, <1>3 DEF WalkOn

(* The turns a call can take, and what is known as it takes them.            *)
LEMMA ProceedShape ==
    ASSUME TypeOK, CallsAreSound, EveryWaitIsQueued, RacesAreSettling, NEW c \in Callers, Proceed(c)
    PROVE  /\ c \in Tests
           /\ \/ LookAgain(c) /\ call[c].at = "settle"
              \/ call[c].op = "setTo" /\ Now <= call[c].target /\ WalkOn(c)
              \/ /\ call[c].at = "reach" /\ call[c].op = "setTo" /\ call[c].target < call[c].from
                 /\ call[c].target < Now /\ Arrive(c)
<1>1. CallIsSound(c) /\ call[c] \in Calls /\ Now \in Int
  BY NowIsInt, ClockAssumption DEF CallsAreSound, TypeOK
<1>2. CASE LookAgain(c)
  BY <1>1, <1>2 DEF LookAgain, RaceIsOver, RacesAreSettling, CallIsSound, UnderWay
<1>3. CASE Walk(c)
  BY <1>1, <1>3 DEF Walk, CallIsSound, Walks, OnWalk, UnderWay
<1>4. CASE Reach(c)
  <2>1. call[c].at = "reach"
    BY <1>4, HostHead DEF Reach, EveryWaitIsQueued
  <2>2. QED
    BY <1>1, <1>4, <2>1 DEF Reach, CallIsSound, Stands, UnderWay, Calls
<1>5. QED
  BY <1>2, <1>3, <1>4 DEF Proceed

(* A call getting on stays sound, walk, settling and arrival alike.          *)
LEMMA ProceedIsSound ==
    ASSUME TypeOK, ClockAssumption, CallsAreSound, SoleCaller, EveryWaitIsQueued, RacesAreSettling,
           NEW c \in Callers, Proceed(c)
    PROVE  CallsAreSound'
<1>1. c \in Tests /\ CallIsSound(c) /\ call[c] \in Calls
  BY ProceedShape DEF CallsAreSound, TypeOK
<1>2. CASE LookAgain(c) /\ call[c].at = "settle"
  <2>1. UNCHANGED <<queued, pushes, mode, base>> /\ Now' = Now /\ pushes \in Nat
    BY <1>2, BackgroundAssumption DEF LookAgain, clockVars, Now, TypeOK
  <2>2. CASE RaceThrows(c)
    <3>1. /\ call'[c].at = "threw" /\ call'[c].since = 0
          /\ \A d \in Callers \ {c} : call'[d] = call[d]
      BY <1>2, <2>2 DEF LookAgain, Ended, NoCall, TypeOK
    <3>2. CallIsSound(c)'
      BY <2>1, <3>1 DEF CallIsSound, Stands, Walks, OnWalk, Owes, UnderWay
    <3>3. QED
      BY <1>1, <2>1, <3>1, <3>2, OthersAreSound
  <2>3. CASE ~RaceThrows(c)
    <3> DEFINE race == Look(c, job, parked, settle[c].runs)
    <3>1. Complete(c, race, call[c])
      BY <1>2, <2>3 DEF LookAgain
    <3> HIDE DEF race
    <3>2. CallIsSound(c)'
      BY <1>1, <1>2, <2>1, <3>1, CompleteFields
         DEF CallIsSound, Stands, Walks, OnWalk, Owes, UnderWay
    <3>3. QED
      BY <1>1, <2>1, <3>1, <3>2, CompleteFields, OthersAreSound
  <2>4. QED
    BY <2>2, <2>3
<1>3. CASE call[c].op = "setTo" /\ Now <= call[c].target /\ WalkOn(c)
  BY <1>1, <1>3, WalkOnIsSound
<1>4. CASE call[c].op = "setTo" /\ call[c].target < call[c].from /\ Arrive(c)
  <2>1. CallIsSound(c)'
    BY <1>1, <1>4, ArriveFields
       DEF CallIsSound, Stands, Walks, OnWalk, Owes, UnderWay, TypeOK, Calls
  <2>2. QED
    BY <1>1, <1>4, <2>1, ArriveFields, OthersAreSound
<1>5. QED
  BY <1>2, <1>3, <1>4, ProceedShape

(* What is pushed while a call is under way is numbered after it, so the     *)
(* scheduler and the jobs keep calls sound.                                  *)
LEMMA BackgroundIsSound ==
    ASSUME TypeOK, BackgroundAssumption, CallsAreSound, Background
    PROVE  CallsAreSound'
<1>1. ASSUME NEW c \in Callers PROVE CallIsSound(c)'
  <2>1. call[c] \in Calls /\ CallIsSound(c) /\ pushes \in Nat
    BY BackgroundAssumption DEF CallsAreSound, TypeOK
  <2>2. call[c].since \in Nat /\ call[c].since <= pushes
    BY <2>1 DEF CallIsSound, Owes, Calls
  <2>3. Owes(c)'
    BY <2>1, <2>2, BackgroundQueue DEF CallIsSound, Owes
  <2>4. QED
    BY <2>1, <2>3, BackgroundQueue DEF CallIsSound, Stands, Walks, OnWalk, UnderWay
<1>2. QED
  BY <1>1 DEF CallsAreSound

(* Nobody switches a clock under a call or moves it under a frozen mode,     *)
(* so freezing, resuming and time passing keep calls sound.                  *)
LEMMA ClockIsSound ==
    ASSUME TypeOK, ControlAssumption, CallsAreSound, SoleCaller, Switch \/ TimePasses
    PROVE  CallsAreSound'
<1>1. UNCHANGED <<call, queued, pushes>>
  BY DEF Switch, TimePasses, backgroundVars
<1>2. ASSUME NEW c \in Callers, UnderWay(c) PROVE ~Switch
  BY <1>2 DEF Switch, CanAct, CanAsk, ControlAssumption, CallsAreSound, CallIsSound, SoleCaller
<1>3. ASSUME NEW c \in Callers PROVE CallIsSound(c)'
  <2>1. CallIsSound(c)
    BY DEF CallsAreSound
  <2>2. CASE UnderWay(c)
    <3>1. UNCHANGED mode /\ (mode.isFrozen => Now' = Now)
      BY <1>2, <2>2 DEF TimePasses, Tick, Now
    <3>2. QED
      BY <1>1, <2>1, <3>1 DEF CallIsSound, Stands, Walks, OnWalk, Owes, UnderWay
  <2>3. CASE ~UnderWay(c)
    BY <1>1, <2>1, <2>3 DEF CallIsSound, Stands, Walks, OnWalk, Owes, UnderWay
  <2>4. QED
    BY <2>2, <2>3
<1>4. QED
  BY <1>3 DEF CallsAreSound

(* While one test alone asks, its walk stands on a frozen clock at the       *)
(* instant it last dispatched at, short of the one it was asked for, and     *)
(* once there it has left nothing that was due when it was called.           *)
THEOREM SoleCallsAreSound == ASSUME SoleCaller PROVE Spec => []CallsAreSound
<1>1. Init => CallsAreSound
  BY BackgroundAssumption
     DEF Init, BackgroundInit, NoCall, CallsAreSound, CallIsSound, Stands, Walks, OnWalk, Owes, UnderWay
<1>2. TypeOK /\ EveryWaitIsQueued /\ RacesAreSettling /\ CallsAreSound /\ [Next]_vars => CallsAreSound'
  <2> SUFFICES ASSUME TypeOK, EveryWaitIsQueued, RacesAreSettling, CallsAreSound, [Next]_vars
               PROVE  CallsAreSound'
    OBVIOUS
  <2> USE ClockAssumption, BackgroundAssumption, ControlAssumption, SoleCaller
  <2>1. CASE Background
    BY <2>1, BackgroundIsSound
  <2>2. CASE TimePasses \/ Switch
    BY <2>2, ClockIsSound
  <2>3. ASSUME NEW c \in Callers, Ask(c) PROVE CallsAreSound'
    BY <2>3, AskIsSound
  <2>4. ASSUME NEW c \in Callers, Proceed(c) PROVE CallsAreSound'
    BY <2>4, ProceedIsSound
  <2>5. CASE UNCHANGED vars
    BY <2>5 DEF vars, clockVars, backgroundVars, CallsAreSound, CallIsSound, Stands, Walks,
                OnWalk, Owes, UnderWay, Now
  <2>6. QED
    BY <2>1, <2>2, <2>3, <2>4, <2>5 DEF Next
<1>3. QED
  BY <1>1, <1>2, TypeCorrect, WaitsStayQueued, RacesSettling, PTL DEF Spec

-----------------------------------------------------------------------------
(* What each step of a call does to the clock, and to the call itself.       *)

(* laterOfNow: a dispatch never sets the clock back.                         *)
LEMMA DispatchMovesForward ==
    ASSUME TypeOK, ClockAssumption, NEW c \in Callers, NEW entry \in queued, Dispatch(c, entry)
    PROVE  Now <= Now'
<1>1. entry.due \in Int /\ Now \in Int
  BY NowIsInt DEF TypeOK, Entries
<1>2. QED
  BY <1>1, DispatchFields DEF LaterOfNow

(* The one step that sets the clock back is the arrival of a call that       *)
(* asked for an earlier instant than the clock read.                         *)
LEMMA StepsForward ==
    ASSUME TypeOK, CallsAreSound, EveryWaitIsQueued, RacesAreSettling, [Next]_vars, Now' < Now
    PROVE  \E c \in Callers : call'[c] # call[c] /\ call[c].target < call[c].from
<1> USE ClockAssumption, BackgroundAssumption
<1>1. Now \in Int /\ base \in Int /\ mode.at \in Int
  BY NowIsInt DEF TypeOK, ClockTypeOK, Modes
<1>2. CASE Background
  BY <1>1, <1>2, BackgroundQueue
<1>3. CASE TimePasses \/ Switch \/ UNCHANGED vars
  <2>1. CASE TimePasses
    BY <1>1, <2>1 DEF TimePasses, Tick, Now
  <2>2. CASE Switch \/ UNCHANGED vars
    BY <1>1, <2>2, FreezeKeepsNow, ResumeKeepsNow DEF Switch, vars, clockVars, Now
  <2>3. QED
    BY <1>3, <2>1, <2>2
<1>4. ASSUME NEW c \in Callers, Ask(c) PROVE FALSE
  BY <1>1, <1>4, FreezeKeepsNow DEF Ask, AskComplete, AdvanceBy, SetTo, clockVars, Now
<1>5. ASSUME NEW c \in Callers, Proceed(c)
      PROVE  call'[c] # call[c] /\ call[c].target < call[c].from
  <2>1. CASE LookAgain(c)
    BY <1>1, <2>1 DEF LookAgain, clockVars, Now
  <2>2. CASE call[c].op = "setTo" /\ Now <= call[c].target /\ WalkOn(c)
    <3>1. call[c].target \in Int
      BY DEF TypeOK, Calls
    <3>2. Now <= Now'
      BY <1>1, <2>2, <3>1, ArriveFields, DispatchMovesForward DEF WalkOn
    <3>3. Now' \in Int
      BY <1>1, <2>2, <3>1, ArriveFields, DispatchFields DEF WalkOn, LaterOfNow, TypeOK, Entries
    <3>4. QED
      BY <1>1, <3>2, <3>3
  <2>3. CASE call[c].at = "reach" /\ call[c].target < call[c].from /\ Arrive(c)
    BY <2>3, ArriveFields
  <2>4. QED
    BY <1>5, <2>1, <2>2, <2>3, ProceedShape
<1>6. QED
  BY <1>2, <1>3, <1>4, <1>5 DEF Next

(* A test that owns the clock sees it go back only when it asks for an       *)
(* earlier instant: work that is overdue does not drag it there              *)
(* (SimClockControl.laterOfNow).                                             *)
THEOREM SoleTimeMovesForward == ASSUME SoleCaller PROVE Spec => TimeMovesForward
<1>1. TypeOK /\ CallsAreSound /\ EveryWaitIsQueued /\ RacesAreSettling /\ [Next]_vars
      => [Now' < Now => \E c \in Callers : call'[c] # call[c] /\ call[c].target < call[c].from]_vars
  BY StepsForward
<1>2. QED
  BY <1>1, TypeCorrect, SoleCallsAreSound, WaitsStayQueued, RacesSettling, PTL
     DEF Spec, TimeMovesForward

(* A failure on the way leaves the clock where the walk had got to           *)
(* (SimClockControl.runDueTasksUpTo does not reach setTo's last step).       *)
THEOREM SoleThrowStopsTheClock == ASSUME SoleCaller PROVE Spec => ThrowStopsTheClock
<1> DEFINE Stops ==
      \A c \in Callers :
        UnderWay(c) /\ call'[c].at = "threw" /\ call[c].after = "walk"
        => Now' = call[c].last /\ queued' = queued
<1>1. TypeOK /\ CallsAreSound /\ EveryWaitIsQueued /\ RacesAreSettling /\ [Next]_vars => [Stops]_vars
  <2> SUFFICES ASSUME TypeOK, CallsAreSound, EveryWaitIsQueued, RacesAreSettling, Next,
                      NEW c \in Callers, UnderWay(c), call'[c].at = "threw", call[c].after = "walk"
               PROVE  Now' = call[c].last /\ queued' = queued
    OBVIOUS
  <2>1. Proceed(c)
    BY EndsOfCalls
  <2>2. LookAgain(c)
    BY <2>1, ProceedShape, ArriveFields, DispatchFields, ClockAssumption DEF WalkOn
  <2>3. Now = call[c].last
    BY DEF CallsAreSound, CallIsSound, Walks, OnWalk
  <2>4. QED
    BY <2>2, <2>3 DEF LookAgain, clockVars, Now
<1>2. QED
  BY <1>1, TypeCorrect, SoleCallsAreSound, WaitsStayQueued, RacesSettling, PTL
     DEF Spec, ThrowStopsTheClock

(* setTo, when it returns, has left behind nothing queued before it was      *)
(* called and due by its instant.                                            *)
THEOREM SoleOwedHappens == ASSUME SoleCaller PROVE Spec => OwedHappens
<1> DEFINE Happens ==
      \A c \in Callers :
         /\ UnderWay(c) /\ call'[c].at = "returned"
         /\ call[c].op = "setTo" /\ call[c].target >= call[c].from
         => \A entry \in queued' : entry.id < call[c].since => entry.due > call[c].target
<1>1. TypeOK /\ CallsAreSound /\ EveryWaitIsQueued /\ RacesAreSettling /\ [Next]_vars => [Happens]_vars
  <2> SUFFICES ASSUME TypeOK, CallsAreSound, EveryWaitIsQueued, RacesAreSettling, Next,
                      NEW c \in Callers, UnderWay(c), call'[c].at = "returned",
                      call[c].op = "setTo", call[c].target >= call[c].from,
                      NEW entry \in queued', entry.id < call[c].since
               PROVE  entry.due > call[c].target
    OBVIOUS
  <2>1. Proceed(c) /\ CallIsSound(c) /\ call[c] \in Calls
    BY EndsOfCalls DEF CallsAreSound, TypeOK
  <2>2. CASE LookAgain(c) /\ call[c].at = "settle"
    <3>1. queued' = queued /\ call[c].after = "returned"
      <4>1. ~RaceThrows(c)
        BY <2>2 DEF LookAgain, Ended, NoCall, TypeOK
      <4>2. QED
        BY <2>1, <2>2, <4>1, CompleteFields DEF LookAgain
    <3>2. QED
      BY <2>1, <2>2, <3>1 DEF CallIsSound, Owes
  <2>3. CASE WalkOn(c)
    <3>1. DueBy(call[c].target) = {} /\ queued' = queued
      BY <2>3, DispatchFields, ClockAssumption DEF WalkOn, Arrive
    <3>2. QED
      BY <2>1, <3>1 DEF DueBy, IsDueBy, TypeOK, Entries, Calls
  <2>4. CASE call[c].target < call[c].from
    BY <2>1, <2>4 DEF Calls
  <2>5. QED
    BY <2>1, <2>2, <2>3, <2>4, ProceedShape
<1>2. QED
  BY <1>1, TypeCorrect, SoleCallsAreSound, WaitsStayQueued, RacesSettling, PTL
     DEF Spec, OwedHappens

-----------------------------------------------------------------------------
(* What `advances` says of the clock.                                        *)

(* A step of a call that leaves every call as it was leaves the clock too:   *)
(* the dispatch of another entry due at the instant of the last.             *)
LEMMA ProceedTellsTheTruth ==
    ASSUME TypeOK, CallsAreSound, EveryWaitIsQueued, RacesAreSettling,
           NEW c \in Callers, Proceed(c), call' = call
    PROVE  Now' = Now /\ base' = base /\ (LookAgain(c) \/ ~Advances)
<1> USE ClockAssumption
<1>1. CallIsSound(c) /\ call[c] \in Calls
  BY DEF CallsAreSound, TypeOK
<1>2. CASE LookAgain(c)
  BY <1>2 DEF LookAgain, clockVars, Now
<1>3. CASE (Walk(c) \/ Reach(c)) /\ ~LookAgain(c)
  <2>1. call[c].at \in {"walk", "reach"}
    BY <1>3, HostHead DEF Walk, Reach, EveryWaitIsQueued
  <2>2. ~Arrive(c)
    BY <2>1, <1>1, ArriveFields DEF CallIsSound, Walks
  <2>3. PICK entry \in queued : Dispatch(c, entry)
    BY <1>3, <2>2 DEF Walk, Reach, WalkOn
  <2>4. call[c].at = "walk" /\ call[c].after = "walk" /\ call[c].last = Now'
    BY <2>1, <2>3, DispatchFields
  <2>5. mode.isFrozen /\ Now = call[c].last
    BY <1>1, <2>4 DEF CallIsSound, Walks, OnWalk, UnderWay
  <2>6. base' = base
    BY <2>3 DEF Dispatch, SetClockTo
  <2>7. QED
    BY <2>4, <2>5, <2>6 DEF Advances
<1>4. QED
  BY <1>2, <1>3 DEF Proceed

(* While `advances` is false time stands still but for a caller who moves    *)
(* it, and while it is true it moves as the clock underneath does            *)
(* (SimControllableClock.advances).                                          *)
THEOREM SoleAdvancesTellsTheTruth == ASSUME SoleCaller PROVE Spec => AdvancesTellsTheTruth
<1> DEFINE Truth == call' = call => Now' = IF Advances THEN Now + (base' - base) ELSE Now
<1>1. TypeOK /\ CallsAreSound /\ EveryWaitIsQueued /\ RacesAreSettling /\ [Next]_vars => [Truth]_vars
  <2> SUFFICES ASSUME TypeOK, CallsAreSound, EveryWaitIsQueued, RacesAreSettling, Next, call' = call
               PROVE  Now' = IF Advances THEN Now + (base' - base) ELSE Now
    OBVIOUS
  <2> USE ClockAssumption, BackgroundAssumption
  <2>1. Now \in Int /\ base \in Int /\ mode.at \in Int
    BY NowIsInt DEF TypeOK, ClockTypeOK, Modes
  <2>2. ASSUME Now' = Now, base' = base PROVE Now' = IF Advances THEN Now + (base' - base) ELSE Now
    BY <2>1, <2>2
  <2>3. CASE Background
    BY <2>2, <2>3 DEF Background, clockVars, Now
  <2>4. CASE TimePasses
    BY <2>1, <2>4 DEF TimePasses, Tick, Now, Advances
  <2>5. CASE Switch
    BY <2>2, <2>5, FreezeKeepsNow, ResumeKeepsNow DEF Switch, Freeze, Resume
  <2>6. ASSUME NEW c \in Callers, Ask(c) PROVE Now' = Now /\ base' = base
    BY <2>6, FreezeKeepsNow DEF Ask, AskComplete, AdvanceBy, SetTo, clockVars, Now, Freeze
  <2>7. ASSUME NEW c \in Callers, Proceed(c) PROVE Now' = Now /\ base' = base
    BY <2>7, ProceedTellsTheTruth
  <2>8. QED
    BY <2>2, <2>3, <2>4, <2>5, <2>6, <2>7 DEF Next
<1>2. QED
  BY <1>1, TypeCorrect, SoleCallsAreSound, WaitsStayQueued, RacesSettling, PTL
     DEF Spec, AdvancesTellsTheTruth

-----------------------------------------------------------------------------
(* What complete() waits for.                                                *)

(* A job that has a timer out and does not wait on the clock asked for no    *)
(* delay, so its timer is due.                                               *)
TimersAreDue ==
    \A entry \in queued : entry.kind = "timer" /\ entry.job \notin parked => entry.due <= Now

(* A race over work that waits on the clock as well has the clock running.   *)
RunsAdvance == \A c \in Callers : settle[c].batch # {} /\ settle[c].runs => Advances

(* A timer off the due queue, the one with the job it releases.              *)
LEMMA TimersStayDue ==
    ASSUME TypeOK, ClockAssumption, ClockTypeOK', TimersAreDue, Now <= Now', queued' \subseteq queued,
           \A entry \in queued' : entry.kind = "timer" /\ entry.job \in parked => entry.job \in parked'
    PROVE  TimersAreDue'
<1> SUFFICES ASSUME NEW entry \in queued', entry.kind = "timer", entry.job \notin parked'
             PROVE  entry.due <= Now'
    BY DEF TimersAreDue
<1>1. entry.due \in Int /\ Now \in Int /\ Now' \in Int
  BY NowIsInt DEF TypeOK, Entries, Now, ClockTypeOK, ClockAssumption, Modes
<1>2. entry.due <= Now
  BY DEF TimersAreDue
<1>3. QED
  BY <1>1, <1>2

(* The same with one entry fewer, of a job that has then no timer left or    *)
(* is as parked as it was.                                                   *)
LEMMA LessOneTimer ==
    ASSUME TypeOK, NEW gone \in queued, gone.kind = "timer",
           queued' = queued \ {gone}, parked' = WithoutTimer(gone)
    PROVE  \A entry \in queued' : entry.kind = "timer" /\ entry.job \in parked => entry.job \in parked'
BY DEF WithoutTimer, TimersOf

(* What the scheduler and the jobs do leaves no timer early whose job does   *)
(* not wait for it.                                                          *)
LEMMA BackgroundTimersDue ==
    ASSUME TypeOK, TypeOK', ClockAssumption, BackgroundAssumption, TimersAreDue, Background
    PROVE  TimersAreDue'
<1>1. Now' = Now /\ Now \in Int /\ ClockTypeOK' /\ Now <= Now'
  BY NowIsInt DEF Background, clockVars, Now, TypeOK
<1>2. ASSUME NEW j \in Jobs, NEW delay, ScheduleAt(j, delay) PROVE TimersAreDue'
  <2>1. \A entry \in queued' : entry \in queued \/ entry.kind = "task"
    BY <1>2 DEF ScheduleAt, Push
  <2>2. QED
    BY <1>1, <1>2, <2>1 DEF ScheduleAt, TimersAreDue
<1>3. CASE \E j \in Jobs : CancelScheduled(j) \/ Schedule(j) \/ Outstanding(j)
  BY <1>1, <1>3, TimersStayDue DEF CancelScheduled, Schedule, Outstanding
<1>4. CASE StartDeferred
  BY <1>1, <1>4, TimersStayDue DEF StartDeferred
<1>5. CASE HostTimer
  <2> PICK entry \in queued : HostTimerFires(entry)
    BY <1>5 DEF HostTimer
  <2>1. \A other \in queued' : other.kind = "timer" /\ other.job \in parked => other.job \in parked'
    BY LessOneTimer DEF HostTimerFires
  <2>2. QED
    BY <1>1, <2>1, TimersStayDue DEF HostTimerFires
<1>6. ASSUME NEW j \in Jobs, Waits(j) PROVE TimersAreDue'
  <2> PICK delay \in ParkDelays : Park(j, delay)
    BY <1>6 DEF Waits
  <2>1. delay \in Nat
    BY BackgroundAssumption
  <2>2. \A entry \in queued' : entry \in queued \/ (entry.job = j /\ entry.due = Now + delay)
    BY DEF Park, Push
  <2>3. parked \subseteq parked' /\ (delay = 0 \/ j \in parked')
    BY <2>1 DEF Park
  <2>4. QED
    BY <1>1, <2>1, <2>2, <2>3 DEF TimersAreDue
<1>7. ASSUME NEW j \in Jobs, Ends(j) \/ TimesOut(j) PROVE TimersAreDue'
  <2>1. queued' = queued \ TimersOf(j) /\ parked' = parked \ {j}
    BY <1>7 DEF Ends, TimesOut, Finish, Fail, End
  <2>2. \A entry \in queued' : entry.kind = "timer" /\ entry.job \in parked => entry.job \in parked'
    BY <2>1 DEF TimersOf
  <2>3. QED
    BY <1>1, <2>1, <2>2, TimersStayDue
<1>8. QED
  BY <1>2, <1>3, <1>4, <1>5, <1>6, <1>7 DEF Background, Asked

(* Nor does anything else, as long as the clock is not set back.             *)
LEMMA TimersDue ==
    ASSUME TypeOK, TypeOK', TimersAreDue, [Next]_vars, [Now' >= Now]_vars
    PROVE  TimersAreDue'
<1> USE ClockAssumption, BackgroundAssumption
<1>1. Now \in Int /\ Now' \in Int /\ ClockTypeOK'
  BY NowIsInt DEF TypeOK, Now, ClockTypeOK, ClockAssumption, Modes
<1>2. Now <= Now'
  BY <1>1 DEF vars, clockVars, Now
<1>3. ASSUME UNCHANGED <<queued, parked>> PROVE TimersAreDue'
  BY <1>1, <1>2, <1>3, TimersStayDue
<1>4. ASSUME NEW c \in Callers, NEW entry \in queued, Dispatch(c, entry) PROVE TimersAreDue'
  <2>1. CASE entry.kind = "timer"
    BY <1>1, <1>2, <1>4, <2>1, LessOneTimer, TimersStayDue DEF Dispatch
  <2>2. CASE entry.kind # "timer"
    BY <1>1, <1>2, <1>4, <2>2, TimersStayDue DEF Dispatch
  <2>3. QED
    BY <2>1, <2>2
<1>5. ASSUME NEW c \in Callers, Ask(c) PROVE UNCHANGED <<queued, parked>>
  BY <1>5 DEF Ask, AskComplete, AdvanceBy, SetTo
<1>6. ASSUME NEW c \in Callers, Proceed(c) PROVE TimersAreDue'
  BY <1>3, <1>4, <1>6 DEF Proceed, LookAgain, Walk, Reach, WalkOn, Arrive
<1>7. CASE TimePasses \/ Switch \/ UNCHANGED vars
  BY <1>3, <1>7 DEF TimePasses, Switch, backgroundVars, vars
<1>8. QED
  BY <1>3, <1>5, <1>6, <1>7, BackgroundTimersDue DEF Next

(* What complete() races, when it takes a turn: no work that waits on the    *)
(* clock, unless it found the clock running.                                 *)
LEMMA CompleteRace ==
    ASSUME TypeOK, NEW c \in Callers, NEW jobs, NEW waiting, NEW runs \in BOOLEAN, NEW current,
           Complete(c, Look(c, jobs, waiting, runs), current)
    PROVE  /\ \A d \in Callers \ {c} : settle'[d] = settle[d]
           /\ settle'[c].batch # {} => settle'[c].runs = runs
           /\ \A j \in settle'[c].batch : runs \/ j \notin waiting
BY DEF Complete, Look, Runnable, NoRace, TypeOK

(* A race that is new leaves out what waits on the clock, unless complete()  *)
(* was asked for with the clock running.                                     *)
LEMMA RacesLooked ==
    ASSUME TypeOK, TypeOK', EveryWaitIsQueued, RacesAreSettling, Next, NEW c \in Callers,
           settle'[c] # settle[c], ~settle'[c].woken
    PROVE  \A j \in settle'[c].batch : settle'[c].runs \/ j \notin parked'
<1> USE ClockAssumption, BackgroundAssumption
<1>1. settle[c] \in Races /\ settle'[c] \in Races
  BY DEF TypeOK
<1>2. ~Background
  <2>1. ASSUME Background PROVE settle' = settle \/ settle' = Wake(settle)
    BY <2>1 DEF Background, Asked, ScheduleAt, Schedule, CancelScheduled, Outstanding, StartDeferred,
        HostTimer, HostTimerFires, Waits, Park, Ends, TimesOut, Finish, Fail, End
  <2>2. Wake(settle)[c] = settle[c] \/ Wake(settle)[c].woken
    BY <1>1 DEF Wake, Races
  <2>3. QED
    BY <2>1, <2>2
<1>3. ~TimePasses /\ ~Switch
  BY DEF TimePasses, Switch, backgroundVars
<1>4. CASE AskComplete(c)
  <2>1. Complete(c, Look(c, job, parked, Advances), NewCall("complete", "settle", Now)) /\ parked' = parked
    BY <1>4 DEF AskComplete
  <2>2. PICK runs \in BOOLEAN : runs = Advances
    BY DEF Advances
  <2>3. Complete(c, Look(c, job, parked, runs), NewCall("complete", "settle", Now))
    BY <2>1, <2>2
  <2>4. \A j \in settle'[c].batch : settle'[c].runs = runs /\ (runs \/ j \notin parked')
    BY <2>1, <2>3, CompleteRace
  <2>5. QED
    BY <2>4
<1>5. CASE LookAgain(c)
  <2>1. CASE RaceThrows(c)
    BY <1>5, <2>1 DEF LookAgain, NoRace, TypeOK
  <2>2. CASE ~RaceThrows(c)
    <3>1. Complete(c, Look(c, job, parked, settle[c].runs), call[c]) /\ parked' = parked
      BY <1>5, <2>2 DEF LookAgain
    <3>2. settle[c].runs \in BOOLEAN
      BY <1>1 DEF Races
    <3>3. \A j \in settle'[c].batch : settle'[c].runs = settle[c].runs /\ (settle[c].runs \/ j \notin parked')
      BY <3>1, <3>2, CompleteRace
    <3>4. QED
      BY <3>3
  <2>3. QED
    BY <2>1, <2>2
<1>6. CASE Arrive(c)
  BY <1>6, CompleteRace DEF Arrive
<1>7. ASSUME NEW entry \in queued, Dispatch(c, entry) PROVE \A j \in settle'[c].batch : j \notin parked'
  <2> DEFINE jobs == IF entry.kind = "task" THEN [job EXCEPT ![entry.job] = "running"] ELSE job
             waiting == IF entry.kind = "timer" THEN WithoutTimer(entry) ELSE parked
             current == [call[c] EXCEPT !.after = "walk", !.last = LaterOfNow(entry.due)]
  <2>1. Complete(c, Look(c, jobs, waiting, FALSE), current) /\ parked' = waiting
    BY <1>7 DEF Dispatch
  <2> HIDE DEF jobs, waiting, current
  <2>2. QED
    BY <2>1, CompleteRace
<1>8. ASSUME NEW d \in Callers, Ask(d) \/ Proceed(d)
      PROVE  \/ d = c /\ (AskComplete(c) \/ LookAgain(c) \/ Arrive(c) \/ \E entry \in queued : Dispatch(c, entry))
  <2>1. CASE d # c
    BY <1>8, <2>1 DEF Ask, AskComplete, AdvanceBy, SetTo, Proceed, LookAgain, Walk, Reach, WalkOn,
       Arrive, Dispatch, Complete, TypeOK
  <2>2. CASE d = c
    BY <1>8, <2>2 DEF Ask, AdvanceBy, SetTo, Proceed, Walk, Reach, WalkOn
  <2>3. QED
    BY <2>1, <2>2
<1>9. QED
  BY <1>2, <1>3, <1>4, <1>5, <1>6, <1>7, <1>8 DEF Next

(* A race over what waits on the clock as well is one the sole caller waits  *)
(* for, and nobody freezes the clock under it.                               *)
LEMMA RunsStayTrue ==
    ASSUME TypeOK, TypeOK', EveryWaitIsQueued, RacesAreSettling, CallsAreSound, SoleCaller,
           RunsAdvance, [Next]_vars
    PROVE  RunsAdvance'
<1> USE ClockAssumption, BackgroundAssumption, ControlAssumption
<1> SUFFICES ASSUME NEW c \in Callers, settle'[c].batch # {}, settle'[c].runs PROVE Advances'
  BY DEF RunsAdvance
<1>1. settle[c] \in Races
  BY DEF TypeOK
<1>2. ASSUME settle[c].batch # {}, settle[c].runs, UNCHANGED mode PROVE Advances'
  BY <1>2 DEF RunsAdvance, Advances
<1>3. CASE Background
  <2>1. settle' = settle \/ settle' = Wake(settle)
    BY <1>3 DEF Background, Asked, ScheduleAt, Schedule, CancelScheduled, Outstanding, StartDeferred,
        HostTimer, HostTimerFires, Waits, Park, Ends, TimesOut, Finish, Fail, End
  <2>2. Wake(settle)[c].batch = settle[c].batch /\ Wake(settle)[c].runs = settle[c].runs
    BY <1>1 DEF Wake, Races
  <2>3. settle[c].batch # {} /\ settle[c].runs
    BY <2>1, <2>2
  <2>4. QED
    BY <1>2, <1>3, <2>3, BackgroundQueue
<1>4. CASE TimePasses \/ UNCHANGED vars
  BY <1>2, <1>4 DEF TimePasses, Tick, backgroundVars, vars, clockVars
<1>5. ~Switch
  <2>1. ASSUME Switch PROVE settle[c].batch # {}
    BY <2>1 DEF Switch, backgroundVars
  <2>2. ASSUME Switch PROVE UnderWay(c) /\ c \in Tests
    BY <2>1, <2>2 DEF RacesAreSettling, UnderWay, CallsAreSound, CallIsSound
  <2>3. QED
    BY <2>2, ControlAssumption DEF Switch, CanAct, CanAsk, SoleCaller
<1>6. ASSUME NEW d \in Callers, Ask(d) PROVE Advances'
  <2>1. CASE AskComplete(d)
    <3>1. UNCHANGED mode /\ d \in Tests
      BY <2>1 DEF AskComplete, clockVars, CanAsk, SoleCaller
    <3>2. CASE settle[c].batch # {}
      <4>1. UnderWay(c) /\ c \in Tests
        BY <3>2 DEF RacesAreSettling, UnderWay, CallsAreSound, CallIsSound
      <4>2. QED
        BY <2>1, <3>1, <4>1 DEF AskComplete, CanAsk, CanAct, SoleCaller
    <3>3. CASE settle[c].batch = {}
      <4>1. settle'[c] # settle[c]
        BY <3>3
      <4>2. d = c
        BY <2>1, <4>1 DEF AskComplete, Complete, TypeOK
      <4>3. settle'[c] = NoRace \/ settle'[c] = Look(c, job, parked, Advances)
        BY <2>1, <4>2 DEF AskComplete, Complete, TypeOK
      <4>4. Advances
        BY <4>3 DEF Look, NoRace
      <4>5. QED
        BY <3>1, <4>4 DEF Advances
    <3>4. QED
      BY <3>2, <3>3
  <2>2. CASE \E instant : SetTo(d, instant)
    <3>1. settle' = settle
      BY <2>2 DEF SetTo
    <3>2. UnderWay(c) /\ c \in Tests
      BY <3>1 DEF RacesAreSettling, UnderWay, CallsAreSound, CallIsSound
    <3>3. QED
      BY <2>2, <3>2 DEF SetTo, CanAsk, CanAct, SoleCaller
  <2>3. QED
    BY <1>6, <2>1, <2>2 DEF Ask, AdvanceBy
<1>7. ASSUME NEW d \in Callers, Proceed(d) PROVE Advances'
  <2>1. CASE LookAgain(d)
    <3>1. UNCHANGED mode
      BY <2>1 DEF LookAgain, clockVars
    <3>2. settle[c].batch # {} /\ settle[c].runs
      <4>1. CASE d # c
        BY <2>1, <4>1 DEF LookAgain, Complete, TypeOK
      <4>2. CASE d = c
        BY <2>1, <4>2 DEF LookAgain, RaceIsOver, Complete, Look, NoRace, TypeOK
      <4>3. QED
        BY <4>1, <4>2
    <3>3. QED
      BY <1>2, <3>1, <3>2
  <2>2. CASE Arrive(d) \/ \E entry \in queued : Dispatch(d, entry)
    <3>1. c = d
      <4>1. ASSUME c # d PROVE settle[c].batch # {}
        BY <2>2, <4>1 DEF Arrive, Dispatch, Complete, TypeOK
      <4>2. ASSUME c # d PROVE c \in Tests
        BY <4>1, <4>2 DEF RacesAreSettling, UnderWay, CallsAreSound, CallIsSound
      <4>3. d \in Tests
        BY <1>7, ProceedShape
      <4>4. QED
        BY <4>2, <4>3 DEF SoleCaller
    <3>2. CASE Arrive(d)
      BY <3>1, <3>2, CompleteRace DEF Arrive
    <3>3. ASSUME NEW entry \in queued, Dispatch(d, entry) PROVE FALSE
      <4> DEFINE jobs == IF entry.kind = "task" THEN [job EXCEPT ![entry.job] = "running"] ELSE job
                 waiting == IF entry.kind = "timer" THEN WithoutTimer(entry) ELSE parked
                 current == [call[d] EXCEPT !.after = "walk", !.last = LaterOfNow(entry.due)]
      <4>1. Complete(d, Look(d, jobs, waiting, FALSE), current)
        BY <3>3 DEF Dispatch
      <4> HIDE DEF jobs, waiting, current
      <4>2. QED
        BY <3>1, <4>1, CompleteRace
    <3>4. QED
      BY <2>2, <3>2, <3>3
  <2>3. QED
    BY <1>7, <2>1, <2>2 DEF Proceed, Walk, Reach, WalkOn
<1>8. QED
  BY <1>3, <1>4, <1>5, <1>6, <1>7 DEF Next

(* As long as the clock is not set back, complete() waits for no work that   *)
(* only the clock can release, unless the clock runs by itself               *)
(* (BackgroundClockWaits.runnable).  Set back, it would wait for a timer     *)
(* that was due when it was asked for.                                       *)
THEOREM SoleWaitsForWhatCanMove ==
    ASSUME SoleCaller PROVE Spec /\ [][Now' >= Now]_vars => WaitsForWhatCanMove
<1> DEFINE Waiting ==
      \A c \in Callers : Looks(c) =>
         \A j \in settle'[c].batch :
           \/ ~Blocked(j)' \/ Advances'
           \/ \E entry \in TimersOf(j)' : entry.due <= Now'
<1>1. Init => TimersAreDue /\ RunsAdvance
  BY DEF Init, BackgroundInit, TimersAreDue, RunsAdvance, NoRace
<1>2. /\ TypeOK /\ TypeOK' /\ EveryWaitIsQueued /\ RacesAreSettling /\ CallsAreSound
      /\ TimersAreDue /\ RunsAdvance /\ [Next]_vars /\ [Now' >= Now]_vars
      => TimersAreDue' /\ RunsAdvance'
  BY TimersDue, RunsStayTrue
<1>3. /\ TypeOK /\ TypeOK' /\ EveryWaitIsQueued /\ RacesAreSettling
      /\ TimersAreDue' /\ RunsAdvance' /\ [Next]_vars
      => [Waiting]_vars
  <2> SUFFICES ASSUME TypeOK, TypeOK', EveryWaitIsQueued, RacesAreSettling, TimersAreDue', RunsAdvance',
                      Next, NEW c \in Callers, Looks(c), NEW j \in settle'[c].batch,
                      Blocked(j)', ~Advances'
               PROVE  \E entry \in TimersOf(j)' : entry.due <= Now'
    OBVIOUS
  <2>1. ~settle'[c].runs
    BY DEF RunsAdvance
  <2>2. j \notin parked'
    BY <2>1, RacesLooked DEF Looks
  <2>3. PICK entry \in queued' : entry \in TimersOf(j)' /\ entry.kind = "timer" /\ entry.job = j
    BY DEF Blocked, TimersOf
  <2>4. entry.due <= Now'
    BY <2>2, <2>3 DEF TimersAreDue
  <2>5. QED
    BY <2>3, <2>4
<1>4. QED
  BY <1>1, <1>2, <1>3, TypeCorrect, SoleCallsAreSound, WaitsStayQueued, RacesSettling, PTL
     DEF Spec, WaitsForWhatCanMove

=============================================================================
