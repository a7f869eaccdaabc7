---------------------------- MODULE SimSqsPoller ----------------------------
(* A consumer of one queue that cannot poll it continuously.                 *)
(*                                                                           *)
(* service/sqs/poll/sim-sqs-queue-poller.ts and util/background/             *)
(* poll-schedule.ts, over the queues of SimSqsQueues: what announces a       *)
(* message there (queue/sim-sqs-queue-activity.ts) schedules a poll here.    *)
(* The consumer is a Lambda event source mapping, which watches its queue    *)
(* while it is still being created; an ECS container is one that is ready    *)
(* straight away.  Each request of a poll is a step, because each awaits     *)
(* before it reaches the queue; so polls overlap each other, everybody       *)
(* else's requests and the consumer going away.                              *)
EXTENDS SimSqsQueues

CONSTANTS
    Polled,     \* the queue
    BatchSize,  \* how many messages the consumer wants at once
    Polls,      \* bound: polls under way at once
    MaxTurns    \* bound: polls waiting on the clock when a message is hidden again

ASSUME PollerAssumption ==
    /\ Polled \in Names
    /\ BatchSize \in Nat \ {0}
    /\ MaxTurns \in Nat

VARIABLES
    consumer,   \* the consumer: "none", "creating", "ready" or "stopped"
    scheduled,  \* PollSchedule.scheduled: a poll is deferred to the host
    turns,      \* the bag of the instants polls wait on the clock for
    poll,       \* where each poll has got to
    heard,      \* the copies it has had word of, for the properties
    returned    \* when each copy was last given back, for the properties

pollerVars == <<consumer, scheduled, turns, poll, heard, returned>>

allVars == <<vars, pollerVars>>

IsWatching == consumer \in {"creating", "ready"}

NoPoll == [at |-> "over", onClock |-> FALSE, timeout |-> 0, batch |-> {}, handled |-> {}]

Stages == {"over", "asking", "receiving", "handling", "deleting"}

UnderWay(p) == poll[p].at # "over"

-----------------------------------------------------------------------------
(* PollSchedule: a poll as soon as the host gets to it, which the one that   *)
(* is already waiting stands for, and one at each of a bag of instants.      *)

\* mutant: a poll that goes on after the consumer has gone asks for a turn
SchedulesRegardless(soon, later) ==
    /\ scheduled' = (scheduled \/ soon)
    /\ turns' = turns (+) later

Schedules(soon, later) ==
    IF consumer = "stopped"
      THEN UNCHANGED <<scheduled, turns>>
      ELSE /\ scheduled' = (scheduled \/ soon)
           /\ turns' = turns (+) later

AddedHere == {k \in DOMAIN copies' \ DOMAIN copies : copies'[k].queue = Polled}

MovedHere == {k \in AddedHere : copies'[k].message # k}

TakenHere == {k \in DOMAIN copies' : copies'[k].queue = Polled /\ HandsOut(k)}

(* The watcher is told when each of the copies numbered can next be received,*)
(* and of one that was moved here straight away, whatever became of it next. *)
Tells(numbers) ==
    LET later == {k \in numbers : copies'[k].visibleFrom > now}
        instants == {copies'[k].visibleFrom : k \in later}
    IN  IF IsWatching
          THEN Schedules(numbers # later \/ MovedHere # {},
                         [i \in instants |-> Cardinality({k \in later : copies'[k].visibleFrom = i})])
          ELSE UNCHANGED <<scheduled, turns>>

AnnouncesArrivals(hidden) == Tells(AddedHere)  \* mutant: nothing hidden is announced

(* What a step announces that hides the copies numbered.                     *)
Announces(hidden) == Tells(hidden \cup AddedHere)

(* It has word of what is added or last hidden while it watches, and of what *)
(* can be received when it first polls.                                      *)
Sees(hidden) ==
    heard' = IF IsWatching THEN heard \cup hidden \cup AddedHere ELSE heard \ hidden

-----------------------------------------------------------------------------
(* The consumer.                                                             *)

PollerInit ==
    /\ Init
    /\ consumer = "none"
    /\ scheduled = FALSE
    /\ turns = EmptyBag
    /\ poll = [p \in Polls |-> NoPoll]
    /\ heard = {}
    /\ returned = [k \in 1 .. MaxCopies |-> -1]

(* A mapping watches its queue from the start, and polls once it is created. *)
StartMapping ==
    /\ consumer = "none"
    /\ Exists(Polled)
    /\ consumer' = "creating"
    /\ UNCHANGED <<vars, scheduled, turns, poll, heard, returned>>

Activate ==
    /\ consumer = "creating"
    /\ consumer' = "ready"
    /\ Schedules(TRUE, EmptyBag)
    /\ heard' = heard \cup Receivable(Polled, copies)
    /\ UNCHANGED <<vars, poll, returned>>

(* A container is there to poll for.                                         *)
StartContainer ==
    /\ consumer = "none"
    /\ consumer' = "ready"
    /\ Schedules(TRUE, EmptyBag)
    /\ heard' = heard \cup Receivable(Polled, copies)
    /\ UNCHANGED <<vars, poll, returned>>

(* The consumer goes away.  What the host has been handed it still runs, and *)
(* a poll under way goes on.                                                 *)
Stop ==
    /\ IsWatching
    /\ consumer' = "stopped"
    /\ turns' = EmptyBag
    /\ UNCHANGED <<vars, scheduled, poll, heard, returned>>

-----------------------------------------------------------------------------
(* One poll.                                                                 *)

Reaches(p, there) ==
    /\ poll' = [poll EXCEPT ![p] = there]
    /\ UNCHANGED consumer

(* With no session to poll in, the turn is over.                             *)
Begins(p, onClock) ==
    /\ ~UnderWay(p) /\ \A o \in Polls : ~UnderWay(o) => p <= o
    /\ Reaches(p, IF consumer = "ready"
                    THEN [NoPoll EXCEPT !.at = "asking", !.onClock = onClock]
                    ELSE NoPoll)
    /\ UNCHANGED <<vars, heard, returned>>

DeferredTurn(p) ==
    /\ scheduled
    /\ scheduled' = FALSE
    /\ Begins(p, FALSE)
    /\ UNCHANGED turns

ClockTurn(p) ==
    \E i \in BagToSet(turns) :
      /\ i <= now /\ \A o \in BagToSet(turns) : i <= o
      /\ turns' = turns (-) SetToBag({i})
      /\ Begins(p, TRUE)
      /\ UNCHANGED scheduled

(* The queue's visibility timeout is asked for before the batch is: it may   *)
(* be another by then.                                                       *)
Asks(p) ==
    /\ poll[p].at = "asking"
    /\ Exists(Polled)
    /\ Look
    /\ Announces({}) /\ Sees({})
    /\ \E timeout \in Timeouts :
         Reaches(p, [poll[p] EXCEPT !.at = "receiving", !.timeout = timeout])
    /\ UNCHANGED returned

NextAvailability ==
    {copies'[k].visibleFrom : k \in {i \in HeldBy(Polled, copies') : copies'[i].visibleFrom > now}}

NoneToLookOutFor == EmptyBag  \* mutant: an empty poll looks out for nothing

LookOut == IF NextAvailability = {} THEN EmptyBag ELSE SetToBag({Min(NextAvailability)})

\* mutant: the consumer is handed an empty batch
ReceivesWhateverComes(p) ==
    /\ poll[p].at = "receiving"
    /\ \E timeout \in Timeouts : ReceiveMessage(Polled, BatchSize, timeout)
    /\ Reaches(p, [poll[p] EXCEPT
         !.at = "handling",
         !.batch = {[copy |-> k, receive |-> copies'[k].receives] : k \in TakenHere}])
    /\ Announces(TakenHere)
    /\ Sees(TakenHere)
    /\ UNCHANGED returned

Receives(p) ==
    /\ poll[p].at = "receiving"
    /\ \E timeout \in Timeouts : ReceiveMessage(Polled, BatchSize, timeout)
    /\ IF TakenHere = {}
         THEN /\ Reaches(p, NoPoll)
              /\ Schedules(FALSE, LookOut)
         ELSE /\ Reaches(p, [poll[p] EXCEPT
                   !.at = "handling",
                   !.batch = {[copy |-> k, receive |-> copies'[k].receives] : k \in TakenHere}])
              /\ Announces(TakenHere)
    /\ Sees(TakenHere)
    /\ UNCHANGED returned

(* The next is when what was given back can be received, straight away when  *)
(* there may be more, or else when one is announced.                         *)
PollsAgainWhenReturned(p, handled) ==  \* mutant: a full batch is taken for all there is
    Schedules(MovedHere # {},
              IF handled # poll[p].batch THEN SetToBag({now + poll[p].timeout}) ELSE EmptyBag)

PollsAgain(p, handled) ==
    LET gaveBack == handled # poll[p].batch
    IN  Schedules(MovedHere # {} \/ (~gaveBack /\ Cardinality(poll[p].batch) >= BatchSize),
                  IF gaveBack THEN SetToBag({now + poll[p].timeout}) ELSE EmptyBag)

(* The consumer is done with its batch, and has handled any part of it.  A   *)
(* poll whose consumer has gone leaves the batch as it is.                   *)
Consumes(p) ==
    /\ poll[p].at = "handling"
    /\ UNCHANGED <<vars, heard>>
    /\ \E handled \in SUBSET poll[p].batch :
         /\ returned' = [k \in DOMAIN returned |->
                           IF k \in {handle.copy : handle \in poll[p].batch \ handled}
                             THEN now ELSE returned[k]]
         /\ IF consumer = "stopped" \/ handled = {}
              THEN Reaches(p, NoPoll) /\ PollsAgain(p, handled)
              ELSE /\ Reaches(p, [poll[p] EXCEPT !.at = "deleting", !.handled = handled])
                   /\ UNCHANGED <<scheduled, turns>>

Deletes(p) ==
    /\ poll[p].at = "deleting"
    /\ Exists(Polled)
    /\ LET all == QueueUpToDate(Polled, UpToDate)
           finished == {handle \in poll[p].handled \cap Handles(Polled) : Finishes(handle, all)}
       IN  /\ Answer(Without({handle.copy : handle \in finished}, all))
           /\ ended' = ended \cup {all[handle.copy].message : handle \in finished}
    /\ Reaches(p, NoPoll)
    /\ PollsAgain(p, poll[p].handled)
    /\ Sees({})
    /\ UNCHANGED <<queues, settings, freeFrom, returned>>

(* A request for a queue that is not there is refused, and ends the poll.    *)
Throws(p) ==
    /\ poll[p].at \in {"asking", "receiving", "deleting"}
    /\ ~Exists(Polled)
    /\ Look
    /\ Announces({}) /\ Sees({})
    /\ Reaches(p, NoPoll)
    /\ UNCHANGED returned

Polling(p) ==
    \/ DeferredTurn(p) \/ ClockTurn(p)
    \/ Asks(p) \/ Receives(p) \/ Consumes(p) \/ Deletes(p) \/ Throws(p)

-----------------------------------------------------------------------------

(* What everybody else asks of the queues.                                   *)
Others ==
    /\ \/ /\ TimePasses \/ Look \/ \E q \in Names : Request(q)
          /\ Announces(TakenHere) /\ Sees(TakenHere)
       \/ \E q \in Names : \E handle \in Handles(q), timeout \in Timeouts :
            /\ BagCardinality(turns) < MaxTurns
            /\ ChangeMessageVisibility(q, handle, timeout)
            /\ LET hidden == IF q = Polled THEN {handle.copy} ELSE {}
               IN  Announces(hidden) /\ Sees(hidden)
    /\ UNCHANGED <<consumer, poll, returned>>

PollerNext ==
    \/ StartMapping \/ Activate \/ StartContainer \/ Stop
    \/ \E p \in Polls : Polling(p)
    \/ Others

PollerSpec == PollerInit /\ [][PollerNext]_allVars

-----------------------------------------------------------------------------

PollerTypeOK ==
    /\ consumer \in {"none", "creating", "ready", "stopped"}
    /\ scheduled \in BOOLEAN
    /\ IsABag(turns) /\ BagToSet(turns) \subseteq Nat
    /\ consumer = "none" => ~scheduled /\ turns = EmptyBag
    /\ \A p \in Polls :
         /\ poll[p].at \in Stages
         /\ poll[p].handled \subseteq poll[p].batch
         /\ poll[p].batch # {} <=> poll[p].at \in {"handling", "deleting"}
         /\ \A handle \in poll[p].batch :
              handle.copy \in DOMAIN copies /\ handle.receive <= copies[handle.copy].receives
    /\ heard \subseteq DOMAIN copies
    /\ returned \in [1 .. MaxCopies -> -1 .. MaxTime]

(* "A consumer that started while every message on its queue was in flight,  *)
(* or one whose queue holds only delayed messages, has nothing to wake it    *)
(* otherwise": while the queue holds a message, whoever has it, some poll is *)
(* under way, handed to the host or waiting on the clock.                    *)
NeverAsleepOverMessages ==
    consumer = "ready" /\ HeldBy(Polled, copies) # {}
      => scheduled \/ turns # EmptyBag \/ \E p \in Polls : UnderWay(p)

(* A message that the poller has had word of, and that is hidden, is polled  *)
(* for at the very instant it comes back, whoever hid it, however often.     *)
PolledWhenItComesBack ==
    \A k \in heard :
      IsWatching /\ copies[k].held /\ ~IsVisible(copies[k])
        => BagIn(copies[k].visibleFrom, turns)

(* "A consumer that has gone leaves the simulation with nothing scheduled on *)
(* its behalf", a poll that was under way when it went included.             *)
StopLeavesNothingScheduled == consumer = "stopped" => turns = EmptyBag

(* "A test that awaits the simulation settling has watched the whole         *)
(* delivery happen": with nothing left to run before the clock is moved, no  *)
(* message that can be received waits of those the poller has had word of,   *)
(* however many more than a batch there were and whenever they came, if the  *)
(* consumer has given none back.  It has had no word of one that was hidden  *)
(* before it came and has only come back since.                              *)
Settled ==
    /\ ~scheduled
    /\ \A p \in Polls : ~UnderWay(p)
    /\ \A i \in BagToSet(turns) : i > now

SettledMeansDelivered ==
    consumer = "ready" /\ Settled /\ (\A k \in DOMAIN returned : returned[k] < 0)
      => Receivable(Polled, copies) \cap heard = {}

(* A batch the consumer keeps failing comes back on the clock, "even for a   *)
(* timeout of zero": no poll that runs straight back round hands out what    *)
(* was given back at that very instant.                                      *)
ComesBackOnTheClock ==
    [][\A p \in Polls :
         poll[p].at = "receiving" /\ poll'[p].at = "handling" /\ ~poll[p].onClock
         => \A handle \in poll'[p].batch : returned[handle.copy] # now]_allVars

=============================================================================
