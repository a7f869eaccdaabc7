# Yulin in TLA+

Yulin simulates AWS inside a test process. A `SimAws` holds one simulated service per Account and
Region, and all of them share one controllable clock and one scheduler of background work. A test
writes to the simulation, moves its clock, waits for it to settle and then asserts. Nothing runs
continuously, so whatever real AWS does by polling, waiting or retrying is here a task scheduled on the
clock or deferred to the host. That makes the simulation deterministic, and it makes the promises below
hard to keep: work must happen at its instant, settling must mean settled, and no message may wait
with nobody due to come for it.

This directory holds the specifications of that core, the configurations that model-check them, and
machine-checked proofs of every safety property the passing runs check. `PROJECT.json` ties every definition to the lines it
translates, every property to a run, and every run's property to a mutation of the code that breaks it.

## The system

| component | state | operations | what is hard | what makes it correct |
|---|---|---|---|---|
| Simulated clock (`util/clock/sim-clock*.ts`, `sim-controllable-clock.ts`) | mode (frozen at an instant, running at an offset), base clock | now, advances, freeze, resume, setTo | the base moves between two switches | switching keeps the instant; `advances` agrees with what the clock does |
| Clock control (`sim-clock-control.ts`) | calls under way | setTo, advanceBy, freeze, resume | four awaits in a call; work scheduled, parked, failing in between | everything owed happens, at its instant, in order; a failure stops the clock where it happened; calls end |
| Background tasks (`util/background/`) | held work with clock wait counts, due queue, host timers, races | schedule, scheduleAt, cancelScheduled, runDue, outstanding, waitingOnClock, complete | deciding what is worth waiting for while it changes | complete returns exactly when nothing else can move; failures surface; nobody waits for each other |
| Lambda invocation timers, deadline, stall watch (`lambda/function/invoke/`) | timers per invocation, on the clock and on the host | setTimeout, setInterval, clear, cancelAll, dispatch | each timer is on two timelines | an invocation is released exactly once, from either |
| SQS queues (`sqs/queue`, `sqs/message`, `sqs/command`) | queues, settings, deleted names, messages, handles | create, delete, purge, attributes, send, receive, delete message, change visibility | lazy lifecycle of all queues at every request; redrive in circles; superseded handles | at-least-once delivery; one place per message; retention from the one send |
| Poll schedule and SQS poller (`poll-schedule.ts`, `sqs/poll`, `sim-sqs-queue-activity.ts`) | deferred turn, turns on the clock, polls under way, watchers | start, stop, messageAvailable, poll | four awaits in a poll; overlapping polls; stop in the middle | never asleep over a message; polled when a message comes back; nothing scheduled once stopped |
| Stream event source mappings (`lambda/event-source/stream`, `poll`) | turn flags, place read on from, retries so far, split, cascade guard | create, activate, poll turn, read, expire, hand over, report, retry, split, give up, delete | a turn asked for during a turn; a batch read before it is answered; a failing record that blocks the shard; a function that feeds its own source | in order, one batch at a time, past nothing it is not done with; never asleep over records; settles without the clock; ends with every record |
| Asynchronous invocation, SNS, EventBridge, Scheduler deliveries | attempts, event age, dead-letter targets | deliver, retry, give up | retries on the clock, targets that go away | every event ends delivered, dead-lettered or expired |
| DynamoDB, Kinesis, Firehose | items, streams, shards, buffers | transactions, TTL, iterators, resharding, flush | stream order, buffers flushed by size or time | transactions all or nothing; a stream shows every change once, in order |
| Step Functions fan-out (`stepfunctions/execution`, Parallel and Map) | execution, attempts at the state, children, chains of calls | start, settle, pause, release, abandon, resume, retry | calls that start the next child from inside the call of the last; chains that overlap while a task is awaited; a child that ends after the state has answered | children in order, within the bound; one answer an attempt; nothing stranded; an execution ends once |
| The rest of Step Functions, CloudFormation | task tokens, heartbeats; stacks | callbacks, time-outs; deploy, roll back | partial failure, time-outs racing answers | a task ends once; a failed update restores what was there |
| S3, Secrets Manager, KMS, Cognito, CloudWatch, ECS, the rest | see `PROJECT.json` | | | |

The parts meet in three ways. Services hand tasks to the one `BackgroundTasks` of their `SimAws`.
Work that is running may itself move the clock or wait for completion. Producers tell watchers
synchronously when something can be received (`SimSqsQueueActivity`), and the watcher turns
that into a turn now or on the clock. The hazards of the code, at their lines, are in `PROJECT.json`.

## Modules

```
SimControllableClock                      AtLeastOnceDelivery   (abstract)
  └─ BackgroundTasks                              ▲ refined by
       └─ SimClockControl                  SimSqsQueues
            ├─ MCClockControl                ├─ MCSqsQueues
            ├─ SimClockControlWalks          ├─ SimSqsQueuesProofs
            │    └─ MCClockWalks             └─ SimSqsPoller
            └─ SimClockControlProofs              ├─ MCSqsPoller
                 ├─ ...SoleCaller                 └─ SimSqsPollerProofs
                 └─ ...WalksProofs

InOrderDelivery   (abstract)              BoundedFanOut   (abstract)
        ▲ refined by                              ▲ refined by
SimLambdaStreamPoller                     SimStatesFanOut
  ├─ MCStreamPoller                          ├─ MCStatesFanOut
  └─ SimLambdaStreamPollerProofs             └─ SimStatesFanOutProofs
       └─ SimLambdaStreamPollerWakes
```

A line down is EXTENDS; SimSqsPollerProofs extends SimSqsQueuesProofs too, MCClockWalks extends
MCClockControl, and SimClockControlWalksProofs extends SimClockControlWalks. The SQS and stream modules
follow the simulation's time as a number that only grows, which is what `SimClockControl` shows of it for a caller who moves it forwards. The fan-out has
no numbers for time at all: what waits on the clock is released whenever the clock gets to it.

**SimControllableClock**, the clock. `base` is what the clock underneath reads and moves by itself
(`Tick`) when `BaseAdvances`, as `SimRealClock` does and `SimFixedClock` does not. `mode` is the mode
object. Instants are integers.

**BackgroundTasks**, the scheduler and the timers of invocations. A *job* is one piece of work with its
state (`job`): idle, queued for an instant, deferred to the host, running, done or failed. `queued` is
`BackgroundDueTasks`, with the order of its pushes; `parked` is the work whose clock wait count is not
zero; `hostQueue` holds the `setTimeout(0)` callbacks in their order; `settle` is the
`Promise.race` each caller of `complete()` awaits. Whether a caller started the work, and so is told of
its failure, is `byCaller`. What a job does while it runs is left open: it schedules, waits, asks and
ends in any order the constants allow. A job given up before it began can be scheduled again.

**SimClockControl**, `setTo`, `advanceBy`, `complete`, `freeze` and `resume`, one step for what runs
between two awaits: `SetTo` up to the host turn it gives up, `Reach` after it, `Walk` for each turn of
`runDueTasksUpTo`, `LookAgain` for each turn of `complete()`'s loop. Callers are tests, outside every
job, and jobs in `MayAsk`, which ask from inside themselves and are left out of what they wait for.
`Switch` is `freeze` and `resume`, and the freeze of an `advanceBy` that then refuses its duration.

**SimClockControlWalks**, the same behaviours with one history variable, `leftBehind`: the entries that were
due where the clock stood when a walk was cut short by a failure (`CutShort`), for as long as they stay queued.
What `complete()` may leave behind depends on it, so `NothingCanMove` is stated there.

**AtLeastOnceDelivery**, what queues promise of a message: kept from when it is sent until somebody is
finished with it or it has been kept long enough, either for good, and handed out only while it is kept,
each time with a receipt it was not handed out with before.

**SimSqsQueues**, the queues of one Account and Region. Every request runs without an await once it has
begun, so it is one step, and every request but CreateQueue first brings every queue up to date, in the
order they were created (`UpToDate`). A message moved by redrive is a new object, so `copies` numbers
objects and a message is the number of the copy it was sent as. A receipt handle is a copy and the
receive that issued it. `DeliversAtLeastOnce` is the refinement of the abstract module. A request that
is refused after the lifecycle has run is `Look`.

**SimSqsPoller**, one consumer of one queue over the whole of SimSqsQueues: the poll schedule
(`scheduled`, and the bag `turns` of instants), the announcements made by sends, moves, receives and
visibility changes, and each request of a poll as a step, because each awaits first. `Others` is
everything anybody else does. `heard` and `returned` are history that only the properties read: the copies
the consumer has had word of, which are those that can be received when it first polls and those added or
hidden while it watches, and when each copy was last given back.

**InOrderDelivery**, what a reader of one shard promises: it hands over a batch at a time, in the order
written, from the first record it is not done with, and goes past only what it is done with. Two
exceptions are the code's and are stated there: a reader that has not settled on a place, as one at
LATEST has not before its first read, may lose a batch that fails; and one that has read a closed shard
to its end goes back to where that read began.

**SimLambdaStreamPoller**, one mapping on one shard, from its creation to its deletion. `running` and
`asked` are the flags of `SimLambdaEventSourcePollTurn`, `scheduled` and `turns` its poll schedule. A
poll (`polls`) goes through stages that each end at an await: `locating` and `reading` before the two
requests, `read` with the batch in hand, `calling` before the function, `handling` while the function
runs, `ending` before the turn is given back. `position` is the checkpoint, a record's number standing
for its sequence number; `attempts` is the backoff; `split` is the bisection's half and what is left of
it; `fed` and `chained` are the cascade guard's. What the function does is left open: it takes the
batch, throws, reports any record of it as the first that failed, or writes to its own source meanwhile
(`Feeds`). `fate` and `splitTo` are history that only the properties read. The last instant of the
model, `MaxTime`, stands for every later one: a turn scheduled past it is kept at it, so no wake-up
drops out of the model.

**BoundedFanOut**, what a state promises that runs children: begun in order, never more than so many at
once, the first failure ends them all, one answer, and possibly another attempt from the first child.

**SimStatesFanOut**, one execution whose first state is a Parallel or a Map. The code is synchronous
between tasks and calls itself: a child that ends starts the next from inside the call that started it.
A *chain* is such a stack of calls, begun by StartExecution or by the clock, and `depth` is how many
ends of children are on it; several chains exist because each may stop at a task it awaits. `fanOuts`
and `children` are kept per attempt (`try`), since the children of an attempt that failed are still on
the clock, or inside a task, while a later attempt runs. `top` is where the execution's own walk is.
What the states of a child do is left open, up to `MaxAttempts` of them.

## What the runs check

Every bound is a constant and named in its module.

| run | instance | shows | distinct states |
|---|---|---|---|
| `advance` | jobs a and b and a test, over a fixed base (`MCClockWalks`). Job a may ask from inside itself, both may park, b may fail. Three pushes on the due queue. | types; no wait without what ends it; what was owed has happened; nothing that can move is left behind but what a walk cut short left; failures surface unless something parked; every call returns (under fairness) | 181,203 |
| `running` | the base moves two instants by itself, the test freezes and resumes, a may fail, b parks | on time; time goes back only for who asked; a failure stops the clock; no waiting for what only the clock releases; a running clock releases (under fairness); switching and `advances` | 140,265 |
| `sqs_queues` | a queue `work` that may redrive to itself or to `dead` after one receive, `dead` may be deleted and created again; two copies, two receives of each, time to 2, timeouts 0 and 1 | at-least-once delivery; one place; lifecycle idempotent; the redrive limit; retention; no message, handle or setting survives a deleted queue | 102,788 |
| `stream_poller` | five kinds of mapping: one retry; bisection of batches of three; no limit of retries but a record age of 0; LATEST with no limit at all; created disabled. Three records written up to instant 1 of 2, two polls, waits of 1, a guard of 2 | types; one batch at a time; past only what is finished; never asleep over records; settles without the clock and ends with every record (under fairness); in order | 816,912 |
| `states_fan_out` | three children, a bound of 1, 2 or 3 at once, one retry of the state, two states in a child, two chains of calls | types; counts agree with children; one chain per child; never stuck; an answer stands; an execution ends once, and ends (under fairness); the promise of a bounded fan-out | 423,682 |
| `sqs_poller` | one queue, deleted and created again; batches of one; two polls that overlap; others send, receive, hide, purge and delete; two copies, time to 1 | never asleep over messages; polled when a message comes back; nothing left after a stop; settled means delivered | 588,940 |

The bounds are enough for the cases that matter to occur. Three pushes let a job be scheduled, park,
and schedule another behind an entry that is overdue; two jobs are what it takes for one to fail or ask
while another parks, and for a failing one to cut short a walk that another's timer is on: dropping either
exception of `OthersAreStopped` makes `advance` fail. Two copies of one message are a move, and a queue that redrives to itself shows
the circle. Two receives supersede a handle. Two polls overlap, and batches of one make every batch
full. Three records split unevenly and leave a half to be retried; two polls are what it takes for turns
to overlap if the flags let them; a last write at instant 1 leaves an instant in which only the mapping
can act. Three children under a bound of 1 to 3 show one waiting, one running and one ended together;
two chains release one child while another is at a task; one retry shows children of an earlier attempt
that end late. `MaxTurns` bounds only the visibility changes made by others while polls already wait on the
clock, because each adds one more. Each property is broken by a mutation of a mapped definition under
the same configuration (the operators marked `mutant`), so the interesting case is reached.

Deadlock checking is off: a simulation whose work is done, or whose bounds are reached, stops.

### Where the code and its documentation disagree

Six runs expect a violation; each checks one sentence of the repository.

- `park_hides_failure` / `FailuresSurface`. A task fails and, before `complete()`'s batch has settled,
  another task parks. The park wins the race, `complete()` looks again, and the failed task is no longer
  held, so nobody is told. `background-settled-tasks.ts` says a failure surfaces to whoever waited.
- `two_askers` / `NoMutualWait`. Two handlers that both move the clock or await completion wait for each
  other: only the asker's own work is left out of its wait.
- `left_due` / `NothingDueIsLeft`. Work that runs while `setTo` settles at its target schedules something
  due at that instant, and `setTo` returns with it queued. `OwedHappens` is the part of the promise that
  holds: what was queued before the call.
- `superseded_handle` / `SupersededHandlesDoNothing`. ChangeMessageVisibility accepts a superseded handle
  and hides, or with 0 releases, the message another consumer holds. DeleteMessage checks; this does not.
- `zero_timeout` / `ComesBackOnTheClock`. With a queue visibility timeout of 0 the receive of a poll
  announces its own message as receivable now, so a failing batch is polled straight back round, at one
  instant, for as long as the consumer fails it: settling never ends.
- `split_batch` / `HalvesCarryOnlyTheSplitBatch`. `docs/services/lambda/README.md` (2073-2075) says a
  split batch's halves carry that batch and nothing else. When a half fails and is split itself, it
  becomes the batch being split, so once it is through, the next read takes a full batch: the rest of
  the first batch goes together with a record written since (`sim-lambda-stream-bisect.ts`, 50-61).

## Fairness

Three modules have liveness properties.

In `SimClockControl`, `Fairness` is weak fairness of what the host does:
callbacks of `setTimeout` run, host timers fire, promises that can settle do, real time passes; and
strong fairness of a job ending, which says a handler that again and again comes to where it could end
does end. That is an assumption about handlers, not about Yulin: a handler that loops for ever hangs the
simulation, as the code documents. No fairness is given to asking, scheduling or parking. Strong
fairness is needed because another caller may keep a job parked in between.

In `SimLambdaStreamPoller`, the host is weakly fair (`HostRuns`): a deferred or due poll is begun, a
request is answered, the function returns. Writers, deletion and the clock get none. `EveryRecordFinishes`
assumes in its own statement that the clock keeps moving, as a test that waits long enough makes it;
`SettlesWithoutTheClock` does not, which is its point.

In `SimStatesFanOut`, each chain of calls is weakly fair on its own (`Calls(k)`): tasks answer,
independently of each other. `ExecutionEnds` assumes in its statement that the clock releases what waits.

## Proofs

Eight modules hold the theorems. Those of the clock hold for every set of jobs and
tests, every delay and every bound, under the named assumptions of the modules.

| theorem | property | argument |
|---|---|---|
| `TypeCorrect` | `TypeOK` | inductive as it stands; one lemma per action. The order of pushes needs ids below `pushes` |
| `HappeningOnTime` | `HappensOnTime` | an entry leaves the queue with its job running on in two ways, the walk (which sets the clock to the later of now and its instant) and the host timer (which asks the clock) |
| `SwitchingKeeps` | `SwitchingKeepsTheInstant` | from the types alone, by arithmetic on offset and base |
| `RacesSettling` | | a race is under way exactly while the call settles; a strengthening the next needs |
| `WaitsStayQueued` | `EveryWaitIsQueued` | inductive together with `RacesAreSettling`: without it a call that settles could be thought to be one that gave up its turn. The host queue is followed as a sequence without repetition |
| `SoleCallsAreSound` | | the invariant `CallsAreSound`: a call that moves the clock finds it frozen, between where it started and its target (`Stands`, `Walks`), and whatever it still owes is in the queue and not behind it (`Owes`) |
| `SoleTimeMovesForward` | `TimeMovesForward` | a dispatch takes the later of now and the due instant; arriving moves to a target not behind the walk |
| `SoleThrowStopsTheClock` | `ThrowStopsTheClock` | the walk records its last instant and nothing else moves a frozen clock |
| `SoleOwedHappens` | `OwedHappens` | the walk ends only with nothing due by the target, and what comes later has a higher id |
| `FailuresSurfacing` | `FailuresSurfaceUnlessParked` | a race under way is ended by its own caller's next turn or woken by a park, since every other step of that caller needs a call that does not settle (`RacesAreSettling`, `EveryWaitIsQueued`) |
| `SoleAdvancesTellsTheTruth` | `AdvancesTellsTheTruth` | a dispatch that leaves its call as it was is at the instant of the last one, where the walk has the clock |
| `SoleWaitsForWhatCanMove` | `WaitsForWhatCanMove` | `TimersAreDue`: a timer whose job is not parked asked for no delay, so it is due; `RunsAdvance`: a race over parked work was found with the clock running, and nobody freezes it under a sole caller |
| `NothingIsLeftMoving` | `NothingCanMove` | `ParkedAhead`: a timer that parks its job is ahead of the clock, was left by a walk cut short, or is on the way of a walk that has yet to dispatch it; `WalksAreMarked`: a call that waits for its turn has no walk yet, and one about to take a turn of a walk is on it |
| `SqsTypesHold`, `NothingOutlivesItsQueueHolds`, `HeldOnceHolds` | `TypeOK`, `NothingOutlivesItsQueue`, `HeldOnce` | parts of `SqsInv`, below |
| `UpToDateTwiceHolds` | `BringingUpToDateTwice` | a queue brought up to date is `IsUpToDate`, a queue that redrives to itself included, and then neither step of the lifecycle changes anything |
| `GivesUpInTimeHolds`, `RetentionHolds` | `GivesUpInTime`, `RetentionRunsFromTheSend` | a receive takes from a queue that `IsUpToDate`; what the time of the send is, `Rooted` says |
| `QueuesDeliverAtLeastOnce` | `DeliversAtLeastOnce` | each request maps to one abstract request or a stutter: what `Renews` says of bringing all queues up to date, then what the request itself does, under `DeliveryInv` |
| `PollerTypesHold`, `NeverAsleepOverMessagesHolds`, `PolledWhenItComesBackHolds`, `StopHolds`, `SettledMeansDeliveredHolds` | `PollerTypeOK`, `NeverAsleepOverMessages`, `PolledWhenItComesBack`, `StopLeavesNothingScheduled`, `SettledMeansDelivered` | parts of `PollerInv`, below, or what they come to when nothing is under way |
| `StreamInvHolds` | | the invariant `StreamInv`, below |
| `StreamTypesHold` | `StreamTypeOK` | part of `StreamInv`; that `attempts` stays within the limit needs the stages of the poll |
| `OneBatchHolds` | `OneBatchAtATime` | from `OneTurnAtATime` and `PollsKnow`, parts of `StreamInv` |
| `NeverAsleepHolds` | `NeverAsleepOverRecords` | from `WakeInv`, below |
| `StreamDeliversInOrder` | `DeliversInOrder` | each action maps to a step of `InOrderDelivery` or to a stutter, under `DeliveryInv` |
| `PassesFinishedHolds` | `PassesOnlyTheFinished` | carried through the abstract steps: what `HandOver`, `PassOver` and `Answer` allow keeps everything behind the place done with |
| `FanOutInvHolds` | | the invariant `FanOutInv`, below |
| `FanOutTypesHold`, `CountsHold`, `OneChainHolds` | `FanOutTypeOK`, `CountsItsChildren`, `OneChainPerChild` | parts of `FanOutInv` |
| `NeverStuckHolds` | `NeverStuck` | from `Owed`: if nobody is at work the state has suspended without an outcome, so a child is still running, and a running child in nobody's hands is on the clock |
| `AnswerStandsHolds` | `AnswerStands` | an attempt answers with a failure, after which `settled` changes nothing, or with all children through, and then none is left to end |
| `EndsOnceHolds` | `ExecutionEndsOnce` | an attempt whose execution has ended has answered, and none answers twice |
| `KeepsThePromiseHolds` | `KeepsThePromise` | each action maps to a step of `BoundedFanOut` on the latest attempt, or to a stutter; steps of earlier attempts are stutters |

The theorems of the clock named `Sole...` assume `SoleCaller`: one test, and no job that asks. The
first ones need it. Two calls that overlap pull the clock from under each other: with two tests TLC finds `TimeMovesForward` and
`ThrowStopsTheClock` violated when one asks for an earlier instant while the other's walk is under way,
and `OwedHappens` violated when one resumes a running clock while the other has given up its turn. The documentation asks for each call
to be awaited and describes no overlap. The run `advance` checks `OwedHappens` with a job that asks
as well, on its small instance.

Two theorems ask for more, and each condition is needed. `SoleWaitsForWhatCanMove`
is about behaviours in which the clock is not set back (`Now' >= Now`): a timer asked for with no delay is
not a wait on the clock, so once the clock is set to before its instant `complete()` waits for work that
only the clock can release. TLC shows it with delays of 0 and 1 in the instance of `running`.
`NothingIsLeftMoving` assumes that no job works on while a timer is out (`Racers`), which `complete()`
counts as waiting, and that the clock underneath stands still: over one that moves by itself, a freeze
between an instant and the host timer for it leaves that timer due, and `complete()` returns.

What `complete()` leaves behind has two exceptions, which `NothingCanMove` states (`OthersAreStopped`) and
the theorem keeps. A walk that throws leaves the other timers due at that instant queued with their jobs
parked, and a `complete()` that follows returns although the host is about to fire them; these are in
`leftBehind`. And a timer that another caller's walk is on its way to is left to that walk. Both occur in `advance`.
The property has a part for a `complete()` that finds nothing to race and returns in the step it is asked
in (`ReturnsAtOnce`), and one for every `complete()`, asked for alone or by `setTo`, that had a race to
wait for. The theorem needs no `SoleCaller`, and holds whatever fails and however the clock is set back.

`StreamInv` is `StreamTypeOK` with four parts that the types alone do not give. `OneTurnAtATime`: `running`
is set exactly while one poll is under way. `PollsKnow`: what a poll carries from before an await is
still so: its place is the mapping's, or the mapping has not settled on one; its batch is among the
written records; and what it would leave as the next place is the end of its batch, or for a shard
read to its end a place not past the mapping's. `SettlesOnce`: a mapping that has settled on a
place never loses it. `GuardStops`: a chain at the cascade limit has halted the polls. `DeliveryInv` adds
that only what was written is finished. It holds for every set of mapping settings, batch size, limit and
wait, and any number of polls that might overlap.

`FanOutInv` has two halves. `Body` is about the children: up to a failure the counts are the cardinalities
of what they count and the queue is what has not begun, and from a failure on no child runs; a child is
`running` exactly while one chain drives it. `Tops` is about the execution: `Outcomes` and `AnswersOnce`
say when an attempt has an answer, `Suspensions` which attempt is waiting for one, `Stages` and `Walks`
which call the state of the execution belongs to, and `Owed` who owes it the next step: the chain that
is starting children, the one that answered, the clock that holds its retry, or, once it has suspended,
the end of a child. Without `Owed` a suspended state could have all its children ended and nobody coming
back. It holds for any number of children, bound, retries and chains.

`WakeInv` adds to the `DeliveryInv` of the stream what wakes a mapping: it watches from its creation until
the guard halts it (`Watched`); a poll that read nothing has read to the end, unless it was woken since
(`PollsWake`); and when the polls rest and nothing is scheduled, nothing is unread (`Rested`).

`SqsInv` says of the copies (`Sound`): each is numbered as it was made and carries the message, and the
time, it was sent with (`Rooted`); one copy of a message at most is held (`OneHeld`); and a copy that is held, or
whose handles a queue would still know, belongs to a queue that stands (`HeldByQueues`). With
`DefaultsBetweenQueues`, that a name no queue has keeps no settings, the last is what leaves a queue nothing
of its predecessor. All else is a statement about one operator: `Renews` is what any number of lifecycle steps may do to
the copies, held ones given up for new ones of the same message and send, or outlived. It is reflexive and
transitive, so it carries over from one queue's step to `UpToDate`, which brings up every queue in turn. That is an
induction over the queues, and it is done over the set of the places at which the fact holds (`Induct`, from the
well-foundedness of the naturals), which needs no theorem with an operator for a parameter. `DeliveryInv` adds
`FinishedAreGone`: no copy of a message that was finished with is held.

`PollerInv` is about one consumer and any number of polls that overlap, for every batch size. Its
heart is two parts that are stronger than the properties they give. `NeverAsleep`: while the
queue holds a message, a turn is to come or a poll has still to *receive*; a poll that has received
does not count, because it may be about to end without a turn. `NoneLeftWaiting`: a message that the
consumer has had word of and that can be received has a turn due by now, or a poll that is to receive,
or one under way with a full batch, which polls again. `PartIsReturned` ties the batch to what the history says was given back.
`Follows` says what any request may do to the copies the poller knows of, so the poller's proof reads none
of the queues' own operators but through it.

What the proof of `SettledMeansDelivered` shows of the code is that its condition on `heard` is needed. A message
that was hidden before the consumer came, and was not among what it could first receive, has no turn of
its own. Only a poll that finds the queue empty looks out for it (`pollWhenSomethingComesBack`, `sim-sqs-queue-poller.ts` 187-200). With a batch size
of 2 or more, a short batch that is handled in full schedules nothing, so when the message comes back while some
later turn is on the clock it waits for that turn, at an instant at which the simulation counts as settled. TLC finds
this with the property stated over all of `Receivable(Polled, copies)`, a batch size of 2, timeouts 1
and 2, and time to 3. The consumer is not asleep: `NeverAsleepOverMessages` holds. Batches of one are
always full and do not show it.

Only model-checked, and why:

- `CallsReturn`, `RunningClockReleases`, `SettlesWithoutTheClock`, `EveryRecordFinishes` and
  `ExecutionEnds`: liveness under fairness, which this prover does not reach.
- `OwedHappens` where a job asks from inside itself: the run `advance` checks it on its small instance.

Every other property of a passing run is a theorem.

## What is not modelled

- Of the clock: `fork`, which copies an instant into a new simulation and shares nothing after that.
- Of background tasks: work nested in held work is counted where it is (`holdCallers`), which the model
  has as part of its job.
- Of timers: `clearTimeout`, `setInterval`, and the asynchronous context a callback runs in. `TimesOut`
  stands for a deadline or a stall watch ending an invocation where it waits, at any time.
- Jobs that go on working while a timer is out (`Racers`) exist in the model and are given to no run:
  the documentation says an invocation with a timer outstanding counts as waiting.
- Of SQS: IAM, queue policies, tags, message bodies and attributes, sizes, batches beyond one entry
  after another, FIFO (refused by the code). Time does not move backwards.
- Of the poller: refusals of its own requests other than a queue that is gone, disabling and enabling a
  mapping, and functions that go away.
- Of stream mappings: the 24 hours a shard keeps a record, refusals by IAM, a function that is deleted,
  a Kinesis stream's several shards (each is read as this one is) and resharding, what a discarded
  batch's notification says, changing a mapping, and filters (a record left out is one taken).
- Of the fan-out: data, what the states of a child are, a fan-out inside a child (driven as this one is),
  deadlines of tasks and of the execution, stopping an execution, names, tolerated failures of a
  distributed Map.
- The other services: see the components of `PROJECT.json`. Many are control plane storage or pure
  translation of requests, where tests serve better than a model checker. They are also most of the
  repository: its some 5,800 files are to a great part one file per request, resource type or wire shape, so
  the share of its lines that the models stand for stays small however much of its concurrent core
  they cover.

## Plan

In this order, each with its MC module and configuration:

1. Retries on the clock: Lambda asynchronous invocation, SNS, EventBridge and Scheduler deliveries, as
   one abstract delivery that ends once, and each refining it.
2. Invocation timers, deadline and stall watch with the contexts their callbacks run in, intervals,
   clearing, and racers.
3. DynamoDB transactions and streams, Kinesis iterators and resharding (with one stream mapping per
   shard), Firehose buffers.
4. Step Functions task tokens, heartbeats and deadlines; CloudFormation deployment and rollback.
5. S3 versions and locks, Secrets Manager and KMS lifecycles, CloudWatch alarms, ECS deployments.

Theorems to come: what of `OwedHappens` holds when a job asks from inside itself, as the run `advance`
checks; that the calls of the clock end, as a measure that each turn brings down, short of
the liveness itself; and the refinements of the modules above.
