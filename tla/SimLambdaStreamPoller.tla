------------------------ MODULE SimLambdaStreamPoller -----------------------
(* A Lambda event source mapping on a DynamoDB stream, or on one shard of a  *)
(* Kinesis stream: service/lambda/event-source/poll and stream.  A read      *)
(* leaves a record where it is, so the mapping holds the place it reads on   *)
(* from, and its polls take turns.  Each await of a poll ends a step.        *)
(* Records are numbered as they are written; a place is the number of the    *)
(* last record before it.  A record a filter leaves out is one the function  *)
(* took.  Left out: the shard's 24 hours of retention, a function that is    *)
(* deleted, requests that are refused, and what notifications say.           *)
EXTENDS Integers, Sequences

CONSTANTS
    Settings,             \* what a mapping may be created with
    DefaultAttemptLimit,  \* retries of a mapping that limits neither
    LongestWait,          \* the longest a batch waits to be retried
    CascadeLimit,         \* deliveries in a row that feed their own source
    Polls,                \* polls that can be under way, were they to overlap
    MaxRecords,           \* bound: records ever written
    LastWrite,            \* bound: the last instant one is written
    MaxTime               \* bound: the clock, whose last instant is every later one

Unlimited == -1

ASSUME StreamAssumption ==
    /\ \A s \in Settings :
         /\ s.latest \in BOOLEAN /\ s.enabled \in BOOLEAN /\ s.bisect \in BOOLEAN
         /\ s.batchSize \in Nat \ {0}
         /\ s.retries \in Nat \cup {Unlimited} /\ s.maxAge \in Nat \cup {Unlimited}
    /\ DefaultAttemptLimit \in Nat /\ LongestWait \in Nat \ {0}
    /\ CascadeLimit \in Nat \ {0}
    /\ MaxRecords \in Nat /\ MaxTime \in Nat /\ LastWrite \in Nat

VARIABLES
    now,        \* the instant it is
    written,    \* when each record was written, in order
    closed,     \* the stream was switched off
    mapping,    \* "none", "creating", "enabled" or "disabled"
    settings,   \* what it was created with
    watching,   \* it is told of records
    halted,     \* SimLambdaStreamHalt: deleted or refused
    running,    \* SimLambdaEventSourcePollTurn: a turn is being taken
    asked,      \* another was asked for meanwhile
    scheduled,  \* PollSchedule.scheduled: a poll is deferred to the host
    turns,      \* how many polls wait on the clock for each instant
    polls,      \* where each poll has got to
    position,   \* SimLambdaStreamCheckpoint: the place the next read starts
    attempts,   \* SimLambdaStreamRetryBackoff.attempts
    split,      \* SimLambdaStreamBisect: half, and how many are left
    fed,        \* the function has written to its source in this delivery
    chained,    \* SimLambdaStreamCascadeGuard.chained
    fate,       \* what has become of each record, for the properties
    splitTo     \* the last record of the batch being split, for the properties

streamVars == <<written, closed>>
mappingVars == <<mapping, settings, watching, halted>>
turnVars == <<running, asked, scheduled, turns>>
progressVars == <<position, attempts, split, splitTo>>
guardVars == <<fed, chained>>
vars == <<now, streamVars, mappingVars, turnVars, polls, progressVars, guardVars, fate>>

Latest == -1

WholeBatches == [half |-> 0, left |-> 0]

NoPoll == [at |-> "over", size |-> 0, place |-> 0, last |-> 0, next |-> 0, drained |-> FALSE]

Ending == [NoPoll EXCEPT !.at = "ending"]

Stages == {"over", "locating", "reading", "read", "calling", "handling", "ending"}

UnderWay(p) == polls[p].at # "over"

Records == 1 .. Len(written)

Batch(p) == polls[p].place + 1 .. polls[p].last

-----------------------------------------------------------------------------
(* PollSchedule: a poll as soon as the host gets to it, and polls at         *)
(* instants of the clock.  Nothing stops the schedule of a stream mapping.   *)

PollsNow == scheduled' = TRUE

Instants == 0 .. MaxTime

ScheduledAt(instant) ==
    LET when == IF instant \in Instants THEN instant ELSE MaxTime
    IN  turns' = [turns EXCEPT ![when] = @ + 1]

IsPolling == mapping = "enabled" /\ ~halted

-----------------------------------------------------------------------------
(* The mapping and its stream.                                               *)

Init ==
    /\ now = 0
    /\ written = <<>> /\ closed = FALSE
    /\ mapping = "none" /\ settings \in Settings
    /\ watching = FALSE /\ halted = FALSE
    /\ running = FALSE /\ asked = FALSE /\ scheduled = FALSE
    /\ turns = [i \in Instants |-> 0]
    /\ polls = [p \in Polls |-> NoPoll]
    /\ position = Latest /\ attempts = 0
    /\ split = WholeBatches /\ splitTo = 0
    /\ fed = FALSE /\ chained = 0
    /\ fate = [r \in 1 .. MaxRecords |-> "waiting"]

TimePasses ==
    /\ now < MaxTime
    /\ now' = now + 1
    /\ UNCHANGED <<streamVars, mappingVars, turnVars, polls, progressVars, guardVars, fate>>

(* A record is written, and whoever watches the stream is told.              *)
Captures ==
    /\ ~closed /\ Len(written) < MaxRecords /\ now <= LastWrite
    /\ written' = Append(written, now)
    /\ scheduled' = (scheduled \/ watching)
    /\ UNCHANGED <<now, closed, mappingVars, running, asked, turns, polls, progressVars, chained, fate>>

Write == Captures /\ UNCHANGED fed

(* The function itself writes to the source it is invoked from.              *)
Feeds ==
    /\ \E p \in Polls : polls[p].at = "handling"
    /\ watching
    /\ Captures
    /\ fed' = TRUE

Disable ==
    /\ ~closed
    /\ closed' = TRUE
    /\ UNCHANGED <<now, written, mappingVars, turnVars, polls, progressVars, guardVars, fate>>

(* A mapping watches its stream while it is still being created.             *)
Create ==
    /\ mapping = "none"
    /\ mapping' = "creating"
    /\ watching' = TRUE
    /\ position' = IF settings.latest THEN Latest ELSE 0
    /\ UNCHANGED <<now, streamVars, settings, halted, turnVars, polls,
                   attempts, split, splitTo, guardVars, fate>>

Activate ==
    /\ mapping = "creating"
    /\ mapping' = IF settings.enabled THEN "enabled" ELSE "disabled"
    /\ PollsNow
    /\ UNCHANGED <<now, streamVars, settings, watching, halted, running, asked, turns,
                   polls, progressVars, guardVars, fate>>

(* A poll waiting for its turn, on the clock included, is left to come.      *)
Delete ==
    /\ watching
    /\ watching' = FALSE
    /\ halted' = TRUE
    /\ UNCHANGED <<now, streamVars, mapping, settings, turnVars, polls, progressVars, guardVars, fate>>

-----------------------------------------------------------------------------
(* Taking turns.                                                             *)

Reaches(p, there) == polls' = [polls EXCEPT ![p] = there]

BatchSizeWithin ==
    IF split.half = 0 THEN settings.batchSize
    ELSE LET s == IF split.half < split.left THEN split.half ELSE split.left
         IN  IF s < settings.batchSize THEN s ELSE settings.batchSize

Begins(p) ==
    /\ ~UnderWay(p) /\ p = CHOOSE free \in Polls : ~UnderWay(free)
    /\ running' = TRUE
    /\ UNCHANGED asked
    /\ Reaches(p,
         IF ~IsPolling THEN Ending
         ELSE [NoPoll EXCEPT !.at = IF position = Latest THEN "locating" ELSE "reading",
                             !.size = BatchSizeWithin, !.place = position, !.next = position])

\* mutant: a wake-up during a turn is taken for the turn itself
DropsTurn(p) ==
    /\ UNCHANGED <<now, streamVars, mappingVars, progressVars, guardVars, fate>>
    /\ \/ ~running /\ Begins(p)
       \/ running /\ UNCHANGED <<running, asked, polls>>

TakesTurnRegardless(p) ==  \* mutant: two polls at once
    /\ UNCHANGED <<now, streamVars, mappingVars, progressVars, guardVars, fate>>
    /\ Begins(p)

TakesTurn(p) ==
    /\ UNCHANGED <<now, streamVars, mappingVars, progressVars, guardVars, fate>>
    /\ \/ ~running /\ Begins(p)
       \/ running /\ asked' = TRUE /\ UNCHANGED <<running, polls>>

DeferredTurn(p) ==
    /\ scheduled
    /\ scheduled' = FALSE
    /\ TakesTurn(p)
    /\ UNCHANGED turns

ClockTurn(p) ==
    \E i \in 0 .. now :
      /\ turns[i] > 0 /\ \A o \in 0 .. i - 1 : turns[o] = 0
      /\ turns' = [turns EXCEPT ![i] = @ - 1]
      /\ TakesTurn(p)
      /\ UNCHANGED scheduled

TurnOver(p) ==
    /\ polls[p].at = "ending"
    /\ Reaches(p, NoPoll)
    /\ running' = FALSE
    /\ asked' = FALSE
    /\ scheduled' = (scheduled \/ asked)
    /\ UNCHANGED <<now, streamVars, mappingVars, turns, progressVars, guardVars, fate>>

-----------------------------------------------------------------------------
(* Reading a batch.                                                          *)

(* GetShardIterator settles what LATEST means.                               *)
Locates(p) ==
    /\ polls[p].at = "locating"
    /\ Reaches(p, [polls[p] EXCEPT !.at = "reading", !.place = Len(written)])
    /\ UNCHANGED <<now, streamVars, mappingVars, turnVars, progressVars, guardVars, fate>>

(* The batch leaves the reader behind its last record; but a shard that has  *)
(* ended has no next iterator, "and the place the read started at stands".   *)
GetsRecords(p) ==
    LET poll == polls[p]
        upTo == IF poll.place + poll.size < Len(written) THEN poll.place + poll.size ELSE Len(written)
        drained == closed /\ upTo = Len(written)
    IN  /\ poll.at = "reading"
        /\ Reaches(p, [poll EXCEPT !.at = "read", !.size = 0, !.last = upTo, !.drained = drained,
                                   !.next = IF drained THEN @ ELSE upTo])
        /\ UNCHANGED <<now, streamVars, mappingVars, turnVars, progressVars, guardVars, fate>>

(* The place a read of nothing leaves is "what a starting position of LATEST *)
(* resolves to"; the turn is over.                                           *)
CatchesUp(p) ==
    /\ polls[p].at = "read" /\ Batch(p) = {}
    /\ position' = polls[p].next
    /\ Reaches(p, Ending)
    /\ UNCHANGED <<now, streamVars, mappingVars, turnVars, attempts, split, splitTo, guardVars, fate>>

-----------------------------------------------------------------------------
(* SimLambdaStreamProgress: what becomes of a batch.                         *)

Fated(ones, how) == [r \in DOMAIN fate |-> IF r \in ones /\ fate[r] = "waiting" THEN how ELSE fate[r]]

Finished(s, count) ==
    IF s.half = 0 \/ count <= 0 THEN s
    ELSE IF s.left <= count THEN WholeBatches
    ELSE [s EXCEPT !.left = @ - count]

\* mutant: it reads on at the end of a shard that has ended too
ReadsOnRegardless(p) ==
    /\ attempts' = 0
    /\ position' = polls[p].next
    /\ PollsNow
    /\ UNCHANGED turns

(* The mapping is finished with the batch: it moves past it and reads on.    *)
Handled(p) ==
    /\ attempts' = 0
    /\ position' = polls[p].next
    /\ scheduled' = (scheduled \/ ~polls[p].drained)
    /\ UNCHANGED turns

HasAgedOut(r) == settings.maxAge # Unlimited /\ now - written[r] > settings.maxAge

(* SimLambdaStreamExpiry: the records at the front of the batch that are too *)
(* old go before the rest is handed over, whatever else there is to it.      *)
Expired(p, upTo) ==
    /\ upTo \in polls[p].place .. polls[p].last
    /\ \A r \in polls[p].place + 1 .. upTo : HasAgedOut(r)
    /\ upTo < polls[p].last => ~HasAgedOut(upTo + 1)

\* mutant: the first record that is not too old goes too
ExpiresOneTooMany(p, upTo) ==
    /\ Expired(p, upTo)
    /\ upTo < polls[p].last /\ upTo > polls[p].place
    /\ position' = upTo + 1
    /\ Reaches(p, [polls[p] EXCEPT !.at = "calling", !.place = upTo])
    /\ UNCHANGED <<attempts, scheduled, turns>>

Expires(p, upTo) ==
    /\ Expired(p, upTo)
    /\ \/ /\ upTo = polls[p].last
          /\ Handled(p)
          /\ Reaches(p, Ending)
       \/ /\ upTo < polls[p].last
          /\ position' = IF upTo > polls[p].place THEN upTo ELSE position
          /\ Reaches(p, [polls[p] EXCEPT !.at = "calling", !.place = upTo])
          /\ UNCHANGED <<attempts, scheduled, turns>>

ChecksAge(p) ==
    /\ polls[p].at = "read" /\ Batch(p) # {}
    /\ \E upTo \in polls[p].place .. polls[p].last :
         /\ Expires(p, upTo)
         /\ fate' = Fated(polls[p].place + 1 .. upTo, "aged")
         /\ split' = Finished(split, upTo - polls[p].place)
    /\ UNCHANGED <<now, streamVars, mappingVars, running, asked, splitTo, guardVars>>

(* The function is invoked, in a context that tells its writes apart.        *)
Invokes(p) ==
    /\ polls[p].at = "calling"
    /\ Reaches(p, [polls[p] EXCEPT !.at = "handling"])
    /\ UNCHANGED <<now, streamVars, mappingVars, turnVars, progressVars, guardVars, fate>>

(* SimLambdaStreamCascadeGuard counts the deliveries the function fed.       *)
Chain == IF fed THEN chained + 1 ELSE 0

Returns(p) ==
    /\ polls[p].at = "handling"
    /\ chained' = Chain /\ fed' = FALSE
    /\ Reaches(p, Ending)
    /\ UNCHANGED <<now, streamVars, mapping, settings, watching, running, asked>>

(* One link too many: the poll throws, and the mapping polls no more.        *)
Refused(p) ==
    /\ Returns(p)
    /\ Chain >= CascadeLimit
    /\ halted' = TRUE
    /\ UNCHANGED <<scheduled, turns, progressVars, fate>>

Takes(p) ==
    /\ Returns(p)
    /\ Chain < CascadeLimit
    /\ Handled(p)
    /\ split' = Finished(split, polls[p].last - polls[p].place)
    /\ fate' = Fated(Batch(p), "handled")
    /\ UNCHANGED <<halted, splitTo>>

AttemptLimit ==
    IF settings.retries # Unlimited THEN settings.retries
    ELSE IF settings.maxAge = Unlimited THEN DefaultAttemptLimit
    ELSE Unlimited

\* mutant: one retry too many
IsOverspent(tries) == AttemptLimit # Unlimited /\ tries > AttemptLimit

IsExhausted(tries) == AttemptLimit # Unlimited /\ tries >= AttemptLimit

Wait(tries) == IF 2 ^ tries < LongestWait THEN 2 ^ tries ELSE LongestWait

RetriesLater(tries) == ScheduledAt(now + Wait(tries)) /\ UNCHANGED scheduled

(* SimLambdaStreamBisect: a batch the function threw on is halved.           *)
Splits(p, threw) == settings.bisect /\ threw /\ polls[p].last - polls[p].place >= 2

SplitOf(p, threw) ==
    LET count == polls[p].last - polls[p].place
    IN  IF Splits(p, threw) THEN [half |-> (count + 1) \div 2, left |-> count] ELSE split

\* mutant: a batch that has had its retries is left where it is
GivesUpInPlace(p, failed) ==
    /\ attempts' = 0
    /\ fate' = Fated(Batch(p), "exhausted")
    /\ UNCHANGED <<position, scheduled, turns>>

(* Every record from the one that failed is given up.                        *)
GivesUp(p, failed) ==
    /\ Handled(p)
    /\ fate' = [r \in DOMAIN fate |->
                  IF r \in failed .. polls[p].last THEN Fated(Batch(p), "exhausted")[r]
                                                   ELSE Fated(Batch(p), "handled")[r]]

\* mutant: reading goes on behind the record the function reported
RewindsBehind(p, failed, threw, tries) ==
    /\ attempts' = tries + 1
    /\ position' = IF threw THEN position ELSE failed
    /\ RetriesLater(tries)
    /\ fate' = Fated(polls[p].place + 1 .. failed - 1, "handled")

(* Reading goes back to the record the function reported, or to where it     *)
(* was when it threw.                                                        *)
TriesAgain(p, failed, threw, tries) ==
    /\ attempts' = tries + 1
    /\ position' = IF threw THEN position ELSE failed - 1
    /\ RetriesLater(tries)
    /\ fate' = Fated(polls[p].place + 1 .. failed - 1, "handled")

(* The function threw, or its report could not be trusted, which is a throw; *)
(* or it reported that everything up to a record went through.               *)
Fails(p, failed, threw) ==
    LET tries == IF Splits(p, threw) THEN 0 ELSE attempts
    IN  /\ Returns(p)
        /\ Chain < CascadeLimit
        /\ threw => failed = polls[p].place + 1
        /\ splitTo' = IF Splits(p, threw) /\ polls[p].place >= splitTo THEN polls[p].last ELSE splitTo
        /\ \/ /\ IsExhausted(tries)
              /\ GivesUp(p, failed)
              /\ split' = Finished(SplitOf(p, threw), polls[p].last - polls[p].place)
           \/ /\ ~IsExhausted(tries)
              /\ TriesAgain(p, failed, threw, tries)
              /\ split' = SplitOf(p, threw)
        /\ UNCHANGED halted

Poll(p) ==
    \/ TurnOver(p) \/ Locates(p) \/ GetsRecords(p) \/ CatchesUp(p) \/ ChecksAge(p) \/ Invokes(p)
    \/ Refused(p) \/ Takes(p) \/ \E failed \in Batch(p), threw \in BOOLEAN : Fails(p, failed, threw)

HostRuns == Activate \/ \E p \in Polls : DeferredTurn(p) \/ ClockTurn(p) \/ Poll(p)

Next == TimePasses \/ Write \/ Feeds \/ Disable \/ Create \/ Delete \/ HostRuns

(* The host runs what it was handed, each request of a poll is answered and  *)
(* the function returns; nothing makes the clock move on.                    *)
Spec ==
    /\ Init /\ [][Next]_vars
    /\ WF_vars(HostRuns)

-----------------------------------------------------------------------------

StreamTypeOK ==
    /\ now \in 0 .. MaxTime
    /\ written \in Seq(0 .. MaxTime) /\ Len(written) <= MaxRecords
    /\ closed \in BOOLEAN
    /\ mapping \in {"none", "creating", "enabled", "disabled"}
    /\ settings \in Settings
    /\ watching \in BOOLEAN /\ halted \in BOOLEAN
    /\ running \in BOOLEAN /\ asked \in BOOLEAN /\ scheduled \in BOOLEAN
    /\ asked => running
    /\ turns \in [Instants -> Nat]
    /\ polls \in [Polls -> [at : Stages, size : Nat, place : Nat \cup {Latest}, last : Nat,
                            next : Nat \cup {Latest}, drained : BOOLEAN]]
    /\ position \in {Latest} \cup 0 .. Len(written)
    /\ attempts \in Nat
    /\ AttemptLimit # Unlimited => attempts <= AttemptLimit
    /\ split \in [half : Nat, left : Nat] /\ (split.half = 0 <=> split.left = 0)
    /\ fed \in BOOLEAN /\ chained \in 0 .. CascadeLimit
    /\ fate \in [1 .. MaxRecords -> {"waiting", "handled", "exhausted", "aged"}]
    /\ splitTo \in 0 .. Len(written)

Unfinished == {r \in Records : fate[r] = "waiting"}

DoneWith == {r \in Records : fate[r] # "waiting"}

Handed == UNION {Batch(p) : p \in {q \in Polls : polls[q].at = "handling"}}

Unread == {r \in Unfinished : position # Latest /\ r > position}

Awake == scheduled \/ (\E i \in Instants : turns[i] > 0) \/ (\E p \in Polls : UnderWay(p))

(* Nothing is left to do until the clock moves: what complete() waits for.   *)
Settled ==
    /\ mapping # "creating" /\ ~scheduled
    /\ \A i \in 0 .. now : turns[i] = 0
    /\ \A p \in Polls : ~UnderWay(p)

(* Turns are taken one at a time (poll-turn.ts), and so nothing moves the    *)
(* mapping's place while a batch read from it is with the function: a batch  *)
(* is handed over from the place the mapping is still at when it is answered.*)
OneBatchAtATime ==
    /\ running <=> \E p \in Polls : UnderWay(p)
    /\ \A p, q \in Polls : UnderWay(p) /\ UnderWay(q) => p = q
    /\ \A p \in Polls : polls[p].at \in {"calling", "handling"} =>
         /\ Batch(p) # {}
         /\ position \in {Latest, polls[p].place}

(* A mapping that starts at TRIM_HORIZON never goes past a record that the   *)
(* function has not taken and that was not given up: whatever it retries,    *)
(* splits, finds too old or reports in part, the records behind it are done  *)
(* with (sim-lambda-stream-checkpoint.ts).                                   *)
PassesOnlyTheFinished ==
    ~settings.latest => \A r \in Unfinished : r > position

(* A mapping that polls and has records ahead of it has a poll to come: one  *)
(* deferred to the host, one on the clock or one under way.  A wake-up that  *)
(* arrives during a poll is not lost (poll-turn.ts, "asked").                *)
NeverAsleepOverRecords == IsPolling /\ Unread # {} => Awake

(* A failing batch never keeps the simulation busy: with the clock standing  *)
(* still the polls come to an end, however the function fails, for a retry   *)
(* waits on the clock (sim-lambda-stream-retry-backoff.ts) and a function    *)
(* that writes to its own source is stopped (cascade-guard.ts).              *)
SettlesWithoutTheClock == []<>(Settled \/ now = MaxTime)

(* As long as the clock moves on, a mapping that polls is through with every *)
(* record ahead of it in the end: no failing record blocks the shard for     *)
(* good, and none is left for a write that never comes to wake the mapping   *)
(* for (retry-limits.ts, expiry.ts, poll-turn.ts).                           *)
EveryRecordFinishes == WF_vars(TimePasses) => <>[](IsPolling => Unread = {})

(* What the mapping promises of its shard: the records in the order they     *)
(* were written, one batch at a time, and past none it is not done with.     *)
Delivery == INSTANCE InOrderDelivery WITH
    records <- Len(written), place <- position, handed <- Handed, done <- DoneWith

(* The polls, retries, splits and expiries deliver as a reader of one shard  *)
(* promises to.                                                              *)
DeliversInOrder == Delivery!Spec

(* The documentation says that the halves of a failed batch carry that batch *)
(* and nothing else: no delivery of a split batch reaches beyond it.         *)
HalvesCarryOnlyTheSplitBatch ==
    \A p \in Polls : polls[p].at = "handling" /\ polls[p].place < splitTo => polls[p].last <= splitTo

=============================================================================
