---------------------- MODULE SimLambdaStreamPollerWakes ----------------------
(* Theorems about what wakes one stream mapping, for every setting and every *)
(* bound: it is never left asleep over records it is still to read.          *)
EXTENDS SimLambdaStreamPollerProofs

(* Something brings another poll on: one deferred to the host, a wake-up     *)
(* noted during a turn, or one on the clock.                                 *)
Woken == scheduled \/ asked \/ \E i \in Instants : turns[i] > 0

Quiet == IsPolling /\ ~Woken

(* No poll is reading or has a batch it is still to settle.                  *)
Resting == \A p \in Polls : polls[p].at \in {"over", "ending"}

(* A mapping hears of every record written while it could poll it.           *)
Watched == mapping # "none" /\ ~halted => watching

(* A poll reads for records, one at least.                                   *)
Sized(poll) == poll.at \in {"locating", "reading"} => poll.size # 0

(* A read of nothing read to the end, unless it was woken since.             *)
ReadUp(poll) == Quiet /\ poll.at = "read" /\ poll.place = poll.last => poll.last = Len(written)

(* A poll that drained an ended shard has its last record, and what lies     *)
(* between the place that stands and its batch is done with.                 *)
Drains(poll) ==
    poll.at \in {"read", "calling", "handling"} /\ poll.drained =>
      /\ poll.last = Len(written)
      /\ poll.next # Latest => \A r \in poll.next + 1 .. poll.place : fate[r] # "waiting"

PollsWake == \A p \in Polls : Sized(polls[p]) /\ ReadUp(polls[p]) /\ Drains(polls[p])

(* When the polls rest and nothing wakes the mapping, it has read it all.    *)
Rested == Quiet /\ Resting => Unread = {}

WakeInv == DeliveryInv /\ Watched /\ PollsWake /\ Rested

-----------------------------------------------------------------------------

LEMMA WakesInitially == Init => Watched /\ PollsWake /\ Rested
<1> SUFFICES ASSUME Init PROVE Watched /\ PollsWake /\ Rested
    OBVIOUS
<1>1. \A p \in Polls : polls[p].at = "over"
    BY DEF Init, NoPoll
<1>2. mapping = "none"
    BY DEF Init
<1> QED BY <1>1, <1>2 DEF Watched, PollsWake, Sized, ReadUp, Drains, Rested, Quiet, IsPolling

(* The mapping hears of what is written until it is deleted, and then it is  *)
(* halted for good.                                                          *)
LEMMA WatchedKeeps == ASSUME MappingTypes, Watched, [Next]_vars PROVE Watched'
<1>1. CASE UNCHANGED <<mapping, watching>> /\ (halted => halted')
    BY <1>1, SMTT(30) DEF Watched, MappingTypes
<1>2. CASE UNCHANGED vars
    BY <1>1, <1>2 DEF vars, mappingVars
<1>3. CASE TimePasses \/ Write \/ Feeds \/ Disable
    BY <1>1, <1>3 DEF TimePasses, Write, Feeds, Captures, Disable, mappingVars
<1>4. CASE Create \/ Delete
    BY <1>4 DEF Create, Delete, Watched
<1>5. CASE Activate
    BY <1>5 DEF Activate, Watched
<1>6. ASSUME NEW p \in Polls, DeferredTurn(p) \/ ClockTurn(p) PROVE Watched'
    BY <1>1, <1>6 DEF DeferredTurn, ClockTurn, TakesTurn, mappingVars
<1>7. ASSUME NEW p \in Polls, Poll(p) PROVE Watched'
    BY <1>1, <1>7 DEF Poll, TurnOver, Locates, GetsRecords, CatchesUp, ChecksAge, Invokes, Refused,
       Takes, Fails, Returns, mappingVars
<1> QED BY <1>2, <1>3, <1>4, <1>5, <1>6, <1>7 DEF Next, HostRuns

(* A batch is of one record or more, a split one too.                        *)
LEMMA BatchesAreOfSome == ASSUME settings \in Settings, SplitTypes PROVE BatchSizeWithin # 0
<1>1. settings.batchSize \in Nat \ {0}
    BY StreamAssumption DEF StreamAssumption
<1>2. split.half \in Nat /\ split.left \in Nat /\ (split.half = 0 <=> split.left = 0)
    BY DEF SplitTypes
<1> QED BY <1>1, <1>2 DEF BatchSizeWithin

(* A step that touches neither the polls nor the records, and after which    *)
(* the mapping is quiet only where it was.                                   *)
LEMMA NothingWakes ==
    ASSUME PollsWake, Rested, UNCHANGED <<written, polls, fate, position>>, Quiet' => Quiet
    PROVE  PollsWake' /\ Rested'
<1>1. PollsWake'
    BY DEF PollsWake, Sized, ReadUp, Drains
<1>2. Rested'
    BY DEF Rested, Resting, Unread, Unfinished, Records
<1> QED BY <1>1, <1>2

(* A mapping that is told of a record is not quiet.                          *)
LEMMA CapturesWakes == ASSUME WakeInv, Captures PROVE PollsWake' /\ Rested'
<1>1. /\ UNCHANGED <<polls, fate, position, mapping, halted>> /\ ~closed
      /\ scheduled' = (scheduled \/ watching)
    BY DEF Captures, mappingVars, progressVars
<1>2. ~Quiet'
    BY <1>1 DEF WakeInv, Watched, Quiet, IsPolling, Woken
<1>3. \A p \in Polls : Knows(polls[p])
    BY DEF WakeInv, DeliveryInv, StreamInv, PollsKnow
<1>4. \A p \in Polls : polls[p].at \in {"read", "calling", "handling"} => ~polls[p].drained
    BY <1>1, <1>3 DEF Knows
<1>5. PollsWake'
    BY <1>1, <1>2, <1>4 DEF WakeInv, PollsWake, Sized, ReadUp, Drains
<1> QED BY <1>2, <1>5 DEF Rested

LEMMA MappingWakes ==
    ASSUME WakeInv, TimePasses \/ Disable \/ Create \/ Activate \/ Delete \/ UNCHANGED vars
    PROVE  PollsWake' /\ Rested'
<1>1. PollsWake /\ Rested
    BY DEF WakeInv
<1>2. CASE Create \/ Activate \/ Delete
  <2>1. UNCHANGED <<written, polls, fate>> /\ ~Quiet'
    BY <1>2 DEF Create, Activate, PollsNow, Delete, streamVars, Quiet, IsPolling, Woken
  <2> QED BY <1>1, <2>1 DEF PollsWake, Sized, ReadUp, Drains, Rested
<1>3. CASE TimePasses \/ Disable \/ UNCHANGED vars
  <2>1. UNCHANGED <<written, polls, fate, position, mapping, halted, scheduled, asked, turns>>
    BY <1>3 DEF TimePasses, Disable, vars, streamVars, mappingVars, turnVars, progressVars
  <2>2. Quiet' => Quiet
    BY <2>1 DEF Quiet, IsPolling, Woken
  <2> QED BY <1>1, <2>1, <2>2, NothingWakes
<1> QED BY <1>2, <1>3

-----------------------------------------------------------------------------
(* Turns.                                                                    *)

LEMMA TakesTurnWakes ==
    ASSUME WakeInv, NEW p \in Polls, TakesTurn(p) PROVE PollsWake' /\ Rested'
<1>1. UNCHANGED <<written, fate, position, mapping, halted, split, settings>>
    BY DEF TakesTurn, streamVars, mappingVars, progressVars
<1>2. PollTypes /\ SplitTypes /\ settings \in Settings
    BY TypesTogether DEF WakeInv, DeliveryInv, StreamInv, MappingTypes
<1>3. CASE running /\ asked' = TRUE /\ UNCHANGED polls
  <2>1. ~Quiet'
    BY <1>3 DEF Quiet, Woken
  <2> QED BY <1>1, <1>3, <2>1 DEF WakeInv, PollsWake, Sized, ReadUp, Drains, Rested
<1>4. CASE ~running /\ Begins(p)
  <2>1. \A q \in Polls : polls[q].at = "over"
    BY <1>4 DEF WakeInv, DeliveryInv, StreamInv, OneTurnAtATime, UnderWay
  <2>2. \A q \in Polls : q # p => polls'[q] = polls[q]
    BY <1>2, <1>4 DEF Begins, Reaches, PollTypes
  <2>3. CASE ~IsPolling
    <3>1. polls'[p] = Ending
      BY <1>2, <1>4, <2>3 DEF Begins, Reaches, PollTypes
    <3>2. \A q \in Polls : polls'[q].at \in {"over", "ending"}
      BY <2>1, <2>2, <3>1 DEF Ending, NoPoll
    <3>3. ~Quiet'
      BY <1>1, <2>3 DEF Quiet, IsPolling
    <3> QED BY <3>2, <3>3 DEF PollsWake, Sized, ReadUp, Drains, Rested
  <2>4. CASE IsPolling
    <3>1. polls'[p] = [NoPoll EXCEPT !.at = IF position = Latest THEN "locating" ELSE "reading",
                                     !.size = BatchSizeWithin, !.place = position, !.next = position]
      BY <1>2, <1>4, <2>4 DEF Begins, Reaches, PollTypes
    <3>2. polls'[p].at \in {"locating", "reading"} /\ polls'[p].size = BatchSizeWithin
      BY <3>1 DEF NoPoll
    <3>3. PollsWake'
      BY <1>2, <2>1, <2>2, <3>2, BatchesAreOfSome DEF PollsWake, Sized, ReadUp, Drains
    <3>4. ~Resting'
      BY <3>2 DEF Resting
    <3> QED BY <3>3, <3>4 DEF Rested
  <2> QED BY <2>3, <2>4
<1> QED BY <1>3, <1>4 DEF TakesTurn

(* A wake-up noted during the turn is a poll to come when it is over.        *)
LEMMA TurnOverWakes == ASSUME WakeInv, NEW p \in Polls, TurnOver(p) PROVE PollsWake' /\ Rested'
<1>1. /\ UNCHANGED <<written, fate, position, mapping, halted, turns>>
      /\ scheduled' = (scheduled \/ asked) /\ asked' = FALSE /\ polls[p].at = "ending"
    BY DEF TurnOver, streamVars, mappingVars, progressVars
<1>2. PollTypes /\ OneTurnAtATime
    BY TypesTogether DEF WakeInv, DeliveryInv, StreamInv
<1>3. polls' = [polls EXCEPT ![p] = NoPoll]
    BY DEF TurnOver, Reaches
<1>4. \A q \in Polls : polls[q].at \in {"over", "ending"} /\ polls'[q].at = "over"
    BY <1>1, <1>2, <1>3, OthersAreOver DEF UnderWay, PollTypes, NoPoll
<1>5. PollsWake'
    BY <1>4 DEF PollsWake, Sized, ReadUp, Drains
<1>6. Quiet' => Quiet
    BY <1>1 DEF Quiet, IsPolling, Woken
<1>7. Rested'
    BY <1>1, <1>4, <1>6 DEF WakeInv, Rested, Resting, Unread, Unfinished, Records
<1> QED BY <1>5, <1>7

-----------------------------------------------------------------------------
(* A poll that goes on.                                                      *)

LEMMA PollStaysAwake ==
    ASSUME WakeInv, NEW p \in Polls, UnderWay(p), NEW there \in APoll, Reaches(p, there),
           there.at \notin {"over", "ending"}, Sized(polls[p])', ReadUp(polls[p])', Drains(polls[p])'
    PROVE  PollsWake' /\ Rested'
<1>1. PollTypes /\ OneTurnAtATime
    BY TypesTogether DEF WakeInv, DeliveryInv, StreamInv
<1>2. polls'[p] = there /\ \A q \in Polls : q # p => polls'[q] = polls[q]
    BY <1>1, Reached
<1>3. \A q \in Polls : q # p => polls'[q].at = "over"
    BY <1>1, <1>2, OthersAreOver
<1>4. PollsWake'
    BY <1>2, <1>3 DEF PollsWake, Sized, ReadUp, Drains
<1>5. ~Resting'
    BY <1>2 DEF Resting
<1> QED BY <1>4, <1>5 DEF Rested

LEMMA ThePollReaches ==
    ASSUME WakeInv, NEW p \in Polls, NEW there \in APoll, Reaches(p, there) PROVE polls'[p] = there
BY Reached, TypesTogether DEF WakeInv, DeliveryInv, StreamInv

LEMMA APollInHand ==
    ASSUME WakeInv, NEW p \in Polls
    PROVE  /\ polls[p] \in APoll /\ Knows(polls[p])
           /\ Sized(polls[p]) /\ ReadUp(polls[p]) /\ Drains(polls[p])
           /\ Len(written) \in Nat
BY TypesTogether DEF WakeInv, DeliveryInv, StreamInv, PollTypes, PollsKnow, PollsWake, StreamTypes

LEMMA LocatesWakes == ASSUME WakeInv, NEW p \in Polls, Locates(p) PROVE PollsWake' /\ Rested'
<1> DEFINE there == [polls[p] EXCEPT !.at = "reading", !.place = Len(written)]
<1>1. polls[p].at = "locating" /\ Reaches(p, there)
    BY DEF Locates
<1>2. polls[p] \in APoll /\ Sized(polls[p]) /\ Len(written) \in Nat
    BY APollInHand
<1>3. there \in APoll /\ there.at = "reading" /\ there.size = polls[p].size
    BY <1>2 DEF APoll, Stages
<1> HIDE DEF there
<1>4. polls'[p] = there
    BY <1>1, <1>3, ThePollReaches
<1>5. Sized(polls[p])' /\ ReadUp(polls[p])' /\ Drains(polls[p])'
    BY <1>1, <1>2, <1>3, <1>4 DEF Sized, ReadUp, Drains
<1> QED BY <1>1, <1>3, <1>5, PollStaysAwake DEF UnderWay

(* A read returns nothing at the end of the stream only.                     *)
LEMMA GetsRecordsWakes == ASSUME WakeInv, NEW p \in Polls, GetsRecords(p) PROVE PollsWake' /\ Rested'
<1> DEFINE upTo == IF polls[p].place + polls[p].size < Len(written)
                   THEN polls[p].place + polls[p].size ELSE Len(written)
           drained == closed /\ upTo = Len(written)
           there == [polls[p] EXCEPT !.at = "read", !.size = 0, !.last = upTo, !.drained = drained,
                                     !.next = IF drained THEN @ ELSE upTo]
<1>1. polls[p].at = "reading" /\ Reaches(p, there) /\ UNCHANGED <<written, fate>>
    BY DEF GetsRecords, streamVars
<1>2. /\ polls[p] \in APoll /\ Sized(polls[p]) /\ Len(written) \in Nat
      /\ Knows(polls[p])
    BY APollInHand
<1>3. /\ polls[p].place \in 0 .. Len(written) /\ polls[p].size \in Nat \ {0}
      /\ polls[p].next = position /\ position \in {Latest, polls[p].place}
      /\ closed \in BOOLEAN /\ polls[p].next \in Nat \cup {Latest}
    BY <1>1, <1>2, TypesTogether DEF Sized, Knows, APoll, WakeInv, DeliveryInv, StreamInv, StreamTypes
<1>4. upTo \in Nat /\ (upTo = polls[p].place => upTo = Len(written))
    BY <1>2, <1>3
<1>5. drained \in BOOLEAN /\ (drained => upTo = Len(written))
    BY <1>3
<1> HIDE DEF upTo, drained
<1>6. /\ there \in APoll /\ there.at = "read" /\ there.last = upTo /\ there.drained = drained
      /\ there.place = polls[p].place /\ (drained => there.next = position)
    BY <1>2, <1>3, <1>4, <1>5 DEF APoll, Stages
<1> HIDE DEF there
<1>7. polls'[p] = there
    BY <1>1, <1>6, ThePollReaches
<1>8. Sized(polls[p])' /\ ReadUp(polls[p])'
    BY <1>1, <1>4, <1>6, <1>7 DEF Sized, ReadUp
<1>9. Drains(polls[p])'
    BY <1>1, <1>3, <1>5, <1>6, <1>7 DEF Drains, Latest
<1> QED BY <1>1, <1>6, <1>8, <1>9, PollStaysAwake DEF UnderWay

LEMMA InvokesWakes == ASSUME WakeInv, NEW p \in Polls, Invokes(p) PROVE PollsWake' /\ Rested'
<1> DEFINE there == [polls[p] EXCEPT !.at = "handling"]
<1>1. polls[p].at = "calling" /\ Reaches(p, there) /\ UNCHANGED <<written, fate>>
    BY DEF Invokes, streamVars
<1>2. polls[p] \in APoll /\ Drains(polls[p])
    BY APollInHand
<1>3. /\ there \in APoll /\ there.at = "handling" /\ there.drained = polls[p].drained
      /\ there.last = polls[p].last /\ there.next = polls[p].next /\ there.place = polls[p].place
    BY <1>2 DEF APoll, Stages
<1> HIDE DEF there
<1>4. polls'[p] = there
    BY <1>1, <1>3, ThePollReaches
<1>5. Sized(polls[p])' /\ ReadUp(polls[p])' /\ Drains(polls[p])'
    BY <1>1, <1>2, <1>3, <1>4 DEF Sized, ReadUp, Drains
<1> QED BY <1>1, <1>3, <1>5, PollStaysAwake DEF UnderWay

-----------------------------------------------------------------------------
(* A poll that comes to its end.                                             *)

(* It leaves nothing unread, or something that wakes the mapping again.      *)
LEMMA PollRests ==
    ASSUME WakeInv, NEW p \in Polls, UnderWay(p), Reaches(p, Ending), Quiet' => Unread' = {}
    PROVE  PollsWake' /\ Rested'
<1>1. PollTypes /\ OneTurnAtATime
    BY TypesTogether DEF WakeInv, DeliveryInv, StreamInv
<1>2. Ending \in APoll /\ Ending.at = "ending"
    BY DEF Ending, NoPoll, APoll, Stages, Latest
<1>3. polls'[p] = Ending /\ \A q \in Polls : q # p => polls'[q] = polls[q]
    BY <1>1, <1>2, Reached
<1>4. \A q \in Polls : polls'[q].at \in {"over", "ending"}
    BY <1>1, <1>2, <1>3, OthersAreOver
<1> QED BY <1>4 DEF PollsWake, Sized, ReadUp, Drains, Rested

LEMMA CatchesUpWakes == ASSUME WakeInv, NEW p \in Polls, CatchesUp(p) PROVE PollsWake' /\ Rested'
<1>1. /\ polls[p].at = "read" /\ Batch(p) = {} /\ position' = polls[p].next /\ Reaches(p, Ending)
      /\ UNCHANGED <<written, mapping, halted, scheduled, asked, turns>>
    BY DEF CatchesUp, streamVars, mappingVars, turnVars
<1>2. /\ Knows(polls[p]) /\ ReadUp(polls[p]) /\ Len(written) \in Nat
    BY APollInHand
<1>3. /\ polls[p].place \in Nat /\ polls[p].last \in Nat /\ polls[p].place <= polls[p].last
      /\ position \in {Latest, polls[p].place}
      /\ ~polls[p].drained => polls[p].next = polls[p].last
      /\ polls[p].drained => polls[p].next = position
    BY <1>1, <1>2, ABatch DEF WakeInv, DeliveryInv, Knows
<1>4. polls[p].place = polls[p].last
    BY <1>1, <1>3 DEF Batch
<1>5. Quiet' => Quiet
    BY <1>1 DEF Quiet, IsPolling, Woken
<1>6. Quiet' => position' \in {Latest, Len(written)}
    BY <1>1, <1>2, <1>3, <1>4, <1>5 DEF ReadUp
<1>7. Quiet' => Unread' = {}
    BY <1>1, <1>2, <1>6 DEF Unread, Unfinished, Records
<1> QED BY <1>1, <1>7, PollRests DEF UnderWay

(* Whatever is done with a batch that ends an ended shard leaves no record   *)
(* unread; behind any other the mapping reads on at once.                    *)
LEMMA HandledRests ==
    ASSUME WakeInv, NEW p \in Polls, polls[p].at \in {"read", "calling", "handling"},
           Handled(p), Reaches(p, Ending), UNCHANGED written,
           \A r \in 1 .. Len(written) : fate[r] # "waiting" => fate'[r] # "waiting",
           \A r \in Batch(p) : fate'[r] # "waiting"
    PROVE  PollsWake' /\ Rested'
<1>1. scheduled' = (scheduled \/ ~polls[p].drained) /\ position' = polls[p].next
    BY DEF Handled
<1>2. CASE ~polls[p].drained
  <2>1. ~Quiet'
    BY <1>1, <1>2 DEF Quiet, Woken
  <2> QED BY <2>1, PollRests DEF UnderWay
<1>3. CASE polls[p].drained
  <2>1. /\ polls[p].place \in Nat /\ polls[p].last \in Nat /\ polls[p].place <= polls[p].last
        /\ Len(written) \in Nat /\ polls[p].next \in Nat \cup {Latest}
    BY ABatch DEF WakeInv, DeliveryInv
  <2>2. /\ polls[p].last = Len(written)
        /\ polls[p].next # Latest => \A r \in polls[p].next + 1 .. polls[p].place : fate[r] # "waiting"
    BY <1>3, APollInHand DEF Drains
  <2>3. ASSUME NEW r \in 1 .. Len(written), polls[p].next # Latest, r > polls[p].next
        PROVE  fate'[r] # "waiting"
    <3>1. CASE r <= polls[p].place
      <4>1. r \in polls[p].next + 1 .. polls[p].place
        BY <2>1, <2>3, <3>1
      <4> QED BY <2>2, <2>3, <4>1
    <3>2. CASE ~(r <= polls[p].place)
      <4>1. r \in Batch(p)
        BY <2>1, <2>2, <3>2 DEF Batch
      <4> QED BY <4>1
    <3> QED BY <3>1, <3>2
  <2>4. Unread' = {}
    BY <1>1, <2>3 DEF Unread, Unfinished, Records
  <2> QED BY <2>4, PollRests DEF UnderWay
<1> QED BY <1>2, <1>3

LEMMA WrittenIsBounded ==
    ASSUME WakeInv PROVE FateTypes /\ Len(written) \in Nat /\ 1 .. Len(written) \subseteq 1 .. MaxRecords
<1>1. FateTypes /\ Len(written) \in Nat /\ Len(written) <= MaxRecords
    BY TypesTogether DEF WakeInv, DeliveryInv, StreamInv, StreamTypes
<1> QED BY <1>1, Bounds

LEMMA FatesStand ==
    ASSUME WakeInv, NEW ones, NEW how \in {"handled", "exhausted", "aged"}, fate' = Fated(ones, how)
    PROVE  \A r \in 1 .. Len(written) : /\ fate[r] # "waiting" => fate'[r] # "waiting"
                                        /\ r \in ones => fate'[r] # "waiting"
<1>1. FateTypes /\ 1 .. Len(written) \subseteq 1 .. MaxRecords
    BY WrittenIsBounded
<1>2. \A r \in 1 .. MaxRecords : fate'[r] = IF r \in ones /\ fate[r] = "waiting" THEN how ELSE fate[r]
    BY <1>1 DEF FateTypes, Fated
<1> QED BY <1>1, <1>2

LEMMA ChecksAgeWakes == ASSUME WakeInv, NEW p \in Polls, ChecksAge(p) PROVE PollsWake' /\ Rested'
<1>1. PICK upTo \in polls[p].place .. polls[p].last :
         Expires(p, upTo) /\ fate' = Fated(polls[p].place + 1 .. upTo, "aged")
    BY DEF ChecksAge
<1>2. polls[p].at = "read" /\ UNCHANGED written
    BY DEF ChecksAge, streamVars
<1>3. \A r \in 1 .. Len(written) : /\ fate[r] # "waiting" => fate'[r] # "waiting"
                                   /\ r \in polls[p].place + 1 .. upTo => fate'[r] # "waiting"
    BY <1>1, FatesStand
<1>4. /\ polls[p].place \in Nat /\ polls[p].last \in Nat /\ polls[p].last <= Len(written)
      /\ Len(written) \in Nat /\ polls[p].next \in Nat \cup {Latest}
    BY <1>2, ABatch DEF WakeInv, DeliveryInv
<1>5. CASE upTo = polls[p].last /\ Handled(p) /\ Reaches(p, Ending)
  <2>1. \A r \in Batch(p) : fate'[r] # "waiting"
    BY <1>3, <1>4, <1>5 DEF Batch
  <2> QED BY <1>2, <1>3, <1>5, <2>1, HandledRests
<1>6. CASE /\ upTo < polls[p].last
           /\ Reaches(p, [polls[p] EXCEPT !.at = "calling", !.place = upTo])
  <2> DEFINE there == [polls[p] EXCEPT !.at = "calling", !.place = upTo]
  <2>1. polls[p] \in APoll /\ Drains(polls[p])
    BY APollInHand
  <2>2. /\ there \in APoll /\ there.at = "calling" /\ there.drained = polls[p].drained
        /\ there.last = polls[p].last /\ there.next = polls[p].next /\ there.place = upTo
    <3>1. upTo \in Nat
      BY <1>4
    <3> QED BY <2>1, <3>1 DEF APoll, Stages
  <2> HIDE DEF there
  <2>3. Reaches(p, there)
    BY <1>6 DEF there
  <2>4. polls'[p] = there
    BY <2>2, <2>3, ThePollReaches
  <2>5. ASSUME polls[p].drained
        PROVE  /\ polls[p].last = Len(written')
               /\ polls[p].next # Latest => \A r \in polls[p].next + 1 .. upTo : fate'[r] # "waiting"
    <3>1. /\ polls[p].last = Len(written)
          /\ polls[p].next # Latest => \A r \in polls[p].next + 1 .. polls[p].place : fate[r] # "waiting"
      BY <1>2, <2>1, <2>5 DEF Drains
    <3>2. ASSUME polls[p].next # Latest, NEW r \in polls[p].next + 1 .. upTo PROVE fate'[r] # "waiting"
      <4>1. r \in 1 .. Len(written)
        BY <1>4, <1>6, <3>2
      <4>2. r \in polls[p].next + 1 .. polls[p].place \/ r \in polls[p].place + 1 .. upTo
        BY <1>4, <3>2
      <4> QED BY <1>3, <3>1, <3>2, <4>1, <4>2
    <3> QED BY <1>2, <3>1, <3>2
  <2>6. Sized(polls[p])' /\ ReadUp(polls[p])'
    BY <2>2, <2>4 DEF Sized, ReadUp
  <2>7. Drains(polls[p])'
    BY <2>2, <2>4, <2>5 DEF Drains
  <2> QED BY <1>2, <2>2, <2>3, <2>6, <2>7, PollStaysAwake DEF UnderWay
<1> QED BY <1>1, <1>5, <1>6 DEF Expires

LEMMA RefusedWakes == ASSUME WakeInv, NEW p \in Polls, Refused(p) PROVE PollsWake' /\ Rested'
<1>1. polls[p].at = "handling" /\ Reaches(p, Ending) /\ ~Quiet'
    BY DEF Refused, Returns, Quiet, IsPolling
<1> QED BY <1>1, PollRests DEF UnderWay

LEMMA TakesWakes == ASSUME WakeInv, NEW p \in Polls, Takes(p) PROVE PollsWake' /\ Rested'
<1>1. /\ polls[p].at = "handling" /\ Reaches(p, Ending) /\ Handled(p) /\ UNCHANGED written
      /\ fate' = Fated(Batch(p), "handled")
    BY DEF Takes, Returns, streamVars
<1>2. \A r \in 1 .. Len(written) : /\ fate[r] # "waiting" => fate'[r] # "waiting"
                                   /\ r \in Batch(p) => fate'[r] # "waiting"
    BY <1>1, FatesStand
<1>3. Batch(p) \subseteq 1 .. Len(written)
    BY <1>1, ABatch DEF WakeInv, DeliveryInv, Batch
<1> QED BY <1>1, <1>2, <1>3, HandledRests

(* A retry is a poll to come on the clock.                                   *)
LEMMA RetriesWake ==
    ASSUME WakeInv, NEW p \in Polls, NEW tries \in Int, RetriesLater(tries), now \in Nat PROVE ~Quiet'
<1> DEFINE when == IF now + Wait(tries) \in Instants THEN now + Wait(tries) ELSE MaxTime
<1>1. turns' = [turns EXCEPT ![when] = @ + 1]
    BY DEF RetriesLater, ScheduledAt
<1>2. turns \in [Instants -> Nat]
    BY TypesTogether DEF WakeInv, DeliveryInv, StreamInv, TurnTypes
<1>3. when \in Instants
    BY Bounds DEF Instants
<1> HIDE DEF when
<1>4. turns'[when] > 0
    BY <1>1, <1>2, <1>3
<1> QED BY <1>3, <1>4 DEF Quiet, Woken

LEMMA FailsWakes ==
    ASSUME WakeInv, NEW p \in Polls, NEW failed \in Batch(p), NEW threw \in BOOLEAN, Fails(p, failed, threw)
    PROVE  PollsWake' /\ Rested'
<1>1. polls[p].at = "handling" /\ Reaches(p, Ending) /\ UNCHANGED written
    BY DEF Fails, Returns, streamVars
<1>2. CASE GivesUp(p, failed)
  <2>1. Handled(p)
    BY <1>2 DEF GivesUp
  <2>2. \A r \in 1 .. Len(written) : /\ fate[r] # "waiting" => fate'[r] # "waiting"
                                     /\ r \in Batch(p) => fate'[r] # "waiting"
    BY <1>2, WrittenIsBounded DEF GivesUp, Fated, FateTypes
  <2>3. Batch(p) \subseteq 1 .. Len(written)
    BY <1>1, ABatch DEF WakeInv, DeliveryInv, Batch
  <2> QED BY <1>1, <2>1, <2>2, <2>3, HandledRests
<1>3. ASSUME NEW tries \in Int, TriesAgain(p, failed, threw, tries) PROVE PollsWake' /\ Rested'
  <2>1. now \in Nat
    BY TypesTogether, Bounds DEF WakeInv, DeliveryInv, StreamInv, StreamTypes
  <2>2. ~Quiet'
    BY <1>3, <2>1, RetriesWake DEF TriesAgain
  <2> QED BY <1>1, <2>2, PollRests DEF UnderWay
<1>4. attempts \in Int
    BY TypesTogether DEF WakeInv, DeliveryInv, StreamInv, AttemptTypes
<1> QED BY <1>2, <1>3, <1>4 DEF Fails

-----------------------------------------------------------------------------

LEMMA StepWakes == ASSUME WakeInv, [Next]_vars PROVE WakeInv'
<1>1. DeliveryInv' /\ Watched'
    BY StepKeeps, StepDelivers, WatchedKeeps, TypesTogether DEF WakeInv, DeliveryInv, StreamInv
<1>2. ASSUME Next PROVE PollsWake' /\ Rested'
  <2>1. ASSUME NEW p \in Polls, DeferredTurn(p) \/ ClockTurn(p) PROVE PollsWake' /\ Rested'
    BY <2>1, TakesTurnWakes DEF DeferredTurn, ClockTurn
  <2>2. ASSUME NEW p \in Polls, Poll(p) PROVE PollsWake' /\ Rested'
    BY <2>2, TurnOverWakes, LocatesWakes, GetsRecordsWakes, CatchesUpWakes, ChecksAgeWakes, InvokesWakes,
       RefusedWakes, TakesWakes, FailsWakes DEF Poll
  <2>3. ASSUME HostRuns PROVE PollsWake' /\ Rested'
    BY <2>1, <2>2, <2>3, MappingWakes DEF HostRuns
  <2>4. ASSUME Write \/ Feeds PROVE PollsWake' /\ Rested'
    BY <2>4, CapturesWakes DEF Write, Feeds
  <2> QED BY <1>2, <2>3, <2>4, MappingWakes DEF Next
<1>3. ASSUME UNCHANGED vars PROVE PollsWake' /\ Rested'
    BY <1>3, MappingWakes
<1> QED BY <1>1, <1>2, <1>3 DEF WakeInv

(* While a mapping polls and has a record to read, a poll is under way,      *)
(* deferred to the host or on the clock: a wake-up is never lost, whatever   *)
(* the polls, the retries and the end of the shard do.                       *)
THEOREM NeverAsleepHolds == Spec => []NeverAsleepOverRecords
<1>1. Init => WakeInv
    BY WakesInitially, StreamInitial, DeliveryInitial DEF WakeInv, DeliveryInv
<1>2. WakeInv /\ [Next]_vars => WakeInv'
    BY StepWakes
<1>3. WakeInv => NeverAsleepOverRecords
  <2> SUFFICES ASSUME WakeInv, IsPolling, Unread # {}, ~Awake PROVE FALSE
    BY DEF NeverAsleepOverRecords
  <2>1. \A p \in Polls : polls[p].at = "over"
    BY DEF Awake, UnderWay
  <2>2. ~running
    BY <2>1 DEF WakeInv, DeliveryInv, StreamInv, OneTurnAtATime, UnderWay
  <2>3. ~asked
    BY <2>2, TypesTogether DEF WakeInv, DeliveryInv, StreamInv, TurnTypes
  <2>4. Quiet /\ Resting
    BY <2>1, <2>3 DEF Awake, Quiet, Woken, Resting
  <2> QED BY <2>4 DEF WakeInv, Rested
<1> QED BY <1>1, <1>2, <1>3, PTL DEF Spec

=============================================================================
