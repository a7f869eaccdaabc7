--------------------- MODULE SimLambdaStreamPollerProofs --------------------
(* Theorems about one stream mapping, for every setting and every bound: its *)
(* batches go one at a time, it passes no record it is not done with, and    *)
(* what it hands over is what InOrderDelivery promises.                      *)
EXTENDS SimLambdaStreamPoller, TLAPS

(* The parts of the type invariant.                                          *)
StreamTypes ==
    /\ now \in 0 .. MaxTime
    /\ written \in Seq(0 .. MaxTime) /\ Len(written) <= MaxRecords
    /\ closed \in BOOLEAN

MappingTypes ==
    /\ mapping \in {"none", "creating", "enabled", "disabled"}
    /\ settings \in Settings
    /\ watching \in BOOLEAN /\ halted \in BOOLEAN

TurnTypes ==
    /\ running \in BOOLEAN /\ asked \in BOOLEAN /\ scheduled \in BOOLEAN
    /\ asked => running
    /\ turns \in [Instants -> Nat]

APoll == [at : Stages, size : Nat, place : Nat \cup {Latest}, last : Nat,
          next : Nat \cup {Latest}, drained : BOOLEAN]

PollTypes == polls \in [Polls -> APoll]

PositionType == position \in {Latest} \cup 0 .. Len(written)

AttemptTypes == attempts \in Nat /\ (AttemptLimit # Unlimited => attempts <= AttemptLimit)

SplitTypes ==
    /\ split \in [half : Nat, left : Nat] /\ (split.half = 0 <=> split.left = 0)
    /\ splitTo \in 0 .. Len(written)

GuardTypes == fed \in BOOLEAN /\ chained \in 0 .. CascadeLimit

FateTypes == fate \in [1 .. MaxRecords -> {"waiting", "handled", "exhausted", "aged"}]

LEMMA TypesTogether ==
    StreamTypeOK <=>
      /\ StreamTypes /\ MappingTypes /\ TurnTypes /\ PollTypes /\ PositionType
      /\ AttemptTypes /\ SplitTypes /\ GuardTypes /\ FateTypes
BY DEF StreamTypeOK, StreamTypes, MappingTypes, TurnTypes, PollTypes, APoll, PositionType,
       AttemptTypes, SplitTypes, GuardTypes, FateTypes

LEMMA TypesStayTogether ==
    ASSUME StreamTypes', MappingTypes', TurnTypes', PollTypes', PositionType',
           AttemptTypes', SplitTypes', GuardTypes', FateTypes'
    PROVE  StreamTypeOK'
BY DEF StreamTypeOK, StreamTypes, MappingTypes, TurnTypes, PollTypes, APoll, PositionType,
       AttemptTypes, SplitTypes, GuardTypes, FateTypes

-----------------------------------------------------------------------------

Busy == {"locating", "reading", "read", "calling", "handling"}

(* What a poll knows of the place it reads from, at each of its stages.      *)
Knows(poll) ==
    /\ poll.at \in Busy => mapping = "enabled" /\ (poll.next = Latest => settings.latest)
    /\ poll.at = "locating" => position = Latest /\ poll.next = Latest
    /\ poll.at = "reading" =>
         /\ poll.place \in 0 .. Len(written)
         /\ position \in {Latest, poll.place}
         /\ poll.next = position
    /\ poll.at \in {"read", "calling", "handling"} =>
         /\ 0 <= poll.place /\ poll.place <= poll.last /\ poll.last <= Len(written)
         /\ position \in {Latest, poll.place}
         /\ ~poll.drained => poll.next = poll.last
         /\ poll.drained => closed /\ poll.next <= position
    /\ poll.at = "read" /\ poll.drained => poll.next = position
    /\ poll.at \in {"calling", "handling"} => poll.place < poll.last

PollsKnow == \A p \in Polls : Knows(polls[p])

(* A mapping settles on a place once: at its creation, or with its first     *)
(* read where it starts at LATEST.                                           *)
SettlesOnce ==
    /\ mapping = "none" => position = Latest
    /\ position = Latest /\ mapping # "none" => settings.latest

(* The guard that refused a delivery has stopped the mapping.                *)
GuardStops ==
    chained = CascadeLimit => halted /\ \A p \in Polls : polls[p].at \notin Busy

OneTurnAtATime ==
    /\ running <=> \E p \in Polls : UnderWay(p)
    /\ \A p, q \in Polls : UnderWay(p) /\ UnderWay(q) => p = q

StreamInv ==
    /\ StreamTypeOK /\ OneTurnAtATime /\ PollsKnow /\ SettlesOnce /\ GuardStops

-----------------------------------------------------------------------------

LEMMA Bounds ==
    /\ MaxTime \in Nat /\ MaxRecords \in Nat /\ CascadeLimit \in Nat /\ CascadeLimit > 0
    /\ LongestWait \in Nat /\ DefaultAttemptLimit \in Nat
BY StreamAssumption DEF StreamAssumption

LEMMA AttemptLimits == ASSUME settings \in Settings PROVE AttemptLimit \in Nat \cup {Unlimited}
<1>1. settings.retries \in Nat \cup {Unlimited}
    BY StreamAssumption DEF StreamAssumption
<1> QED BY <1>1, StreamAssumption DEF StreamAssumption, AttemptLimit, Unlimited

LEMMA BatchSizes == ASSUME settings \in Settings, SplitTypes PROVE BatchSizeWithin \in Nat
<1>1. settings.batchSize \in Nat
    BY StreamAssumption DEF StreamAssumption
<1> QED BY <1>1 DEF BatchSizeWithin, SplitTypes

LEMMA StreamInitial == Init => StreamInv /\ PassesOnlyTheFinished
<1> SUFFICES ASSUME Init PROVE StreamInv /\ PassesOnlyTheFinished
    OBVIOUS
<1>1. StreamTypeOK
  <2>7. now = 0 /\ written \in Seq(0 .. MaxTime) /\ Len(written) = 0
    BY DEF Init
  <2>8. closed \in BOOLEAN
    BY DEF Init
  <2>1. StreamTypes
    BY <2>7, <2>8, Bounds DEF StreamTypes
  <2>5. MappingTypes /\ FateTypes
    BY DEF Init, MappingTypes, FateTypes
  <2>6. TurnTypes /\ GuardTypes
    BY Bounds DEF Init, TurnTypes, GuardTypes, Instants
  <2>2. PollTypes /\ PositionType
    BY DEF Init, PollTypes, APoll, PositionType, NoPoll, Stages, Latest
  <2>3. AttemptTypes
    BY AttemptLimits DEF Init, AttemptTypes, Unlimited
  <2>4. SplitTypes
    BY DEF Init, SplitTypes, WholeBatches
  <2> QED BY <2>1, <2>2, <2>3, <2>4, <2>5, <2>6, TypesTogether
<1>2. OneTurnAtATime /\ PollsKnow /\ SettlesOnce /\ GuardStops
    BY Bounds DEF Init, OneTurnAtATime, UnderWay, PollsKnow, Knows, SettlesOnce, GuardStops,
                            NoPoll, Busy, Latest
<1>3. PassesOnlyTheFinished
    BY DEF Init, PassesOnlyTheFinished, Unfinished, Records, Latest
<1> QED BY <1>1, <1>2, <1>3 DEF StreamInv

-----------------------------------------------------------------------------
(* What holds of the parts of a state that a step leaves alone.              *)

LEMMA StreamStands == ASSUME StreamTypes, UNCHANGED <<now, streamVars>> PROVE StreamTypes'
BY DEF StreamTypes, streamVars

LEMMA MappingStands == ASSUME MappingTypes, UNCHANGED mappingVars PROVE MappingTypes'
BY DEF MappingTypes, mappingVars

LEMMA TurnsStand == ASSUME TurnTypes, UNCHANGED turnVars PROVE TurnTypes'
BY DEF TurnTypes, turnVars

LEMMA ProgressStands ==
    ASSUME PositionType, AttemptTypes, SplitTypes, Len(written) <= Len(written'), StreamTypes, StreamTypes',
           UNCHANGED <<progressVars, settings>>
    PROVE  PositionType' /\ AttemptTypes' /\ SplitTypes'
<1> Len(written) \in Nat /\ Len(written') \in Nat
    BY DEF StreamTypes
<1>1. PositionType'
    BY DEF PositionType, progressVars
<1>2. AttemptTypes'
    BY DEF AttemptTypes, AttemptLimit, progressVars
<1>3. SplitTypes'
    BY DEF SplitTypes, progressVars
<1> QED BY <1>1, <1>2, <1>3

LEMMA GuardStands == ASSUME GuardTypes, UNCHANGED guardVars PROVE GuardTypes'
BY DEF GuardTypes, guardVars

(* A poll knows no less when records are written, when the stream is         *)
(* switched off and when nothing of what it knows is touched.                *)
LEMMA PollsStand ==
    ASSUME PollTypes, OneTurnAtATime, PollsKnow, StreamTypes, StreamTypes',
           Len(written) <= Len(written'), closed => closed', mapping = "enabled" => mapping' = "enabled",
           UNCHANGED <<polls, running, position, settings>>
    PROVE  PollTypes' /\ OneTurnAtATime' /\ PollsKnow'
<1> Len(written) \in Nat /\ Len(written') \in Nat
    BY DEF StreamTypes
<1>1. PollTypes' /\ OneTurnAtATime'
    BY DEF PollTypes, OneTurnAtATime, UnderWay
<1>2. ASSUME NEW p \in Polls PROVE Knows(polls[p])'
  <2>1. Knows(polls[p]) /\ polls[p] \in APoll
    BY DEF PollsKnow, PollTypes
  <2> QED BY <2>1 DEF Knows, APoll, Busy, Latest
<1> QED BY <1>1, <1>2 DEF PollsKnow

LEMMA TimePassesKeeps == ASSUME StreamInv, TimePasses PROVE StreamInv'
<1> USE DEF StreamInv
<1>1. StreamTypes'
  <2>1. now' \in 0 .. MaxTime
    BY Bounds, TypesTogether DEF TimePasses, StreamTypes
  <2> QED BY <2>1, TypesTogether DEF TimePasses, StreamTypes, streamVars
<1>2. MappingTypes' /\ TurnTypes' /\ GuardTypes' /\ FateTypes'
    BY MappingStands, TurnsStand, GuardStands, TypesTogether DEF TimePasses, FateTypes
<1>3. PositionType' /\ AttemptTypes' /\ SplitTypes'
    BY <1>1, ProgressStands, TypesTogether DEF TimePasses, mappingVars, streamVars, StreamTypes
<1>4. PollTypes' /\ OneTurnAtATime' /\ PollsKnow'
    BY <1>1, PollsStand, TypesTogether
       DEF TimePasses, mappingVars, streamVars, turnVars, progressVars, StreamTypes
<1>5. SettlesOnce' /\ GuardStops'
    BY DEF TimePasses, SettlesOnce, GuardStops, mappingVars, guardVars, progressVars
<1> QED BY <1>1, <1>2, <1>3, <1>4, <1>5, TypesStayTogether

(* A record more, whoever writes it.                                         *)
LEMMA CapturesKeeps == ASSUME StreamInv, Captures, fed' \in BOOLEAN PROVE StreamInv'
<1> USE DEF StreamInv
<1>1. StreamTypes' /\ Len(written) <= Len(written')
  <2>1. written' \in Seq(0 .. MaxTime) /\ Len(written') = Len(written) + 1
    BY TypesTogether DEF Captures, StreamTypes
  <2>2. Len(written) \in Nat /\ Len(written) < MaxRecords
    BY TypesTogether DEF Captures, StreamTypes
  <2>3. UNCHANGED <<now, closed>>
    BY DEF Captures
  <2> QED BY <2>1, <2>2, <2>3, Bounds, TypesTogether DEF StreamTypes
<1>2. TurnTypes'
  <2>1. UNCHANGED <<running, asked, turns>> /\ scheduled' \in BOOLEAN
    BY TypesTogether DEF Captures, TurnTypes, MappingTypes
  <2> QED BY <2>1, TypesTogether DEF TurnTypes
<1>3. MappingTypes' /\ GuardTypes' /\ FateTypes'
    BY MappingStands, TypesTogether DEF Captures, FateTypes, GuardTypes
<1>4. PositionType' /\ AttemptTypes' /\ SplitTypes'
    BY <1>1, ProgressStands, TypesTogether DEF Captures, mappingVars
<1>5. PollTypes' /\ OneTurnAtATime' /\ PollsKnow'
    BY <1>1, PollsStand, TypesTogether DEF Captures, mappingVars, progressVars
<1>6. SettlesOnce' /\ GuardStops'
    BY DEF Captures, SettlesOnce, GuardStops, mappingVars, progressVars
<1> QED BY <1>1, <1>2, <1>3, <1>4, <1>5, <1>6, TypesStayTogether

LEMMA WriteKeeps == ASSUME StreamInv, Write \/ Feeds PROVE StreamInv'
<1> fed' \in BOOLEAN
    BY TypesTogether DEF Write, Feeds, StreamInv, GuardTypes
<1> QED BY CapturesKeeps DEF Write, Feeds

LEMMA DisableKeeps == ASSUME StreamInv, Disable PROVE StreamInv'
<1> USE DEF StreamInv
<1>1. StreamTypes' /\ closed' /\ UNCHANGED written
    BY TypesTogether DEF Disable, StreamTypes
<1>2. MappingTypes' /\ TurnTypes' /\ GuardTypes' /\ FateTypes'
    BY MappingStands, TurnsStand, GuardStands, TypesTogether DEF Disable, FateTypes
<1>3. PositionType' /\ AttemptTypes' /\ SplitTypes'
    BY <1>1, ProgressStands, TypesTogether DEF Disable, mappingVars, StreamTypes
<1>4. PollTypes' /\ OneTurnAtATime' /\ PollsKnow'
    BY <1>1, PollsStand, TypesTogether DEF Disable, mappingVars, turnVars, progressVars, StreamTypes
<1>5. SettlesOnce' /\ GuardStops'
    BY DEF Disable, SettlesOnce, GuardStops, mappingVars, guardVars, progressVars
<1> QED BY <1>1, <1>2, <1>3, <1>4, <1>5, TypesStayTogether

LEMMA ActivateKeeps == ASSUME StreamInv, Activate PROVE StreamInv'
<1> USE DEF StreamInv
<1>1. StreamTypes' /\ UNCHANGED <<written, closed>>
    BY StreamStands, TypesTogether DEF Activate, streamVars
<1>2. MappingTypes' /\ GuardTypes' /\ FateTypes'
    BY GuardStands, TypesTogether DEF Activate, FateTypes, MappingTypes
<1>3. TurnTypes'
  <2>1. scheduled' \in BOOLEAN /\ UNCHANGED <<running, asked, turns>>
    BY DEF Activate, PollsNow
  <2> QED BY <2>1, TypesTogether DEF TurnTypes
<1>4. PositionType' /\ AttemptTypes' /\ SplitTypes'
    BY <1>1, ProgressStands, TypesTogether DEF Activate, StreamTypes
<1>5. PollTypes' /\ OneTurnAtATime' /\ PollsKnow'
    BY <1>1, PollsStand, TypesTogether DEF Activate, progressVars, StreamTypes
<1>6. SettlesOnce' /\ GuardStops'
    BY DEF Activate, SettlesOnce, GuardStops, guardVars, progressVars
<1> QED BY <1>1, <1>2, <1>3, <1>4, <1>5, <1>6, TypesStayTogether

LEMMA DeleteKeeps == ASSUME StreamInv, Delete PROVE StreamInv'
<1> USE DEF StreamInv
<1>1. StreamTypes' /\ UNCHANGED <<written, closed>>
    BY StreamStands, TypesTogether DEF Delete, streamVars
<1>2. MappingTypes' /\ TurnTypes' /\ GuardTypes' /\ FateTypes'
    BY TurnsStand, GuardStands, TypesTogether DEF Delete, FateTypes, MappingTypes
<1>3. PositionType' /\ AttemptTypes' /\ SplitTypes'
    BY <1>1, ProgressStands, TypesTogether DEF Delete, StreamTypes
<1>4. PollTypes' /\ OneTurnAtATime' /\ PollsKnow'
    BY <1>1, PollsStand, TypesTogether DEF Delete, turnVars, progressVars, StreamTypes
<1>5. SettlesOnce' /\ GuardStops'
    BY DEF Delete, SettlesOnce, GuardStops, guardVars, progressVars
<1> QED BY <1>1, <1>2, <1>3, <1>4, <1>5, TypesStayTogether

(* A mapping that is created has no poll that knows anything yet.            *)
LEMMA CreateKeeps == ASSUME StreamInv, Create PROVE StreamInv'
<1> USE DEF StreamInv
<1>1. StreamTypes' /\ UNCHANGED <<written, closed>>
    BY StreamStands, TypesTogether DEF Create, streamVars
<1>2. MappingTypes' /\ TurnTypes' /\ GuardTypes' /\ FateTypes'
    BY TurnsStand, GuardStands, TypesTogether DEF Create, FateTypes, MappingTypes
<1>3. PositionType' /\ position' = IF settings.latest THEN Latest ELSE 0
    BY <1>1, TypesTogether DEF Create, PositionType, StreamTypes
<1>4. AttemptTypes' /\ SplitTypes'
    BY <1>1, TypesTogether DEF Create, AttemptTypes, AttemptLimit, SplitTypes
<1>5. PollTypes' /\ OneTurnAtATime'
    BY TypesTogether DEF Create, turnVars, PollTypes, OneTurnAtATime, UnderWay
<1>6. PollsKnow'
  <2>1. \A p \in Polls : polls[p].at \notin Busy
    BY DEF Create, PollsKnow, Knows
  <2> QED BY <2>1 DEF Create, PollsKnow, Knows, Busy
<1>7. SettlesOnce' /\ GuardStops'
    BY <1>3 DEF Create, SettlesOnce, GuardStops, guardVars, Latest
<1> QED BY <1>1, <1>2, <1>3, <1>4, <1>5, <1>6, <1>7, TypesStayTogether

-----------------------------------------------------------------------------
(* Turns.                                                                    *)

LEMMA Reached ==
    ASSUME PollTypes, NEW p \in Polls, NEW there \in APoll, Reaches(p, there)
    PROVE  /\ PollTypes' /\ polls'[p] = there
           /\ \A q \in Polls : q # p => polls'[q] = polls[q]
BY DEF PollTypes, Reaches

LEMMA TakesTurnKeeps ==
    ASSUME StreamInv, NEW p \in Polls, TakesTurn(p), scheduled' \in BOOLEAN, turns' \in [Instants -> Nat]
    PROVE  StreamInv'
<1> USE DEF StreamInv
<1>1. /\ UNCHANGED <<now, streamVars, mappingVars, progressVars, guardVars, fate>>
      /\ UNCHANGED <<written, closed, mapping, settings, halted, position, chained>>
    BY DEF TakesTurn, streamVars, mappingVars, progressVars, guardVars
<1>2. StreamTypes' /\ MappingTypes' /\ GuardTypes' /\ FateTypes' /\ SettlesOnce'
    BY <1>1, StreamStands, MappingStands, GuardStands, TypesTogether DEF FateTypes, SettlesOnce
<1>3. PositionType' /\ AttemptTypes' /\ SplitTypes'
    BY <1>1, <1>2, ProgressStands, TypesTogether DEF StreamTypes
<1>4. CASE running /\ asked' = TRUE /\ UNCHANGED <<running, polls>>
  <2>1. TurnTypes'
    BY <1>4, TypesTogether DEF TurnTypes
  <2>2. PollTypes' /\ OneTurnAtATime' /\ PollsKnow' /\ GuardStops'
    BY <1>1, <1>2, <1>4, PollsStand, TypesTogether DEF StreamTypes, GuardStops
  <2> QED BY <1>2, <1>3, <2>1, <2>2, TypesStayTogether
<1>5. CASE ~running /\ Begins(p)
  <2> DEFINE there == IF ~IsPolling THEN Ending
                      ELSE [NoPoll EXCEPT !.at = IF position = Latest THEN "locating" ELSE "reading",
                                          !.size = BatchSizeWithin, !.place = position, !.next = position]
  <2>1. there \in APoll
    <3>1. BatchSizeWithin \in Nat /\ position \in Nat \cup {Latest}
      BY BatchSizes, TypesTogether DEF MappingTypes, PositionType, StreamTypes
    <3> QED BY <3>1 DEF APoll, Ending, NoPoll, Stages
  <2>2. /\ PollTypes' /\ polls'[p] = there
        /\ \A q \in Polls : q # p => polls'[q] = polls[q]
    <3> HIDE DEF there
    <3>1. Reaches(p, there)
      BY <1>5 DEF Begins, there
    <3> QED BY <2>1, <3>1, Reached, TypesTogether
  <2>3. \A q \in Polls : ~UnderWay(q)
    BY <1>5 DEF OneTurnAtATime
  <2>4. running' /\ asked' = asked
    BY <1>5 DEF Begins
  <2>5. TurnTypes'
    BY <1>5, <2>4, TypesTogether DEF Begins, TurnTypes
  <2>6. OneTurnAtATime'
    <3>1. there.at # "over"
      BY DEF Ending, NoPoll
    <3> QED BY <2>2, <2>3, <2>4, <3>1 DEF OneTurnAtATime, UnderWay
  <2>7. PollsKnow'
    <3>1. Knows(polls[p])'
      BY <1>1, <2>2, TypesTogether
         DEF Knows, Busy, Ending, NoPoll, IsPolling, SettlesOnce, PositionType, StreamTypes, Latest
    <3>2. ASSUME NEW q \in Polls, q # p PROVE Knows(polls[q])'
      BY <2>2, <2>3, <3>2 DEF Knows, Busy, UnderWay
    <3> QED BY <3>1, <3>2 DEF PollsKnow
  <2>8. GuardStops'
    BY <1>1, <2>2 DEF GuardStops, IsPolling, Ending, NoPoll, Busy
  <2> QED BY <1>2, <1>3, <2>2, <2>5, <2>6, <2>7, <2>8, TypesStayTogether
<1> QED BY <1>4, <1>5 DEF TakesTurn

LEMMA DeferredTurnKeeps == ASSUME StreamInv, NEW p \in Polls, DeferredTurn(p) PROVE StreamInv'
<1>1. TakesTurn(p) /\ scheduled' = FALSE /\ turns' = turns
    BY DEF DeferredTurn
<1>2. turns \in [Instants -> Nat]
    BY TypesTogether DEF StreamInv, TurnTypes
<1> QED BY <1>1, <1>2, TakesTurnKeeps

LEMMA ClockTurnKeeps == ASSUME StreamInv, NEW p \in Polls, ClockTurn(p) PROVE StreamInv'
<1>1. PICK i \in 0 .. now : turns[i] > 0 /\ turns' = [turns EXCEPT ![i] = @ - 1]
    BY DEF ClockTurn
<1>2. turns \in [Instants -> Nat] /\ scheduled \in BOOLEAN
    BY TypesTogether DEF StreamInv, TurnTypes
<1>3. i \in Instants
    BY Bounds, TypesTogether DEF StreamInv, StreamTypes, Instants
<1>4. turns' \in [Instants -> Nat]
    BY <1>1, <1>2, <1>3
<1>5. TakesTurn(p) /\ scheduled' = scheduled
    BY DEF ClockTurn
<1> QED BY <1>2, <1>4, <1>5, TakesTurnKeeps

LEMMA TurnOverKeeps == ASSUME StreamInv, NEW p \in Polls, TurnOver(p) PROVE StreamInv'
<1> USE DEF StreamInv
<1>1. /\ UNCHANGED <<now, streamVars, mappingVars, turns, progressVars, guardVars, fate>>
      /\ UNCHANGED <<written, closed, mapping, settings, halted, position, chained>>
    BY DEF TurnOver, streamVars, mappingVars, progressVars, guardVars
<1>2. StreamTypes' /\ MappingTypes' /\ GuardTypes' /\ FateTypes' /\ SettlesOnce'
    BY <1>1, StreamStands, MappingStands, GuardStands, TypesTogether DEF FateTypes, SettlesOnce
<1>3. PositionType' /\ AttemptTypes' /\ SplitTypes'
    BY <1>1, <1>2, ProgressStands, TypesTogether DEF StreamTypes
<1>4. NoPoll \in APoll
    BY DEF NoPoll, APoll, Stages
<1>5. /\ PollTypes' /\ polls'[p] = NoPoll
      /\ \A q \in Polls : q # p => polls'[q] = polls[q]
    BY <1>4, Reached, TypesTogether DEF TurnOver
<1>6. UnderWay(p) /\ \A q \in Polls : q # p => polls[q].at = "over"
    BY DEF TurnOver, OneTurnAtATime, UnderWay
<1>7. \A q \in Polls : polls'[q].at = "over"
    BY <1>5, <1>6 DEF NoPoll
<1>8. running' = FALSE /\ asked' = FALSE /\ scheduled' \in BOOLEAN
    BY TypesTogether DEF TurnOver, TurnTypes
<1>9. TurnTypes'
    BY <1>1, <1>8, TypesTogether DEF TurnTypes
<1>10. OneTurnAtATime' /\ PollsKnow' /\ GuardStops'
    BY <1>1, <1>7, <1>8 DEF OneTurnAtATime, UnderWay, PollsKnow, Knows, Busy, GuardStops
<1> QED BY <1>2, <1>3, <1>5, <1>9, <1>10, TypesStayTogether

-----------------------------------------------------------------------------
(* A poll goes on to its next stage.                                         *)

LEMMA OthersAreOver ==
    ASSUME OneTurnAtATime, NEW p \in Polls, UnderWay(p)
    PROVE  running /\ \A q \in Polls : q # p => polls[q].at = "over"
BY DEF OneTurnAtATime, UnderWay

LEMMA PollGoesOn ==
    ASSUME PollTypes, OneTurnAtATime, NEW p \in Polls, UnderWay(p), NEW there \in APoll,
           Reaches(p, there), there.at # "over", UNCHANGED running, Knows(polls[p])'
    PROVE  PollTypes' /\ OneTurnAtATime' /\ PollsKnow'
<1>1. running /\ \A q \in Polls : q # p => polls[q].at = "over"
    BY OthersAreOver
<1>2. /\ PollTypes' /\ polls'[p] = there
      /\ \A q \in Polls : q # p => polls'[q] = polls[q]
    BY Reached
<1>3. OneTurnAtATime'
    BY <1>1, <1>2 DEF OneTurnAtATime, UnderWay
<1>4. ASSUME NEW q \in Polls, q # p PROVE Knows(polls[q])'
    BY <1>1, <1>2, <1>4 DEF Knows, Busy
<1> QED BY <1>2, <1>3, <1>4 DEF PollsKnow

LEMMA LocatesKeeps == ASSUME StreamInv, NEW p \in Polls, Locates(p) PROVE StreamInv'
<1> USE DEF StreamInv
<1> DEFINE there == [polls[p] EXCEPT !.at = "reading", !.place = Len(written)]
<1>1. /\ UNCHANGED <<now, streamVars, mappingVars, turnVars, progressVars, guardVars, fate>>
      /\ UNCHANGED <<written, closed, mapping, settings, running, position, chained>>
    BY DEF Locates, streamVars, mappingVars, turnVars, progressVars, guardVars
<1>2. /\ StreamTypes' /\ MappingTypes' /\ GuardTypes' /\ FateTypes' /\ SettlesOnce'
      /\ TurnTypes'
    BY <1>1, StreamStands, MappingStands, GuardStands, TurnsStand, TypesTogether
       DEF FateTypes, SettlesOnce
<1>3. PositionType' /\ AttemptTypes' /\ SplitTypes'
    BY <1>1, <1>2, ProgressStands, TypesTogether DEF StreamTypes
<1>4. polls[p] \in APoll /\ Knows(polls[p]) /\ Len(written) \in Nat
    BY TypesTogether DEF PollTypes, PollsKnow, StreamTypes
<1>5. there \in APoll /\ UnderWay(p) /\ Reaches(p, there)
    BY <1>4 DEF Locates, UnderWay, APoll, Stages
<1>6. polls'[p] = there
    BY <1>5, Reached, TypesTogether
<1>7. Knows(polls[p])'
    BY <1>1, <1>4, <1>6 DEF Locates, Knows, Busy, APoll
<1>8. PollTypes' /\ OneTurnAtATime' /\ PollsKnow'
    BY <1>1, <1>4, <1>5, <1>7, PollGoesOn, TypesTogether DEF APoll
<1>9. GuardStops'
    BY <1>1 DEF Locates, GuardStops, Busy
<1> QED BY <1>2, <1>3, <1>8, <1>9, TypesStayTogether

LEMMA GetsRecordsKeeps == ASSUME StreamInv, NEW p \in Polls, GetsRecords(p) PROVE StreamInv'
<1> USE DEF StreamInv
<1> DEFINE upTo == IF polls[p].place + polls[p].size < Len(written)
                   THEN polls[p].place + polls[p].size ELSE Len(written)
           drained == closed /\ upTo = Len(written)
           there == [polls[p] EXCEPT !.at = "read", !.size = 0, !.last = upTo, !.drained = drained,
                                     !.next = IF drained THEN @ ELSE upTo]
<1>1. /\ UNCHANGED <<now, streamVars, mappingVars, turnVars, progressVars, guardVars, fate>>
      /\ UNCHANGED <<written, closed, mapping, settings, running, position, chained>>
    BY DEF GetsRecords, streamVars, mappingVars, turnVars, progressVars, guardVars
<1>2. /\ StreamTypes' /\ MappingTypes' /\ GuardTypes' /\ FateTypes' /\ SettlesOnce'
      /\ TurnTypes'
    BY <1>1, StreamStands, MappingStands, GuardStands, TurnsStand, TypesTogether
       DEF FateTypes, SettlesOnce
<1>3. PositionType' /\ AttemptTypes' /\ SplitTypes'
    BY <1>1, <1>2, ProgressStands, TypesTogether DEF StreamTypes
<1>4. polls[p] \in APoll /\ Knows(polls[p]) /\ Len(written) \in Nat /\ polls[p].at = "reading"
    BY TypesTogether DEF PollTypes, PollsKnow, StreamTypes, GetsRecords
<1>5. /\ polls[p].place \in 0 .. Len(written)
      /\ upTo \in polls[p].place .. Len(written)
      /\ drained \in BOOLEAN
    BY <1>4 DEF Knows, APoll
<1>6. there \in APoll
  <2>1. upTo \in Nat /\ (IF drained THEN polls[p].next ELSE upTo) \in Nat \cup {Latest}
    BY <1>4, <1>5 DEF APoll
  <2> HIDE DEF upTo, drained
  <2> QED BY <1>4, <1>5, <2>1 DEF APoll, Stages
<1>7. UnderWay(p) /\ Reaches(p, there)
    BY DEF GetsRecords, UnderWay
<1>8. polls'[p] = there
    BY <1>6, <1>7, Reached, TypesTogether
<1>9. Knows(polls[p])'
  <2>1. /\ there.at = "read" /\ there.place = polls[p].place /\ there.last = upTo
        /\ there.drained = drained /\ there.next = IF drained THEN polls[p].next ELSE upTo
    BY <1>4 DEF APoll
  <2>2. drained => closed
    OBVIOUS
  <2> HIDE DEF there, upTo, drained
  <2>3. CASE drained
    BY <1>1, <1>4, <1>5, <1>8, <2>1, <2>2, <2>3 DEF Knows, Busy, Latest
  <2>4. CASE ~drained
    BY <1>1, <1>4, <1>5, <1>8, <2>1, <2>4 DEF Knows, Busy, Latest
  <2> QED BY <2>3, <2>4
<1>10. PollTypes' /\ OneTurnAtATime' /\ PollsKnow'
    BY <1>1, <1>4, <1>6, <1>7, <1>9, PollGoesOn, TypesTogether DEF APoll
<1>11. GuardStops'
    BY <1>1, <1>4 DEF GuardStops, Busy
<1> QED BY <1>2, <1>3, <1>10, <1>11, TypesStayTogether

LEMMA InvokesKeeps == ASSUME StreamInv, NEW p \in Polls, Invokes(p) PROVE StreamInv'
<1> USE DEF StreamInv
<1> DEFINE there == [polls[p] EXCEPT !.at = "handling"]
<1>1. /\ UNCHANGED <<now, streamVars, mappingVars, turnVars, progressVars, guardVars, fate>>
      /\ UNCHANGED <<written, closed, mapping, settings, running, position, chained>>
    BY DEF Invokes, streamVars, mappingVars, turnVars, progressVars, guardVars
<1>2. /\ StreamTypes' /\ MappingTypes' /\ GuardTypes' /\ FateTypes' /\ SettlesOnce'
      /\ TurnTypes'
    BY <1>1, StreamStands, MappingStands, GuardStands, TurnsStand, TypesTogether
       DEF FateTypes, SettlesOnce
<1>3. PositionType' /\ AttemptTypes' /\ SplitTypes'
    BY <1>1, <1>2, ProgressStands, TypesTogether DEF StreamTypes
<1>4. polls[p] \in APoll /\ Knows(polls[p]) /\ polls[p].at = "calling"
    BY TypesTogether DEF PollTypes, PollsKnow, Invokes
<1>5. there \in APoll /\ UnderWay(p) /\ Reaches(p, there)
    BY <1>4 DEF Invokes, UnderWay, APoll, Stages
<1>6. polls'[p] = there
    BY <1>5, Reached, TypesTogether
<1>7. Knows(polls[p])'
    BY <1>1, <1>4, <1>6 DEF Knows, Busy, APoll
<1>8. PollTypes' /\ OneTurnAtATime' /\ PollsKnow'
    BY <1>1, <1>4, <1>5, <1>7, PollGoesOn, TypesTogether DEF APoll
<1>9. GuardStops'
    BY <1>1, <1>4 DEF GuardStops, Busy
<1> QED BY <1>2, <1>3, <1>8, <1>9, TypesStayTogether

-----------------------------------------------------------------------------
(* What becomes of a batch.                                                  *)

Splitting == {s \in [half : Nat, left : Nat] : s.half = 0 <=> s.left = 0}

LEMMA FinishedSplits ==
    ASSUME NEW s \in Splitting, NEW count \in Nat PROVE Finished(s, count) \in Splitting
BY DEF Finished, WholeBatches, Splitting

LEMMA FatedTypes ==
    ASSUME FateTypes, NEW ones, NEW how \in {"handled", "exhausted", "aged"}
    PROVE  Fated(ones, how) \in [1 .. MaxRecords -> {"waiting", "handled", "exhausted", "aged"}]
BY DEF FateTypes, Fated

LEMMA PollEnds ==
    ASSUME PollTypes, OneTurnAtATime, NEW p \in Polls, UnderWay(p), Reaches(p, Ending), UNCHANGED running
    PROVE  /\ PollTypes' /\ OneTurnAtATime' /\ PollsKnow'
           /\ \A q \in Polls : polls'[q].at \in {"over", "ending"}
<1>1. Ending \in APoll /\ Ending.at = "ending"
    BY DEF Ending, NoPoll, APoll, Stages
<1>2. polls'[p] = Ending /\ \A q \in Polls : q # p => polls'[q] = polls[q]
    BY <1>1, Reached
<1>3. Knows(polls[p])'
    BY <1>1, <1>2 DEF Knows, Busy
<1>4. PollTypes' /\ OneTurnAtATime' /\ PollsKnow'
    BY <1>1, <1>3, PollGoesOn
<1>5. \A q \in Polls : q # p => polls[q].at = "over"
    BY OthersAreOver
<1> QED BY <1>1, <1>2, <1>4, <1>5

(* The place a finished batch leaves the mapping at.                         *)
LEMMA NextPlace ==
    ASSUME StreamInv, NEW p \in Polls, polls[p].at \in {"read", "calling", "handling"},
           UNCHANGED <<written, mapping, settings>>, position' = polls[p].next
    PROVE  PositionType' /\ SettlesOnce'
<1>1. polls[p] \in APoll /\ Knows(polls[p]) /\ Len(written) \in Nat
    BY TypesTogether DEF StreamInv, PollTypes, PollsKnow, StreamTypes
<1>2. position \in {Latest} \cup 0 .. Len(written)
    BY TypesTogether DEF StreamInv, PositionType
<1>3. polls[p].next \in Nat \cup {Latest} /\ polls[p].next <= Len(written)
    BY <1>1, <1>2 DEF Knows, APoll, Latest
<1>4. PositionType'
    BY <1>1, <1>3 DEF PositionType, Latest
<1>5. SettlesOnce'
    BY <1>1 DEF SettlesOnce, Knows, Busy
<1> QED BY <1>4, <1>5

LEMMA HandledTypes ==
    ASSUME StreamInv, NEW p \in Polls, polls[p].at \in {"read", "calling", "handling"},
           Handled(p), UNCHANGED <<written, mapping, settings, running, asked>>
    PROVE  PositionType' /\ SettlesOnce' /\ AttemptTypes' /\ TurnTypes'
<1>1. position' = polls[p].next /\ attempts' = 0 /\ UNCHANGED turns
    BY DEF Handled
<1>2. PositionType' /\ SettlesOnce'
    BY <1>1, NextPlace
<1>3. settings \in Settings
    BY TypesTogether DEF StreamInv, MappingTypes
<1>4. AttemptTypes'
  <2>1. AttemptLimit \in Nat \cup {Unlimited} /\ AttemptLimit' = AttemptLimit
    BY <1>3, AttemptLimits DEF AttemptLimit
  <2> QED BY <1>1, <2>1 DEF AttemptTypes, Unlimited
<1>5. scheduled' \in BOOLEAN
    BY TypesTogether DEF StreamInv, TurnTypes, Handled, PollTypes, APoll
<1>6. TurnTypes'
    BY <1>1, <1>5, TypesTogether DEF StreamInv, TurnTypes
<1> QED BY <1>2, <1>4, <1>6

LEMMA CatchesUpKeeps == ASSUME StreamInv, NEW p \in Polls, CatchesUp(p) PROVE StreamInv'
<1> USE DEF StreamInv
<1>1. /\ UNCHANGED <<now, streamVars, mappingVars, turnVars, guardVars, fate>>
      /\ UNCHANGED <<written, closed, mapping, settings, running, attempts, split, splitTo>>
    BY DEF CatchesUp, streamVars, mappingVars, turnVars, guardVars
<1>2. /\ StreamTypes' /\ MappingTypes' /\ GuardTypes' /\ FateTypes' /\ TurnTypes'
    BY <1>1, StreamStands, MappingStands, GuardStands, TurnsStand, TypesTogether DEF FateTypes
<1>3. PositionType' /\ SettlesOnce'
    BY <1>1, NextPlace DEF CatchesUp
<1>4. AttemptTypes' /\ SplitTypes'
    BY <1>1, TypesTogether DEF AttemptTypes, AttemptLimit, SplitTypes
<1>5. /\ PollTypes' /\ OneTurnAtATime' /\ PollsKnow'
      /\ \A q \in Polls : polls'[q].at \in {"over", "ending"}
    BY <1>1, PollEnds, TypesTogether DEF CatchesUp, UnderWay
<1>6. GuardStops'
    BY <1>1, <1>5 DEF CatchesUp, GuardStops, guardVars, mappingVars, Busy
<1> QED BY <1>2, <1>3, <1>4, <1>5, <1>6, TypesStayTogether

LEMMA ChecksAgeKeeps == ASSUME StreamInv, NEW p \in Polls, ChecksAge(p) PROVE StreamInv'
<1> USE DEF StreamInv
<1>1. PICK upTo \in polls[p].place .. polls[p].last :
         /\ Expires(p, upTo)
         /\ fate' = Fated(polls[p].place + 1 .. upTo, "aged")
         /\ split' = Finished(split, upTo - polls[p].place)
    BY DEF ChecksAge
<1>2. /\ UNCHANGED <<now, streamVars, mappingVars, guardVars>> /\ polls[p].at = "read"
      /\ UNCHANGED <<written, closed, mapping, settings, running, asked, splitTo, chained>>
    BY DEF ChecksAge, streamVars, mappingVars, guardVars
<1>3. StreamTypes' /\ MappingTypes' /\ GuardTypes'
    BY <1>2, StreamStands, MappingStands, GuardStands, TypesTogether
<1>4. FateTypes'
    BY <1>1, FatedTypes, TypesTogether DEF FateTypes
<1>5. /\ polls[p] \in APoll /\ Knows(polls[p]) /\ Len(written) \in Nat
      /\ position \in {Latest} \cup 0 .. Len(written)
    BY TypesTogether DEF PollTypes, PollsKnow, StreamTypes, PositionType
<1>6. /\ polls[p].place \in Nat /\ polls[p].last \in Nat /\ polls[p].last <= Len(written)
      /\ position \in {Latest, polls[p].place}
      /\ upTo \in Nat /\ polls[p].place <= upTo /\ upTo <= polls[p].last
  <2>1. /\ polls[p].place \in Nat /\ polls[p].last \in Nat /\ polls[p].last <= Len(written)
        /\ position \in {Latest, polls[p].place}
    BY <1>2, <1>5 DEF APoll, Knows, Latest
  <2> QED BY <1>1, <2>1
<1>11. upTo - polls[p].place \in Nat
    BY <1>6
<1>7. SplitTypes'
  <2>1. split \in Splitting
    BY TypesTogether DEF SplitTypes, Splitting
  <2>2. split' \in Splitting
    BY <1>1, <1>11, <2>1, FinishedSplits
  <2> QED BY <1>2, <2>2, TypesTogether DEF SplitTypes, Splitting
<1>8. GuardStops'
    BY <1>2 DEF GuardStops, Busy
<1>9. CASE upTo = polls[p].last /\ Handled(p) /\ Reaches(p, Ending)
  <2>1. PositionType' /\ SettlesOnce' /\ AttemptTypes' /\ TurnTypes'
    BY <1>2, <1>9, HandledTypes
  <2>2. PollTypes' /\ OneTurnAtATime' /\ PollsKnow'
    BY <1>2, <1>9, PollEnds, TypesTogether DEF UnderWay
  <2> QED BY <1>3, <1>4, <1>7, <1>8, <2>1, <2>2, TypesStayTogether
<1>10. CASE /\ upTo < polls[p].last
            /\ position' = IF upTo > polls[p].place THEN upTo ELSE position
            /\ Reaches(p, [polls[p] EXCEPT !.at = "calling", !.place = upTo])
            /\ UNCHANGED <<attempts, scheduled, turns>>
  <2> DEFINE there == [polls[p] EXCEPT !.at = "calling", !.place = upTo]
  <2>1. PositionType'
    <3>1. position' \in {Latest} \cup 0 .. Len(written)
        BY <1>5, <1>6, <1>10
    <3> QED BY <1>2, <3>1 DEF PositionType
  <2>7. AttemptTypes'
    BY <1>2, <1>10, TypesTogether DEF AttemptTypes, AttemptLimit
  <2>2. SettlesOnce' /\ TurnTypes'
    <3>1. TurnTypes'
        BY <1>2, <1>10, TypesTogether DEF TurnTypes
    <3>2. position' = Latest => position = Latest
        BY <1>6, <1>10 DEF Latest
    <3>3. mapping # "none"
        BY <1>2, <1>5 DEF Knows, Busy
    <3> QED BY <1>2, <3>1, <3>2, <3>3 DEF SettlesOnce
  <2>3. there \in APoll /\ UnderWay(p) /\ Reaches(p, there)
    BY <1>2, <1>5, <1>6, <1>10 DEF UnderWay, APoll, Stages
  <2>4. polls'[p] = there
    BY <2>3, Reached, TypesTogether
  <2>5. Knows(polls[p])'
    BY <1>2, <1>5, <1>6, <1>10, <2>4 DEF Knows, Busy, APoll, Latest
  <2>6. PollTypes' /\ OneTurnAtATime' /\ PollsKnow'
    BY <1>2, <1>5, <2>3, <2>5, PollGoesOn, TypesTogether DEF APoll
  <2> QED BY <1>3, <1>4, <1>7, <1>8, <2>1, <2>2, <2>6, <2>7, TypesStayTogether
<1> QED BY <1>1, <1>9, <1>10 DEF Expires

(* A delivery has returned: the poll that made it comes to its end.          *)
LEMMA ReturnsKeeps ==
    ASSUME StreamInv, NEW p \in Polls, Returns(p)
    PROVE  /\ StreamTypes' /\ GuardTypes' /\ PollTypes' /\ OneTurnAtATime' /\ PollsKnow'
           /\ UNCHANGED <<now, written, closed, mapping, settings, watching, running, asked>>
           /\ polls[p].at = "handling"
           /\ \A q \in Polls : polls'[q].at \notin Busy
           /\ chained' = Chain
<1> USE DEF StreamInv
<1>1. /\ UNCHANGED <<now, written, closed, mapping, settings, watching, running, asked>>
      /\ UNCHANGED <<now, streamVars>>
      /\ polls[p].at = "handling" /\ chained' = Chain /\ fed' = FALSE
    BY DEF Returns, streamVars
<1>2. StreamTypes'
    BY <1>1, StreamStands, TypesTogether
<1>3. GuardTypes'
  <2>1. chained \in 0 .. CascadeLimit /\ chained # CascadeLimit
    BY <1>1, TypesTogether DEF GuardTypes, GuardStops, Busy
  <2>2. Chain \in 0 .. CascadeLimit
    BY <2>1, Bounds DEF Chain
  <2>3. fed' \in BOOLEAN
    BY <1>1
  <2> QED BY <1>1, <2>2, <2>3 DEF GuardTypes
<1>4. /\ PollTypes' /\ OneTurnAtATime' /\ PollsKnow'
      /\ \A q \in Polls : polls'[q].at \in {"over", "ending"}
    BY <1>1, PollEnds, TypesTogether DEF Returns, UnderWay
<1> QED BY <1>1, <1>2, <1>3, <1>4 DEF Busy

LEMMA RefusedKeeps == ASSUME StreamInv, NEW p \in Polls, Refused(p) PROVE StreamInv'
<1> USE DEF StreamInv
<1>1. /\ Returns(p) /\ halted' = TRUE /\ UNCHANGED <<scheduled, turns, progressVars, fate>>
      /\ UNCHANGED <<position, attempts, split, splitTo>>
    BY DEF Refused, progressVars
<1>2. /\ StreamTypes' /\ GuardTypes' /\ PollTypes' /\ OneTurnAtATime' /\ PollsKnow'
      /\ UNCHANGED <<now, written, closed, mapping, settings, watching, running, asked>>
      /\ \A q \in Polls : polls'[q].at \notin Busy
    BY <1>1, ReturnsKeeps
<1>3. MappingTypes' /\ TurnTypes' /\ FateTypes'
  <2>1. halted' \in BOOLEAN
    BY <1>1
  <2> QED BY <1>1, <1>2, <2>1, TypesTogether DEF MappingTypes, TurnTypes, FateTypes
<1>4. PositionType' /\ AttemptTypes' /\ SplitTypes'
    BY <1>1, <1>2, ProgressStands, TypesTogether DEF StreamTypes
<1>5. SettlesOnce' /\ GuardStops'
    BY <1>1, <1>2 DEF SettlesOnce, GuardStops
<1> QED BY <1>2, <1>3, <1>4, <1>5, TypesStayTogether

(* What the three ways a delivery can come out have in common.               *)
LEMMA DeliveryKeeps ==
    ASSUME StreamInv, NEW p \in Polls, Returns(p), Chain < CascadeLimit, UNCHANGED halted,
           PositionType', SettlesOnce', AttemptTypes', TurnTypes', FateTypes',
           split' \in Splitting, splitTo' \in 0 .. Len(written)
    PROVE  StreamInv'
<1> USE DEF StreamInv
<1>1. /\ StreamTypes' /\ GuardTypes' /\ PollTypes' /\ OneTurnAtATime' /\ PollsKnow'
      /\ UNCHANGED <<now, written, closed, mapping, settings, watching, running, asked>>
      /\ chained' = Chain
    BY ReturnsKeeps
<1>2. MappingTypes'
    BY <1>1, TypesTogether DEF MappingTypes
<1>3. SplitTypes'
    BY <1>1 DEF SplitTypes, Splitting
<1>4. GuardStops'
  <2>1. chained' # CascadeLimit
    BY <1>1, TypesTogether, Bounds DEF GuardTypes, Chain
  <2> QED BY <2>1 DEF GuardStops
<1> QED BY <1>1, <1>2, <1>3, <1>4, TypesStayTogether

LEMMA TakesKeeps == ASSUME StreamInv, NEW p \in Polls, Takes(p) PROVE StreamInv'
<1> USE DEF StreamInv
<1>1. /\ Returns(p) /\ Chain < CascadeLimit /\ Handled(p) /\ UNCHANGED <<halted, splitTo>>
      /\ split' = Finished(split, polls[p].last - polls[p].place)
      /\ fate' = Fated(Batch(p), "handled")
    BY DEF Takes
<1>2. /\ polls[p].at = "handling"
      /\ UNCHANGED <<now, written, closed, mapping, settings, watching, running, asked>>
    BY <1>1, ReturnsKeeps
<1>3. PositionType' /\ SettlesOnce' /\ AttemptTypes' /\ TurnTypes'
    BY <1>1, <1>2, HandledTypes
<1>4. FateTypes'
    BY <1>1, FatedTypes, TypesTogether DEF FateTypes
<1>5. polls[p].last - polls[p].place \in Nat
  <2>1. polls[p] \in APoll /\ Knows(polls[p])
    BY TypesTogether DEF PollTypes, PollsKnow
  <2>2. polls[p].last \in Nat /\ 0 <= polls[p].place /\ polls[p].place <= polls[p].last
    BY <1>2, <2>1 DEF APoll, Knows
  <2>3. polls[p].place \in Int
    BY <2>1 DEF APoll, Latest
  <2> QED BY <2>2, <2>3
<1>6. split \in Splitting /\ splitTo \in 0 .. Len(written)
    BY TypesTogether DEF SplitTypes, Splitting
<1>7. split' \in Splitting
    BY <1>1, <1>5, <1>6, FinishedSplits
<1> QED BY <1>1, <1>3, <1>4, <1>6, <1>7, DeliveryKeeps

LEMMA FailsKeeps ==
    ASSUME StreamInv, NEW p \in Polls, NEW failed \in Batch(p), NEW threw \in BOOLEAN, Fails(p, failed, threw)
    PROVE  StreamInv'
<1> USE DEF StreamInv
<1> DEFINE count == polls[p].last - polls[p].place
           tries == IF Splits(p, threw) THEN 0 ELSE attempts
<1>1. /\ Returns(p) /\ Chain < CascadeLimit /\ UNCHANGED halted
      /\ splitTo' = IF Splits(p, threw) /\ polls[p].place >= splitTo THEN polls[p].last ELSE splitTo
      /\ \/ /\ IsExhausted(tries)
            /\ GivesUp(p, failed)
            /\ split' = Finished(SplitOf(p, threw), count)
         \/ /\ ~IsExhausted(tries)
            /\ TriesAgain(p, failed, threw, tries)
            /\ split' = SplitOf(p, threw)
    BY DEF Fails
<1>2. /\ polls[p].at = "handling"
      /\ UNCHANGED <<now, written, closed, mapping, settings, watching, running, asked>>
    BY <1>1, ReturnsKeeps
<1>3. polls[p] \in APoll /\ Knows(polls[p]) /\ Len(written) \in Nat
    BY TypesTogether DEF PollTypes, PollsKnow, StreamTypes
<1>4. /\ polls[p].place \in Nat /\ polls[p].last \in Nat /\ polls[p].last <= Len(written)
      /\ position \in {Latest, polls[p].place} /\ polls[p].place < polls[p].last
    BY <1>2, <1>3 DEF APoll, Knows, Latest
<1>5. count \in Nat \ {0}
    BY <1>4
<1>6. split \in Splitting /\ splitTo \in 0 .. Len(written)
    BY TypesTogether DEF SplitTypes, Splitting
<1>7. SplitOf(p, threw) \in Splitting
    BY <1>5, <1>6 DEF SplitOf, Splits, Splitting
<1>8. splitTo' \in 0 .. Len(written)
    BY <1>1, <1>3, <1>4, <1>6
<1>9. tries \in Nat
    BY TypesTogether DEF AttemptTypes
<1>10. settings \in Settings
    BY TypesTogether DEF MappingTypes
<1>11. AttemptLimit \in Nat \cup {Unlimited} /\ AttemptLimit' = AttemptLimit
    BY <1>2, <1>10, AttemptLimits DEF AttemptLimit
<1> HIDE DEF tries
<1>12. CASE IsExhausted(tries) /\ GivesUp(p, failed) /\ split' = Finished(SplitOf(p, threw), count)
  <2>1. Handled(p)
    BY <1>12 DEF GivesUp
  <2>2. PositionType' /\ SettlesOnce' /\ AttemptTypes' /\ TurnTypes'
    BY <1>2, <2>1, HandledTypes
  <2>3. FateTypes'
    <3>1. /\ Fated(Batch(p), "exhausted") \in [1 .. MaxRecords -> {"waiting", "handled", "exhausted", "aged"}]
          /\ Fated(Batch(p), "handled") \in [1 .. MaxRecords -> {"waiting", "handled", "exhausted", "aged"}]
          /\ DOMAIN fate = 1 .. MaxRecords
      BY FatedTypes, TypesTogether DEF FateTypes
    <3> QED BY <1>12, <3>1 DEF GivesUp, FateTypes
  <2>4. split' \in Splitting
    BY <1>5, <1>7, <1>12, FinishedSplits
  <2> QED BY <1>1, <1>8, <2>2, <2>3, <2>4, DeliveryKeeps
<1>13. CASE ~IsExhausted(tries) /\ TriesAgain(p, failed, threw, tries) /\ split' = SplitOf(p, threw)
  <2>1. /\ attempts' = tries + 1 /\ position' = (IF threw THEN position ELSE failed - 1)
        /\ ScheduledAt(now + Wait(tries)) /\ UNCHANGED scheduled
        /\ fate' = Fated(polls[p].place + 1 .. failed - 1, "handled")
    BY <1>13 DEF TriesAgain, RetriesLater
  <2>2. position' \in {Latest} \cup 0 .. Len(written) /\ (position' = Latest => position = Latest)
    <3>1. failed \in polls[p].place + 1 .. polls[p].last
      BY DEF Batch
    <3>2. failed - 1 \in 0 .. Len(written)
      BY <1>3, <1>4, <3>1
    <3>3. position \in {Latest} \cup 0 .. Len(written)
      BY TypesTogether DEF PositionType
    <3> QED BY <2>1, <3>2, <3>3 DEF Latest
  <2>3. PositionType' /\ SettlesOnce'
    <3>1. PositionType'
      BY <1>2, <2>2 DEF PositionType
    <3>2. mapping # "none" /\ UNCHANGED <<mapping, settings>>
      BY <1>2, <1>3 DEF Knows, Busy
    <3>3. position' = Latest => settings.latest
      BY <2>2, <3>2 DEF SettlesOnce
    <3> QED BY <3>1, <3>2, <3>3 DEF SettlesOnce
  <2>4. AttemptTypes'
    <3>1. AttemptLimit # Unlimited => tries < AttemptLimit
      BY <1>9, <1>11, <1>13 DEF IsExhausted
    <3>2. attempts' \in Nat /\ (AttemptLimit # Unlimited => attempts' <= AttemptLimit)
      BY <1>9, <1>11, <2>1, <3>1
    <3> QED BY <1>11, <3>2 DEF AttemptTypes
  <2>5. TurnTypes'
    <3>1. turns' \in [Instants -> Nat]
      <4>1. turns \in [Instants -> Nat]
        BY TypesTogether DEF TurnTypes
      <4>2. PICK when \in Instants : turns' = [turns EXCEPT ![when] = @ + 1]
        <5> DEFINE instant == now + Wait(tries)
                   when == IF instant \in Instants THEN instant ELSE MaxTime
        <5>1. turns' = [turns EXCEPT ![when] = @ + 1]
          BY <2>1 DEF ScheduledAt
        <5>2. MaxTime \in Instants
          BY Bounds DEF Instants
        <5> HIDE DEF instant
        <5>3. when \in Instants
          BY <5>2
        <5> QED BY <5>1, <5>3
      <4> QED BY <4>1, <4>2
    <3> QED BY <1>2, <2>1, <3>1, TypesTogether DEF TurnTypes
  <2>6. FateTypes'
    BY <2>1, FatedTypes, TypesTogether DEF FateTypes
  <2> QED BY <1>1, <1>7, <1>8, <1>13, <2>3, <2>4, <2>5, <2>6, DeliveryKeeps
<1> QED BY <1>1, <1>12, <1>13

-----------------------------------------------------------------------------

LEMMA StutterKeeps == ASSUME StreamInv, UNCHANGED vars PROVE StreamInv'
BY DEF StreamInv, StreamTypeOK, OneTurnAtATime, PollsKnow, Knows, SettlesOnce, GuardStops, UnderWay,
       AttemptLimit, vars, streamVars, mappingVars, turnVars, progressVars, guardVars

LEMMA StepKeeps == ASSUME StreamInv, [Next]_vars PROVE StreamInv'
<1>1. CASE Next
  <2>1. ASSUME NEW p \in Polls, Poll(p) PROVE StreamInv'
    BY <2>1, TurnOverKeeps, LocatesKeeps, GetsRecordsKeeps, CatchesUpKeeps, ChecksAgeKeeps, InvokesKeeps,
       RefusedKeeps, TakesKeeps, FailsKeeps DEF Poll
  <2>2. ASSUME HostRuns PROVE StreamInv'
    BY <2>1, <2>2, ActivateKeeps, DeferredTurnKeeps, ClockTurnKeeps DEF HostRuns
  <2> QED BY <1>1, <2>2, TimePassesKeeps, WriteKeeps, DisableKeeps, CreateKeeps, DeleteKeeps DEF Next
<1> QED BY <1>1, StutterKeeps

(* What every state of a mapping's life satisfies.                           *)
THEOREM StreamInvHolds == Spec => []StreamInv
<1>1. Init => StreamInv
    BY StreamInitial
<1>2. StreamInv /\ [Next]_vars => StreamInv'
    BY StepKeeps
<1> QED BY <1>1, <1>2, PTL DEF Spec

(* The mapping's state, place, retries, split and guard have their types.    *)
THEOREM StreamTypesHold == Spec => []StreamTypeOK
<1>1. StreamInv => StreamTypeOK
    BY DEF StreamInv
<1> QED BY <1>1, StreamInvHolds, PTL

(* Polls of a mapping never overlap, and the place stands still while a      *)
(* batch that was read from it is with the function.                         *)
THEOREM OneBatchHolds == Spec => []OneBatchAtATime
<1>1. StreamInv => OneBatchAtATime
  <2> SUFFICES ASSUME StreamInv PROVE OneBatchAtATime
    OBVIOUS
  <2>1. ASSUME NEW p \in Polls, polls[p].at \in {"calling", "handling"}
        PROVE  Batch(p) # {} /\ position \in {Latest, polls[p].place}
    <3>1. polls[p] \in APoll /\ Knows(polls[p])
      BY TypesTogether DEF StreamInv, PollTypes, PollsKnow
    <3>2. polls[p].place \in Nat /\ polls[p].last \in Nat /\ polls[p].place < polls[p].last
      BY <2>1, <3>1 DEF Knows, APoll, Latest
    <3>3. polls[p].last \in Batch(p)
      BY <3>2 DEF Batch
    <3> QED BY <2>1, <3>1, <3>3 DEF Knows
  <2> QED BY <2>1 DEF StreamInv, OneTurnAtATime, OneBatchAtATime
<1> QED BY <1>1, StreamInvHolds, PTL

-----------------------------------------------------------------------------
(* Delivery in order.                                                        *)

(* A record has to be written before the mapping can be done with it.        *)
OnlyWrittenFinish == \A r \in 1 .. MaxRecords : fate[r] # "waiting" => r <= Len(written)

DeliveryInv == StreamInv /\ OnlyWrittenFinish

LEMMA HandedBatch ==
    ASSUME OneTurnAtATime, NEW p \in Polls, polls[p].at = "handling" PROVE Handed = Batch(p)
<1>1. {q \in Polls : polls[q].at = "handling"} = {p}
    BY DEF OneTurnAtATime, UnderWay
<1> QED BY <1>1 DEF Handed

LEMMA NothingHanded == ASSUME \A p \in Polls : polls[p].at # "handling" PROVE Handed = {}
<1>1. {q \in Polls : polls[q].at = "handling"} = {}
    OBVIOUS
<1> QED BY <1>1 DEF Handed

LEMMA NothingHandedThen == ASSUME \A p \in Polls : polls'[p].at # "handling" PROVE Handed' = {}
<1>1. {q \in Polls : polls'[q].at = "handling"} = {}
    OBVIOUS
<1> QED BY <1>1 DEF Handed

LEMMA StillHanded == ASSUME UNCHANGED polls PROVE Handed' = Handed
BY DEF Handed, Batch

(* A poll that has no batch with the function goes on without handing one    *)
(* over.                                                                     *)
LEMMA StillNothingHanded ==
    ASSUME StreamInv, NEW p \in Polls, UnderWay(p), polls[p].at # "handling", NEW there \in APoll,
           Reaches(p, there), there.at # "handling"
    PROVE  Handed = {} /\ Handed' = {}
<1>1. \A q \in Polls : q # p => polls[q].at = "over"
    BY OthersAreOver DEF StreamInv
<1>2. polls'[p] = there /\ \A q \in Polls : q # p => polls'[q] = polls[q]
    BY Reached, TypesTogether DEF StreamInv
<1>3. Handed = {}
    BY <1>1, NothingHanded
<1>4. Handed' = {}
    BY <1>1, <1>2, NothingHandedThen
<1> QED BY <1>3, <1>4

(* What handling, expiring or giving up some records adds to what is done.   *)
LEMMA FatedIsDone ==
    ASSUME DeliveryInv, NEW ones \in SUBSET Records, NEW how \in {"handled", "exhausted", "aged"},
           fate' = Fated(ones, how), UNCHANGED written
    PROVE  DoneWith' = DoneWith \cup ones /\ OnlyWrittenFinish'
<1>1. /\ DOMAIN fate = 1 .. MaxRecords /\ Len(written) \in Nat /\ Len(written) <= MaxRecords
      /\ OnlyWrittenFinish
    BY TypesTogether DEF DeliveryInv, StreamInv, FateTypes, StreamTypes
<1>2. \A r \in 1 .. MaxRecords :
         fate'[r] = IF r \in ones /\ fate[r] = "waiting" THEN how ELSE fate[r]
    BY <1>1 DEF Fated
<1>3. \A r \in 1 .. MaxRecords : fate'[r] # "waiting" <=> (fate[r] # "waiting" \/ r \in ones)
    BY <1>2
<1>4. Records' = Records /\ Records \subseteq 1 .. MaxRecords /\ MaxRecords \in Nat
    BY <1>1, Bounds DEF Records
<1>5. DoneWith' = DoneWith \cup ones
    BY <1>3, <1>4 DEF DoneWith
<1>6. OnlyWrittenFinish'
    BY <1>1, <1>3 DEF OnlyWrittenFinish, Records
<1> QED BY <1>5, <1>6

LEMMA DoneStands ==
    ASSUME OnlyWrittenFinish, UNCHANGED <<written, fate>> PROVE DoneWith' = DoneWith /\ OnlyWrittenFinish'
BY DEF DoneWith, OnlyWrittenFinish, Records

(* A step that neither moves the place nor touches a record nor hands over.  *)
LEMMA Unmoved ==
    ASSUME DeliveryInv, UNCHANGED <<written, closed, position, fate>>, Handed' = Handed
    PROVE  UNCHANGED Delivery!vars /\ OnlyWrittenFinish'
BY DoneStands DEF DeliveryInv, Delivery!vars

LEMMA CapturesDelivers == ASSUME DeliveryInv, Captures PROVE Delivery!Next /\ OnlyWrittenFinish'
<1>1. /\ Len(written) \in Nat /\ Len(written') = Len(written) + 1 /\ ~closed
      /\ Len(written) < MaxRecords /\ OnlyWrittenFinish /\ MaxRecords \in Nat
    BY Bounds, TypesTogether DEF DeliveryInv, StreamInv, StreamTypes, Captures
<1>2. UNCHANGED <<closed, position, polls, fate>>
    BY DEF Captures, progressVars
<1>3. OnlyWrittenFinish'
    BY <1>1, <1>2 DEF OnlyWrittenFinish
<1>4. Records' = Records \cup {Len(written) + 1} /\ fate[Len(written) + 1] = "waiting"
    BY <1>1 DEF Records, OnlyWrittenFinish
<1>5. DoneWith' = DoneWith
    BY <1>2, <1>4 DEF DoneWith
<1>6. Handed' = Handed
    BY <1>2, StillHanded
<1>7. Delivery!Arrive
    BY <1>1, <1>2, <1>5, <1>6 DEF Delivery!Arrive
<1> QED BY <1>3, <1>7 DEF Delivery!Next

LEMMA DisableDelivers == ASSUME DeliveryInv, Disable PROVE Delivery!Next /\ OnlyWrittenFinish'
<1>1. UNCHANGED <<written, position, polls, fate>> /\ closed' = TRUE
    BY DEF Disable, progressVars
<1>2. Handed' = Handed /\ DoneWith' = DoneWith /\ OnlyWrittenFinish'
    BY <1>1, StillHanded, DoneStands DEF DeliveryInv
<1>3. Delivery!Close
    BY <1>1, <1>2 DEF Delivery!Close
<1> QED BY <1>2, <1>3 DEF Delivery!Next

(* A place is settled on.                                                    *)
LEMMA Settling ==
    ASSUME DeliveryInv, position = Latest, position' \in 0 .. Len(written), Handed' = Handed,
           UNCHANGED <<written, closed, fate>>
    PROVE  Delivery!Next /\ OnlyWrittenFinish'
<1>1. DoneWith' = DoneWith /\ OnlyWrittenFinish'
    BY DoneStands DEF DeliveryInv
<1>2. Delivery!SettleOn(position')
    BY <1>1 DEF Delivery!SettleOn, Delivery!Unsettled, Latest
<1> QED BY <1>1, <1>2 DEF Delivery!Next

LEMMA CreateDelivers ==
    ASSUME DeliveryInv, Create PROVE [Delivery!Next]_(Delivery!vars) /\ OnlyWrittenFinish'
<1>1. /\ UNCHANGED <<written, closed, polls, fate>> /\ position = Latest
      /\ position' = (IF settings.latest THEN Latest ELSE 0) /\ Len(written) \in Nat
    BY TypesTogether DEF DeliveryInv, StreamInv, SettlesOnce, StreamTypes, Create, streamVars
<1>2. Handed' = Handed
    BY <1>1, StillHanded
<1>3. CASE settings.latest
    BY <1>1, <1>2, <1>3, Unmoved
<1>4. CASE ~settings.latest
  <2>1. position' \in 0 .. Len(written)
    BY <1>1, <1>4
  <2> QED BY <1>1, <1>2, <2>1, Settling
<1> QED BY <1>3, <1>4

LEMMA TakesTurnDelivers ==
    ASSUME DeliveryInv, NEW p \in Polls, TakesTurn(p) PROVE UNCHANGED Delivery!vars /\ OnlyWrittenFinish'
<1>1. UNCHANGED <<written, closed, position, fate>>
    BY DEF TakesTurn, streamVars, progressVars
<1>2. Handed' = Handed
  <2>1. CASE UNCHANGED polls
    BY <2>1, StillHanded
  <2>2. CASE ~running /\ Begins(p)
    <3>1. \A q \in Polls : polls[q].at = "over"
      BY <2>2 DEF DeliveryInv, StreamInv, OneTurnAtATime, UnderWay
    <3>2. \A q \in Polls : polls'[q].at # "handling"
      <4>1. \A q \in Polls : q # p => polls'[q] = polls[q]
        BY <2>2, TypesTogether DEF Begins, Reaches, DeliveryInv, StreamInv, PollTypes
      <4>2. polls'[p].at # "handling"
        BY <2>2, TypesTogether DEF Begins, Reaches, DeliveryInv, StreamInv, PollTypes, Ending, NoPoll
      <4> QED BY <3>1, <4>1, <4>2
    <3> QED BY <3>1, <3>2, NothingHanded, NothingHandedThen
  <2> QED BY <2>1, <2>2 DEF TakesTurn
<1> QED BY <1>1, <1>2, Unmoved

(* What is known of a batch that was read.                                   *)
LEMMA ABatch ==
    ASSUME StreamInv, NEW p \in Polls, polls[p].at \in {"read", "calling", "handling"}
    PROVE  /\ polls[p].place \in Nat /\ polls[p].last \in Nat /\ Len(written) \in Nat
           /\ polls[p].place <= polls[p].last /\ polls[p].last <= Len(written)
           /\ position \in {Latest, polls[p].place} /\ position \in Nat \cup {Latest}
           /\ polls[p].next \in Nat \cup {Latest}
           /\ ~polls[p].drained => polls[p].next = polls[p].last
           /\ polls[p].drained => closed /\ polls[p].next <= position
<1>1. polls[p] \in APoll /\ Knows(polls[p]) /\ Len(written) \in Nat
    BY TypesTogether DEF StreamInv, PollTypes, PollsKnow, StreamTypes
<1>2. polls[p].place \in Nat /\ polls[p].last \in Nat /\ polls[p].next \in Nat \cup {Latest}
    BY <1>1 DEF APoll, Knows, Latest
<1> QED BY <1>1, <1>2 DEF Knows

(* To go on from the place the read left is to go past the batch.            *)
LEMMA GoesOn ==
    ASSUME StreamInv, NEW p \in Polls, polls[p].at \in {"read", "calling", "handling"},
           position' = polls[p].next
    PROVE  Delivery!GoesPast(polls[p].last)
<1>1. CASE ~polls[p].drained
    BY <1>1, ABatch DEF Delivery!GoesPast
<1>2. CASE polls[p].drained
    BY <1>2, ABatch DEF Delivery!GoesPast, Delivery!Unsettled, Latest
<1> QED BY <1>1, <1>2

LEMMA CatchesUpDelivers ==
    ASSUME DeliveryInv, NEW p \in Polls, CatchesUp(p)
    PROVE  [Delivery!Next]_(Delivery!vars) /\ OnlyWrittenFinish'
<1> USE DEF DeliveryInv
<1>1. /\ UNCHANGED <<written, closed, fate>> /\ polls[p].at = "read" /\ Batch(p) = {}
      /\ position' = polls[p].next /\ Reaches(p, Ending)
    BY DEF CatchesUp, streamVars
<1>2. Ending \in APoll /\ Ending.at = "ending"
    BY DEF Ending, NoPoll, APoll, Stages
<1>3. Handed = {} /\ Handed' = {}
    BY <1>1, <1>2, StillNothingHanded DEF UnderWay
<1>4. Knows(polls[p])
    BY DEF StreamInv, PollsKnow
<1>5. polls[p].place = polls[p].last
    BY <1>1, ABatch DEF Batch
<1>6. CASE position' = position
    BY <1>1, <1>3, <1>6, Unmoved
<1>7. CASE position' # position
  <2>1. position' = polls[p].last /\ position = Latest
    BY <1>1, <1>4, <1>5, <1>7, ABatch DEF Knows
  <2>2. position' \in 0 .. Len(written)
    BY <1>1, <2>1, ABatch
  <2> QED BY <1>1, <1>3, <2>1, <2>2, Settling
<1> QED BY <1>6, <1>7

LEMMA ChecksAgeDelivers ==
    ASSUME DeliveryInv, NEW p \in Polls, ChecksAge(p)
    PROVE  [Delivery!Next]_(Delivery!vars) /\ OnlyWrittenFinish'
<1> USE DEF DeliveryInv
<1>1. PICK upTo \in polls[p].place .. polls[p].last :
         Expires(p, upTo) /\ fate' = Fated(polls[p].place + 1 .. upTo, "aged")
    BY DEF ChecksAge
<1>2. UNCHANGED <<written, closed>> /\ polls[p].at = "read" /\ Batch(p) # {} /\ UnderWay(p)
    BY DEF ChecksAge, streamVars, UnderWay
<1>3. polls[p].place < polls[p].last
    BY <1>2, ABatch DEF Batch
<1>4. upTo \in Nat /\ polls[p].place <= upTo /\ upTo <= polls[p].last
    BY <1>1, <1>2, ABatch
<1>5. polls[p].place + 1 .. upTo \in SUBSET Records
    BY <1>2, <1>4, ABatch DEF Records
<1>6. DoneWith' = DoneWith \cup (polls[p].place + 1 .. upTo) /\ OnlyWrittenFinish'
    BY <1>1, <1>2, <1>5, FatedIsDone
<1>7. CASE upTo = polls[p].last /\ Handled(p) /\ Reaches(p, Ending)
  <2>1. Ending \in APoll /\ Ending.at = "ending"
    BY DEF Ending, NoPoll, APoll, Stages
  <2>2. Handed = {} /\ Handed' = {}
    BY <1>2, <1>7, <2>1, StillNothingHanded
  <2>3. Delivery!GoesPast(polls[p].last)
    BY <1>2, <1>7, GoesOn DEF Handled
  <2>4. position \in {-1, (polls[p].place + 1) - 1}
    BY <1>2, ABatch DEF Latest
  <2>5. Delivery!PassOver(polls[p].place + 1, polls[p].last)
    BY <1>2, <1>6, <1>7, <2>2, <2>3, <2>4 DEF Delivery!PassOver, Delivery!Unsettled
  <2>6. polls[p].place + 1 \in 1 .. Len(written) /\ polls[p].last \in 1 .. Len(written)
    BY <1>2, <1>3, ABatch
  <2> QED BY <1>3, <1>6, <2>5, <2>6, ABatch, <1>2 DEF Delivery!Next
<1>8. CASE /\ upTo < polls[p].last
           /\ position' = IF upTo > polls[p].place THEN upTo ELSE position
           /\ Reaches(p, [polls[p] EXCEPT !.at = "calling", !.place = upTo])
  <2> DEFINE there == [polls[p] EXCEPT !.at = "calling", !.place = upTo]
  <2>1. there \in APoll /\ there.at = "calling"
    BY <1>4, TypesTogether DEF StreamInv, PollTypes, APoll, Stages
  <2>2. Handed = {} /\ Handed' = {}
    BY <1>2, <1>8, <2>1, StillNothingHanded
  <2>3. CASE upTo = polls[p].place
    <3>1. DoneWith' = DoneWith /\ position' = position
      BY <1>2, <1>6, <1>8, <2>3, ABatch
    <3> QED BY <1>2, <1>6, <2>2, <3>1 DEF Delivery!vars
  <2>4. CASE upTo > polls[p].place
    <3>1. position' = upTo /\ position \in {-1, (polls[p].place + 1) - 1}
      BY <1>2, <1>8, <2>4, ABatch DEF Latest
    <3>2. Delivery!PassOver(polls[p].place + 1, upTo)
      BY <1>2, <1>6, <2>2, <3>1 DEF Delivery!PassOver, Delivery!Unsettled, Delivery!GoesPast
    <3>3. polls[p].place + 1 \in 1 .. Len(written) /\ upTo \in 1 .. Len(written)
      BY <1>2, <1>4, <2>4, ABatch
    <3>4. polls[p].place + 1 <= upTo
      BY <1>2, <1>4, <2>4, ABatch
    <3> QED BY <1>6, <3>2, <3>3, <3>4 DEF Delivery!Next
  <2> QED BY <1>2, <1>4, <2>3, <2>4, ABatch
<1> QED BY <1>1, <1>7, <1>8 DEF Expires

LEMMA InvokesDelivers ==
    ASSUME DeliveryInv, NEW p \in Polls, Invokes(p)
    PROVE  Delivery!Next /\ OnlyWrittenFinish'
<1> USE DEF DeliveryInv
<1> DEFINE there == [polls[p] EXCEPT !.at = "handling"]
<1>1. UNCHANGED <<written, closed, position, fate>> /\ polls[p].at = "calling" /\ UnderWay(p)
    BY DEF Invokes, streamVars, progressVars, UnderWay
<1>2. polls[p] \in APoll /\ there \in APoll
    BY TypesTogether DEF StreamInv, PollTypes, APoll, Stages
<1>3. \A q \in Polls : q # p => polls[q].at = "over"
    BY <1>1, OthersAreOver DEF StreamInv
<1>4. Handed = {}
    BY <1>1, <1>3, NothingHanded
<1>5. polls'[p] = there /\ \A q \in Polls : q # p => polls'[q] = polls[q]
    BY <1>2, Reached, TypesTogether DEF Invokes, StreamInv
<1>6. polls'[p].at = "handling" /\ polls'[p].place = polls[p].place /\ polls'[p].last = polls[p].last
    BY <1>2, <1>5 DEF APoll
<1>7. Handed' = polls[p].place + 1 .. polls[p].last
  <2>1. {q \in Polls : polls'[q].at = "handling"} = {p}
    BY <1>3, <1>5, <1>6
  <2> QED BY <1>6, <2>1 DEF Handed, Batch
<1>8. DoneWith' = DoneWith /\ OnlyWrittenFinish'
    BY <1>1, DoneStands
<1>9. polls[p].place < polls[p].last
    BY <1>1 DEF StreamInv, PollsKnow, Knows
<1>10. position \in {-1, (polls[p].place + 1) - 1}
    BY <1>1, ABatch DEF Latest
<1>11. Delivery!HandOver(polls[p].place + 1, polls[p].last)
    BY <1>1, <1>4, <1>7, <1>8, <1>10 DEF Delivery!HandOver, Delivery!Unsettled
<1>12. /\ polls[p].place + 1 \in 1 .. Len(written) /\ polls[p].last \in 1 .. Len(written)
       /\ polls[p].place + 1 <= polls[p].last
    BY <1>1, <1>9, ABatch
<1> QED BY <1>8, <1>11, <1>12 DEF Delivery!Next

(* Every way a delivery comes out is an answer to the batch handed over.     *)
LEMMA Answered ==
    ASSUME DeliveryInv, NEW p \in Polls, Returns(p), OnlyWrittenFinish',
           NEW upTo \in polls[p].place .. polls[p].last,
           DoneWith' = DoneWith \cup (polls[p].place + 1 .. upTo),
           \/ upTo < polls[p].last /\ position' = upTo
           \/ upTo = polls[p].last /\ position' = polls[p].next
           \/ upTo = polls[p].place /\ position' = position
    PROVE  Delivery!Next
<1> USE DEF DeliveryInv
<1>1. polls[p].at = "handling" /\ UNCHANGED <<written, closed>>
    BY DEF Returns, streamVars
<1>2. Handed = polls[p].place + 1 .. polls[p].last
    BY <1>1, HandedBatch DEF StreamInv, Batch
<1>3. Handed' = {}
  <2>1. \A q \in Polls : polls'[q].at \notin Busy
    BY ReturnsKeeps
  <2> QED BY <2>1, NothingHandedThen DEF Busy
<1>4. polls[p].place < polls[p].last
    BY <1>1 DEF StreamInv, PollsKnow, Knows
<1>5. \/ upTo < polls[p].last /\ position' = upTo
      \/ upTo = polls[p].last /\ Delivery!GoesPast(polls[p].last)
      \/ upTo < polls[p].place + 1 /\ position' = position
  <2>1. position' = polls[p].next => Delivery!GoesPast(polls[p].last)
    BY <1>1, GoesOn
  <2>2. polls[p].place < polls[p].place + 1
    BY <1>1, ABatch
  <2> QED BY <2>1, <2>2
<1>6. Delivery!Answer(polls[p].place + 1, upTo, polls[p].last)
    BY <1>1, <1>2, <1>3, <1>5 DEF Delivery!Answer
<1>7. /\ polls[p].place + 1 \in 1 .. Len(written) /\ polls[p].last \in 1 .. Len(written)
      /\ polls[p].place + 1 <= polls[p].last
      /\ upTo \in (polls[p].place + 1) - 1 .. polls[p].last
    BY <1>1, <1>4, ABatch
<1> QED BY <1>6, <1>7 DEF Delivery!Next

LEMMA RefusedDelivers ==
    ASSUME DeliveryInv, NEW p \in Polls, Refused(p) PROVE Delivery!Next /\ OnlyWrittenFinish'
<1> USE DEF DeliveryInv
<1>1. /\ Returns(p) /\ polls[p].at = "handling"
      /\ UNCHANGED <<written, position, fate>>
    BY DEF Refused, Returns, progressVars, streamVars
<1>2. DoneWith' = DoneWith /\ OnlyWrittenFinish'
    BY <1>1, DoneStands
<1>3. /\ polls[p].place \in polls[p].place .. polls[p].last
      /\ polls[p].place + 1 .. polls[p].place = {}
    BY <1>1, ABatch
<1> QED BY <1>1, <1>2, <1>3, Answered

LEMMA TakesDelivers ==
    ASSUME DeliveryInv, NEW p \in Polls, Takes(p) PROVE Delivery!Next /\ OnlyWrittenFinish'
<1> USE DEF DeliveryInv
<1>1. /\ Returns(p) /\ polls[p].at = "handling" /\ UNCHANGED written
      /\ fate' = Fated(Batch(p), "handled") /\ position' = polls[p].next
    BY DEF Takes, Handled, Returns, streamVars
<1>2. Batch(p) \in SUBSET Records
    BY <1>1, ABatch DEF Batch, Records
<1>3. DoneWith' = DoneWith \cup (polls[p].place + 1 .. polls[p].last) /\ OnlyWrittenFinish'
    BY <1>1, <1>2, FatedIsDone DEF Batch
<1>4. polls[p].last \in polls[p].place .. polls[p].last
    BY <1>1, ABatch
<1> QED BY <1>1, <1>3, <1>4, Answered

LEMMA FailsDelivers ==
    ASSUME DeliveryInv, NEW p \in Polls, NEW failed \in Batch(p), NEW threw \in BOOLEAN, Fails(p, failed, threw)
    PROVE  Delivery!Next /\ OnlyWrittenFinish'
<1> USE DEF DeliveryInv
<1>1. /\ Returns(p) /\ polls[p].at = "handling" /\ UNCHANGED written
      /\ threw => failed = polls[p].place + 1
    BY DEF Fails, Returns, streamVars
<1>2. failed \in polls[p].place + 1 .. polls[p].last
    BY DEF Batch
<1>3. CASE GivesUp(p, failed)
  <2>1. position' = polls[p].next
    BY <1>3 DEF GivesUp, Handled
  <2>2. DoneWith' = DoneWith \cup (polls[p].place + 1 .. polls[p].last) /\ OnlyWrittenFinish'
    <3>1. /\ DOMAIN fate = 1 .. MaxRecords /\ Len(written) \in Nat /\ Len(written) <= MaxRecords
          /\ OnlyWrittenFinish
      BY TypesTogether DEF StreamInv, FateTypes, StreamTypes
    <3>2. \A r \in 1 .. MaxRecords : fate'[r] # "waiting" <=> (fate[r] # "waiting" \/ r \in Batch(p))
      BY <1>3, <3>1 DEF GivesUp, Fated
    <3>3. Records' = Records /\ Records \subseteq 1 .. MaxRecords
      BY <1>1, <3>1, Bounds DEF Records
    <3>4. Batch(p) \in SUBSET Records
      BY <1>1, ABatch DEF Batch, Records
    <3>5. DoneWith' = DoneWith \cup Batch(p)
      BY <3>2, <3>3, <3>4 DEF DoneWith
    <3>6. OnlyWrittenFinish'
      BY <1>1, <3>1, <3>2, <3>4 DEF OnlyWrittenFinish, Records
    <3> QED BY <3>5, <3>6 DEF Batch
  <2>3. polls[p].last \in polls[p].place .. polls[p].last
    BY <1>1, ABatch
  <2> QED BY <1>1, <2>1, <2>2, <2>3, Answered
<1>4. ASSUME NEW tries, TriesAgain(p, failed, threw, tries) PROVE Delivery!Next /\ OnlyWrittenFinish'
  <2>1. /\ position' = (IF threw THEN position ELSE failed - 1)
        /\ fate' = Fated(polls[p].place + 1 .. failed - 1, "handled")
    BY <1>4 DEF TriesAgain
  <2>2. failed \in Nat /\ polls[p].place < failed /\ failed <= polls[p].last
    BY <1>1, <1>2, ABatch
  <2>3. /\ polls[p].place + 1 .. failed - 1 \in SUBSET Records
        /\ failed - 1 \in polls[p].place .. polls[p].last /\ failed - 1 < polls[p].last
    BY <1>1, <2>2, ABatch DEF Records
  <2>4. DoneWith' = DoneWith \cup (polls[p].place + 1 .. failed - 1) /\ OnlyWrittenFinish'
    BY <1>1, <2>1, <2>3, FatedIsDone
  <2>5. threw => failed - 1 = polls[p].place
    BY <1>1, ABatch
  <2> QED BY <1>1, <2>1, <2>3, <2>4, <2>5, Answered
<1> QED BY <1>3, <1>4 DEF Fails

(* The steps that are no concern of the records.                             *)
LEMMA QuietSteps ==
    ASSUME DeliveryInv, TimePasses \/ Activate \/ Delete
    PROVE  UNCHANGED Delivery!vars /\ OnlyWrittenFinish'
<1>1. UNCHANGED <<written, closed, position, fate>> /\ UNCHANGED polls
    BY DEF TimePasses, Activate, Delete, streamVars, progressVars
<1> QED BY <1>1, StillHanded, Unmoved

LEMMA QuietPolls ==
    ASSUME DeliveryInv, NEW p \in Polls, TurnOver(p) \/ Locates(p) \/ GetsRecords(p)
    PROVE  UNCHANGED Delivery!vars /\ OnlyWrittenFinish'
<1>1. UNCHANGED <<written, closed, position, fate>> /\ polls[p].at \in {"ending", "locating", "reading"}
    BY DEF TurnOver, Locates, GetsRecords, streamVars, progressVars
<1>2. polls' \in [Polls -> APoll] /\ polls \in [Polls -> APoll]
  <2>1. StreamInv'
    BY TurnOverKeeps, LocatesKeeps, GetsRecordsKeeps DEF DeliveryInv
  <2>2. PollTypes /\ (StreamTypeOK' => PollTypes')
    BY TypesTogether DEF DeliveryInv, StreamInv, StreamTypeOK, PollTypes, APoll
  <2> QED BY <2>1, <2>2 DEF StreamInv, PollTypes
<1>3. polls'[p].at \in {"over", "reading", "read"} /\ Reaches(p, polls'[p])
  <2>1. polls[p] \in APoll
    BY <1>2
  <2>2. CASE TurnOver(p)
    BY <1>2, <2>2 DEF TurnOver, Reaches, NoPoll
  <2>3. CASE Locates(p)
    BY <1>2, <2>1, <2>3 DEF Locates, Reaches, APoll
  <2>4. CASE GetsRecords(p)
    <3>1. PICK there \in APoll : there.at = "read" /\ Reaches(p, there)
      <4> DEFINE upTo == IF polls[p].place + polls[p].size < Len(written)
                         THEN polls[p].place + polls[p].size ELSE Len(written)
                 drained == closed /\ upTo = Len(written)
                 there == [polls[p] EXCEPT !.at = "read", !.size = 0, !.last = upTo, !.drained = drained,
                                           !.next = IF drained THEN @ ELSE upTo]
      <4>1. Reaches(p, there)
        BY <2>4 DEF GetsRecords
      <4> HIDE DEF upTo, drained
      <4>2. there.at = "read"
        BY <2>1 DEF APoll
      <4> HIDE DEF there
      <4>3. polls'[p] = there
        BY <1>2, <4>1 DEF Reaches
      <4> QED BY <1>2, <4>1, <4>2, <4>3
    <3> QED BY <1>2, <3>1 DEF Reaches
  <2> QED BY <2>2, <2>3, <2>4
<1>4. Handed = {} /\ Handed' = {}
    BY <1>1, <1>2, <1>3, StillNothingHanded DEF DeliveryInv, UnderWay
<1> QED BY <1>1, <1>4, Unmoved

LEMMA StepDelivers ==
    ASSUME DeliveryInv, [Next]_vars PROVE [Delivery!Next]_(Delivery!vars) /\ OnlyWrittenFinish'
<1>1. CASE Next
  <2>1. ASSUME NEW p \in Polls, DeferredTurn(p) \/ ClockTurn(p)
        PROVE  UNCHANGED Delivery!vars /\ OnlyWrittenFinish'
    BY <2>1, TakesTurnDelivers DEF DeferredTurn, ClockTurn
  <2>2. ASSUME NEW p \in Polls, Poll(p) PROVE [Delivery!Next]_(Delivery!vars) /\ OnlyWrittenFinish'
    BY <2>2, QuietPolls, CatchesUpDelivers, ChecksAgeDelivers, InvokesDelivers, RefusedDelivers,
       TakesDelivers, FailsDelivers DEF Poll
  <2>3. CASE HostRuns
    BY <2>1, <2>2, <2>3, QuietSteps DEF HostRuns
  <2>4. CASE Write \/ Feeds
    BY <2>4, CapturesDelivers DEF Write, Feeds
  <2> QED BY <1>1, <2>3, <2>4, QuietSteps, DisableDelivers, CreateDelivers DEF Next
<1>2. CASE UNCHANGED vars
  <2>1. UNCHANGED <<written, closed, position, fate>> /\ UNCHANGED polls
    BY <1>2 DEF vars, streamVars, progressVars
  <2> QED BY <2>1, StillHanded, Unmoved
<1> QED BY <1>1, <1>2

LEMMA DeliveryInitial == Init => Delivery!Init /\ OnlyWrittenFinish
<1> SUFFICES ASSUME Init PROVE Delivery!Init /\ OnlyWrittenFinish
    OBVIOUS
<1>1. Len(written) = 0 /\ closed = FALSE /\ position = Latest
    BY DEF Init
<1>2. \A p \in Polls : polls[p].at # "handling"
    BY DEF Init, NoPoll
<1>3. Handed = {}
    BY <1>2, NothingHanded
<1>4. DoneWith = {}
    BY <1>1 DEF DoneWith, Records
<1>5. OnlyWrittenFinish
    BY DEF Init, OnlyWrittenFinish
<1> QED BY <1>1, <1>3, <1>4, <1>5 DEF Delivery!Init, Delivery!Unsettled, Latest

LEMMA DeliveryInvHolds == Spec => []DeliveryInv
<1>1. Init => DeliveryInv
    BY StreamInitial, DeliveryInitial DEF DeliveryInv
<1>2. DeliveryInv /\ [Next]_vars => DeliveryInv'
    BY StepKeeps, StepDelivers DEF DeliveryInv
<1> QED BY <1>1, <1>2, PTL DEF Spec

(* The turns, polls, retries, splits, expiries and refusals of a mapping     *)
(* deliver its shard in order, one batch at a time, past nothing it is not   *)
(* done with: the polls implement what InOrderDelivery promises.             *)
THEOREM StreamDeliversInOrder == Spec => DeliversInOrder
<1>1. Init => Delivery!Init
    BY DeliveryInitial
<1>2. DeliveryInv /\ [Next]_vars => [Delivery!Next]_(Delivery!vars)
    BY StepDelivers
<1> QED BY <1>1, <1>2, DeliveryInvHolds, PTL DEF Spec, Delivery!Spec, DeliversInOrder

-----------------------------------------------------------------------------
(* What that says of a mapping that starts at TRIM_HORIZON.                  *)

(* A mapping settles on a place later than LATEST at its creation only.      *)
LEMMA SettlesAtTheStart ==
    ASSUME StreamInv, [Next]_vars, ~settings.latest, position = Latest
    PROVE  position' \in {Latest, 0}
<1>1. mapping = "none"
    BY DEF StreamInv, SettlesOnce
<1>2. \A p \in Polls : polls[p].at \notin Busy
    BY <1>1 DEF StreamInv, PollsKnow, Knows
<1>3. CASE Next
  <2>1. CASE Create
    BY <2>1 DEF Create
  <2>2. CASE TimePasses \/ Write \/ Feeds \/ Disable \/ Delete
    BY <2>2 DEF TimePasses, Write, Feeds, Captures, Disable, Delete, progressVars
  <2>3. CASE HostRuns
    <3>1. ASSUME NEW p \in Polls, Poll(p) PROVE UNCHANGED position
      BY <1>2, <3>1 DEF Poll, TurnOver, Locates, GetsRecords, CatchesUp, ChecksAge, Invokes, Refused,
         Takes, Fails, Returns, Busy, progressVars
    <3>2. ASSUME NEW p \in Polls, DeferredTurn(p) \/ ClockTurn(p) PROVE UNCHANGED position
      BY <3>2 DEF DeferredTurn, ClockTurn, TakesTurn, progressVars
    <3> QED BY <2>3, <3>1, <3>2 DEF HostRuns, Activate, progressVars
  <2> QED BY <1>3, <2>1, <2>2, <2>3 DEF Next
<1>4. CASE UNCHANGED vars
    BY <1>4, SMTT(30) DEF vars, progressVars
<1> QED BY <1>3, <1>4

LEMMA SettingsStand == ASSUME [Next]_vars PROVE settings' = settings
BY ZenonT(60) DEF Next, TimePasses, Write, Feeds, Captures, Disable, Create, Delete, HostRuns, Activate, DeferredTurn,
       ClockTurn, TakesTurn, Poll, TurnOver, Locates, GetsRecords, CatchesUp, ChecksAge, Invokes, Refused,
       Takes, Fails, Returns, mappingVars, vars

(* A batch that the function has starts where the mapping is.                *)
LEMMA HandedFromThePlace ==
    ASSUME StreamInv, NEW first \in Nat, NEW last \in Nat, first <= last, Handed = first .. last
    PROVE  position \in {Latest, first - 1}
<1>1. PICK p \in Polls : polls[p].at = "handling"
  <2>1. first \in Handed
    OBVIOUS
  <2> QED BY <2>1 DEF Handed
<1>2. polls[p].place + 1 .. polls[p].last = first .. last
    BY <1>1, HandedBatch DEF StreamInv, Batch
<1>3. polls[p].place < polls[p].last
    BY <1>1 DEF StreamInv, PollsKnow, Knows
<1>4. polls[p].place + 1 \in first .. last /\ first \in polls[p].place + 1 .. polls[p].last
    BY <1>1, <1>2, <1>3, ABatch
<1>5. polls[p].place = first - 1
    BY <1>1, <1>4, ABatch
<1> QED BY <1>1, <1>5, ABatch

PastIsDone == ~settings.latest => \A r \in 1 .. Len(written) : r <= position => r \in DoneWith

LEMMA PastIsFinished == ASSUME StreamInv, PastIsDone PROVE PassesOnlyTheFinished
<1>1. Len(written) \in Nat /\ position \in Nat \cup {Latest}
    BY TypesTogether DEF StreamInv, StreamTypes, PositionType
<1>2. ASSUME ~settings.latest, NEW r \in Records, fate[r] = "waiting" PROVE r > position
  <2>1. r \notin DoneWith
    BY <1>2 DEF DoneWith
  <2>2. ~(r <= position)
    BY <1>2, <2>1 DEF PastIsDone, Records
  <2> QED BY <1>1, <2>2 DEF Records, Latest
<1> QED BY <1>2 DEF PassesOnlyTheFinished, Unfinished

LEMMA DeliveryPassesTheDone ==
    ASSUME DeliveryInv, [Next]_vars, [Delivery!Next]_(Delivery!vars), PastIsDone PROVE PastIsDone'
<1> SUFFICES ASSUME ~settings.latest PROVE \A r \in 1 .. Len(written') : r <= position' => r \in DoneWith'
    BY SettingsStand DEF PastIsDone
<1>1. /\ \A r \in 1 .. Len(written) : r <= position => r \in DoneWith
      /\ Len(written) \in Nat /\ position \in Nat \cup {Latest} /\ position <= Len(written)
      /\ position = Latest => position' \in {Latest, 0}
    BY SettlesAtTheStart, TypesTogether
       DEF DeliveryInv, StreamInv, StreamTypes, PositionType, PastIsDone, Latest
<1>2. CASE UNCHANGED Delivery!vars
    BY <1>1, <1>2 DEF Delivery!vars
<1>3. CASE Delivery!Arrive
    BY <1>1, <1>3 DEF Delivery!Arrive
<1>4. CASE Delivery!Close
    BY <1>1, <1>4 DEF Delivery!Close
<1>5. CASE \E somewhere \in 0 .. Len(written) : Delivery!SettleOn(somewhere)
    BY <1>1, <1>5 DEF Delivery!SettleOn, Delivery!Unsettled, Latest
<1>6. ASSUME NEW first \in 1 .. Len(written), NEW last \in 1 .. Len(written), first <= last,
             Delivery!PassOver(first, last)
      PROVE  \A r \in 1 .. Len(written') : r <= position' => r \in DoneWith'
  <2>1. /\ position \in {-1, first - 1} /\ DoneWith' = DoneWith \cup (first .. last)
        /\ Len(written') = Len(written)
        /\ position' = last \/ (position' \in -1 .. position)
    BY <1>6 DEF Delivery!PassOver, Delivery!GoesPast, Delivery!Unsettled
  <2> QED BY <1>1, <1>6, <2>1 DEF Latest
<1>7. ASSUME NEW first \in 1 .. Len(written), NEW last \in 1 .. Len(written), first <= last,
             Delivery!HandOver(first, last)
      PROVE  \A r \in 1 .. Len(written') : r <= position' => r \in DoneWith'
    BY <1>1, <1>7 DEF Delivery!HandOver
<1>8. ASSUME NEW first \in 1 .. Len(written), NEW last \in 1 .. Len(written), first <= last,
             NEW upTo \in first - 1 .. last, Delivery!Answer(first, upTo, last)
      PROVE  \A r \in 1 .. Len(written') : r <= position' => r \in DoneWith'
  <2>1. /\ DoneWith' = DoneWith \cup (first .. upTo) /\ Len(written') = Len(written)
        /\ \/ upTo < last /\ position' = upTo
           \/ upTo = last /\ (position' = last \/ position' \in -1 .. position)
           \/ upTo < first /\ position' = position
    BY <1>8 DEF Delivery!Answer, Delivery!GoesPast, Delivery!Unsettled
  <2>2. position \in {Latest, first - 1}
    BY <1>8, HandedFromThePlace DEF DeliveryInv, Delivery!Answer
  <2> QED BY <1>1, <1>8, <2>1, <2>2 DEF Latest
<1> QED BY <1>2, <1>3, <1>4, <1>5, <1>6, <1>7, <1>8 DEF Delivery!Next

(* A mapping that starts at TRIM_HORIZON never goes past a record the        *)
(* function did not take and that was not given up or too old.               *)
THEOREM PassesFinishedHolds == Spec => []PassesOnlyTheFinished
<1>1. Init => PastIsDone
    BY DEF Init, PastIsDone
<1>2. DeliveryInv /\ PastIsDone /\ [Next]_vars => PastIsDone'
    BY StepDelivers, DeliveryPassesTheDone
<1>3. DeliveryInv /\ PastIsDone => PassesOnlyTheFinished
    BY PastIsFinished DEF DeliveryInv
<1> QED BY <1>1, <1>2, <1>3, DeliveryInvHolds, PTL DEF Spec

=============================================================================
