------------------------- MODULE SimSqsPollerProofs -------------------------
(* Theorems about a consumer that polls one queue, for every batch size,     *)
(* every number of polls under way at once, and every set of queues.         *)
EXTENDS SimSqsPoller, SimSqsQueuesProofs

-----------------------------------------------------------------------------
(* Bags of instants.                                                         *)

LEMMA NoneIn == IsABag(EmptyBag) /\ BagToSet(EmptyBag) = {}
BY DEF EmptyBag, SetToBag, IsABag, BagToSet

LEMMA OneIn == ASSUME NEW i PROVE IsABag(SetToBag({i})) /\ BagToSet(SetToBag({i})) = {i}
BY DEF SetToBag, IsABag, BagToSet

LEMMA SomeIn == ASSUME NEW b, IsABag(b) PROVE b = EmptyBag <=> BagToSet(b) = {}
BY DEF EmptyBag, SetToBag, IsABag, BagToSet

LEMMA BothIn ==
    ASSUME NEW a, NEW b, IsABag(a), IsABag(b)
    PROVE  IsABag(a (+) b) /\ BagToSet(a (+) b) = BagToSet(a) \cup BagToSet(b)
BY DEF IsABag, BagToSet, (+)

LEMMA AllButOneIn ==
    ASSUME NEW a, IsABag(a), NEW i
    PROVE  /\ IsABag(a (-) SetToBag({i})) /\ BagToSet(a (-) SetToBag({i})) \subseteq BagToSet(a)
           /\ BagToSet(a) \ {i} \subseteq BagToSet(a (-) SetToBag({i}))
BY DEF SetToBag, IsABag, BagToSet, (-)

-----------------------------------------------------------------------------
(* The inductive invariant.                                                  *)

Handed == [copy : 1 .. MaxCopies, receive : Nat]

PollStates ==
    [at : Stages, onClock : BOOLEAN, timeout : Nat, batch : SUBSET Handed, handled : SUBSET Handed]

BatchOf(p) ==
    /\ poll[p].handled \subseteq poll[p].batch
    /\ poll[p].batch # {} <=> poll[p].at \in {"handling", "deleting"}
    /\ \A handle \in poll[p].batch :
         handle.copy \in DOMAIN copies /\ handle.receive <= copies[handle.copy].receives

PollsTyped == poll \in [Polls -> PollStates] /\ \A p \in Polls : BatchOf(p)

TurnsTyped == scheduled \in BOOLEAN /\ IsABag(turns) /\ BagToSet(turns) \subseteq Nat

(* Nothing is scheduled, heard or polled before there is a consumer.         *)
ConsumerTyped ==
    /\ consumer \in {"none", "creating", "ready", "stopped"}
    /\ consumer = "none" => ~scheduled /\ turns = EmptyBag /\ heard = {} /\ \A p \in Polls : ~UnderWay(p)

(* What it has had word of is the queue's for as long as a queue holds it.   *)
HeardHere == heard \subseteq DOMAIN copies /\ \A k \in heard : copies[k].held => copies[k].queue = Polled

ReturnedTyped == returned \in [1 .. MaxCopies -> -1 .. MaxTime]

NoneReturned == \A k \in 1 .. MaxCopies : returned[k] < 0

(* A batch that is deleted in part was given back in part.                   *)
PartIsReturned ==
    NoneReturned => \A p \in Polls : poll[p].at = "deleting" => poll[p].handled = poll[p].batch

WillReceive(p) == poll[p].at \in {"asking", "receiving"}

(* A poll that has still to receive finds what the queue holds, or else      *)
(* schedules a turn for it.                                                  *)
NeverAsleep ==
    consumer = "ready" /\ HeldBy(Polled, copies) # {}
      => scheduled \/ turns # EmptyBag \/ \E p \in Polls : WillReceive(p)

(* And so does one whose batch was full, once it has been handled.           *)
WillPoll(p) == WillReceive(p) \/ (UnderWay(p) /\ Cardinality(poll[p].batch) >= BatchSize)

TurnDue == scheduled \/ \E i \in BagToSet(turns) : i <= now

NoneLeftWaiting ==
    consumer = "ready" /\ NoneReturned /\ Receivable(Polled, copies) \cap heard # {}
      => TurnDue \/ \E p \in Polls : WillPoll(p)

PollerTyped ==
    /\ SqsInv /\ DOMAIN copies \subseteq 1 .. MaxCopies
    /\ PollsTyped /\ TurnsTyped /\ ConsumerTyped /\ HeardHere /\ ReturnedTyped

PollerInv ==
    /\ PollerTyped
    /\ StopLeavesNothingScheduled /\ PolledWhenItComesBack
    /\ PartIsReturned /\ NeverAsleep /\ NoneLeftWaiting

LEMMA PollerBounds == Polled \in Names /\ BatchSize \in Nat \ {0} /\ MaxCopies \in Nat /\ MaxTime \in Nat
BY PollerAssumption, Bounds DEF PollerAssumption

-----------------------------------------------------------------------------
(* What becomes of the copies in a step that hides some of them.             *)

Follows(hidden) ==
    /\ SqsInv' /\ DOMAIN copies \subseteq DOMAIN copies' /\ DOMAIN copies' \subseteq 1 .. MaxCopies
    /\ \A k \in DOMAIN copies :
         /\ copies[k].receives <= copies'[k].receives
         /\ copies'[k].held => copies[k].held /\ copies'[k].queue = copies[k].queue
         /\ copies'[k].held /\ copies'[k].queue = Polled /\ k \notin hidden
              => copies'[k].visibleFrom = copies[k].visibleFrom
    /\ hidden \subseteq DOMAIN copies' /\ \A k \in hidden : copies'[k].queue = Polled
    /\ UNCHANGED now \/ (now' = now + 1 /\ hidden = {} /\ UNCHANGED copies)

LEMMA BoundedBy ==
    ASSUME NEW all \in Seq(Copies), Len(all) <= MaxCopies PROVE DOMAIN all \subseteq 1 .. MaxCopies
<1>1. DOMAIN all = 1 .. Len(all) /\ Len(all) \in Nat /\ MaxCopies \in Nat
    BY PollerBounds
<1> QED BY <1>1

(* The queues were brought up to date first, then the request itself hid     *)
(* what it hid.                                                              *)
LEMMA RequestFollows ==
    ASSUME PollerTyped, SqsInv', NEW all, Sound(all), Renews(copies, all),
           DOMAIN all \subseteq DOMAIN copies', Len(copies') <= MaxCopies, UNCHANGED now,
           NEW hidden \in SUBSET DOMAIN copies', \A k \in hidden : copies'[k].queue = Polled,
           \A k \in DOMAIN all :
             /\ all[k].receives <= copies'[k].receives
             /\ copies'[k].held => all[k].held /\ copies'[k].queue = all[k].queue
             /\ copies'[k].held /\ copies'[k].queue = Polled /\ k \notin hidden
                  => copies'[k].visibleFrom = all[k].visibleFrom
    PROVE  Follows(hidden)
<1>1. DOMAIN copies \subseteq DOMAIN all
    BY DEF Renews
<1>2. DOMAIN copies' \subseteq 1 .. MaxCopies
    BY BoundedBy DEF SqsInv, Sound
<1>3. ASSUME NEW k \in DOMAIN copies
      PROVE  /\ all[k].receives = copies[k].receives /\ all[k].queue = copies[k].queue
             /\ all[k].visibleFrom = copies[k].visibleFrom
             /\ all[k].held => copies[k].held
  <2>1. copies[k] \in Copies
    BY Copied DEF PollerTyped, SqsInv, Sound
  <2>2. all[k] = [copies[k] EXCEPT !.held = all[k].held]
    BY DEF Renews
  <2>3. all[k].held => copies[k].held
    BY DEF Renews
  <2> QED BY <2>1, <2>2, <2>3, SameCopy
<1> QED BY <1>1, <1>2, <1>3 DEF Follows

LEMMA StandingFollows == ASSUME PollerTyped, SqsInv', UNCHANGED <<now, copies>> PROVE Follows({})
<1>1. \A k \in DOMAIN copies : copies[k].receives \in Nat
    BY Copied DEF PollerTyped, SqsInv, Sound
<1> QED BY <1>1 DEF Follows, PollerTyped

LEMMA TimeFollows == ASSUME PollerTyped, TimePasses PROVE Follows({})
<1>1. \A k \in DOMAIN copies : copies[k].receives \in Nat
    BY Copied DEF PollerTyped, SqsInv, Sound
<1>2. SqsInv'
    BY TimePassesKeeps DEF PollerTyped
<1> QED BY <1>1, <1>2 DEF Follows, PollerTyped, TimePasses

LEMMA LettingGoFollows ==
    ASSUME PollerTyped, SqsInv', NEW all, Sound(all), Renews(copies, all), NEW gone, Answer(Without(gone, all))
    PROVE  Follows({}) /\ \A k \in DOMAIN copies' : ~HandsOut(k)
<1> DEFINE next == Without(gone, all)
<1>1. copies' = next /\ Len(copies') <= MaxCopies /\ UNCHANGED now
    BY DEF Answer
<1>3. \A k \in DOMAIN copies' : ~HandsOut(k)
    BY WithoutHandsOutNothing DEF Answer, PollerTyped
<1>6. next = Without(gone, all)
    OBVIOUS
<1> HIDE DEF next
<1>2. DOMAIN next = DOMAIN all
    BY <1>6, WithoutIsSound
<1>7. \A k \in DOMAIN all : next[k].held => all[k].held
    BY <1>6, WithoutIsSound
<1>8. \A k \in DOMAIN all : all[k] \in Copies /\ next[k] = [all[k] EXCEPT !.held = next[k].held]
    BY <1>6, WithoutIsSound
<1>9. ASSUME NEW k \in DOMAIN all
      PROVE  /\ next[k].queue = all[k].queue /\ next[k].visibleFrom = all[k].visibleFrom
             /\ next[k].receives = all[k].receives
  <2>1. all[k] \in Copies /\ next[k] = [all[k] EXCEPT !.held = next[k].held]
    BY <1>8
  <2> QED BY <2>1, SameCopy
<1>4. \A k \in DOMAIN all : all[k].receives \in Nat
    BY Copied DEF Sound
<1>5. Follows({})
    BY <1>1, <1>2, <1>4, <1>7, <1>9, RequestFollows
<1> QED BY <1>3, <1>5

LEMMA BringingUpToDateFollows ==
    ASSUME PollerTyped, SqsInv', Keeps(UpToDate) PROVE Follows({}) /\ \A k \in DOMAIN copies' : ~HandsOut(k)
<1>1. Sound(UpToDate) /\ Renews(copies, UpToDate) /\ UpToDate \in Seq(Copies)
    BY CopiesUpToDate DEF PollerTyped, Sound
<1>2. Without({}, UpToDate) = UpToDate
    BY <1>1, WithoutNothing
<1> QED BY <1>1, <1>2, LettingGoFollows DEF Keeps

LEMMA LookFollows == ASSUME PollerTyped, Look PROVE Follows({})
<1>1. SqsInv'
    BY LookKeeps DEF PollerTyped
<1> QED BY <1>1, BringingUpToDateFollows DEF Look

LEMMA DeleteQueueFollows == ASSUME PollerTyped, NEW q \in Names, DeleteQueue(q) PROVE Follows({})
<1>1. SqsInv' /\ Sound(UpToDate) /\ Renews(copies, UpToDate)
    BY DeleteQueueKeeps, CopiesUpToDate DEF PollerTyped
<1>2. copies' = Forgotten(q, UpToDate) /\ Len(copies') <= MaxCopies /\ UNCHANGED now
    BY DEF DeleteQueue, Answer
<1>3. \A k \in DOMAIN UpToDate : UpToDate[k] \in Copies /\ UpToDate[k].receives \in Nat
    BY <1>1, Copied DEF Sound
<1>4. /\ DOMAIN copies' = DOMAIN UpToDate
      /\ \A k \in DOMAIN UpToDate :
           /\ copies'[k].receives = UpToDate[k].receives
           /\ copies'[k].held => UpToDate[k].held /\ UpToDate[k].queue # q /\ copies'[k].queue = UpToDate[k].queue
    BY <1>1, <1>2, ForgottenIsSound
<1>5. \A k \in DOMAIN UpToDate : UpToDate[k].queue # q => copies'[k] = UpToDate[k]
    BY <1>2 DEF Forgotten
<1> QED BY <1>1, <1>2, <1>3, <1>4, <1>5, RequestFollows

LEMMA SendMessageFollows ==
    ASSUME PollerTyped, NEW q \in Names, NEW delay \in Delays, SendMessage(q, delay) PROVE Follows({})
<1>1. SqsInv' /\ Sound(UpToDate) /\ Renews(copies, UpToDate)
    BY SendMessageKeeps, CopiesUpToDate DEF PollerTyped
<1>2. /\ copies' = Append(UpToDate, Sent(q, delay)) /\ Len(copies') <= MaxCopies /\ UNCHANGED now
      /\ DOMAIN copies' = 1 .. Len(UpToDate) + 1
    BY SentIsACopy DEF SendMessage, Keeps, Answer, Sent, PollerTyped
<1>3. UpToDate \in Seq(Copies) /\ \A k \in DOMAIN UpToDate : UpToDate[k].receives \in Nat
    BY <1>1, Copied DEF Sound
<1>4. DOMAIN UpToDate \subseteq DOMAIN copies' /\ \A k \in DOMAIN UpToDate : copies'[k] = UpToDate[k]
    BY <1>2, <1>3
<1> QED BY <1>1, <1>2, <1>3, <1>4, RequestFollows

LEMMA DeleteMessageFollows ==
    ASSUME PollerTyped, NEW q \in Names, NEW handle \in Handles(q), DeleteMessage(q, handle) PROVE Follows({})
<1> DEFINE all == QueueUpToDate(q, UpToDate)
<1>1. SqsInv' /\ Sound(all) /\ Renews(copies, all)
    BY DeleteMessageKeeps, AskedIsUpToDate DEF PollerTyped
<1>2. PICK gone : Answer(Without(gone, all))
    BY DEF DeleteMessage
<1> HIDE DEF all
<1> QED BY <1>1, <1>2, LettingGoFollows

LEMMA ChangeVisibilityFollows ==
    ASSUME PollerTyped, NEW q \in Names, NEW handle \in Handles(q), NEW timeout \in Timeouts,
           ChangeMessageVisibility(q, handle, timeout)
    PROVE  Follows(IF q = Polled THEN {handle.copy} ELSE {})
<1> DEFINE all == QueueUpToDate(q, UpToDate)
           hidden == IF q = Polled THEN {handle.copy} ELSE {}
<1>1. SqsInv' /\ Sound(all) /\ Renews(copies, all)
    BY ChangeVisibilityKeeps, AskedIsUpToDate DEF PollerTyped
<1>2. /\ Sound(copies') /\ DOMAIN copies' = DOMAIN all /\ UNCHANGED now
      /\ \A k \in DOMAIN all :
           /\ copies'[k].held = all[k].held /\ copies'[k].queue = all[k].queue
           /\ copies'[k].receives = all[k].receives
           /\ k # handle.copy => copies'[k] = all[k]
    BY ChangeVisibilityIs DEF PollerTyped
<1>3. Len(all) <= MaxCopies
    BY DEF ChangeMessageVisibility
<1>4. handle.copy \in DOMAIN copies /\ copies[handle.copy].queue = q
    BY DEF Handles
<1> HIDE DEF all
<1>5. all \in Seq(Copies) /\ copies' \in Seq(Copies) /\ \A k \in DOMAIN all : all[k].receives \in Nat
    BY <1>1, <1>2, Copied DEF Sound
<1>6. Len(copies') <= MaxCopies
    BY <1>2, <1>3, <1>5
<1>7. handle.copy \in DOMAIN all /\ all[handle.copy].queue = q
  <2>1. copies[handle.copy] \in Copies
    BY <1>4, Copied DEF PollerTyped, SqsInv, Sound
  <2>2. handle.copy \in DOMAIN all /\ all[handle.copy] = [copies[handle.copy] EXCEPT !.held = all[handle.copy].held]
    BY <1>1, <1>4 DEF Renews
  <2> QED BY <1>4, <2>1, <2>2, SameCopy
<1>8. hidden \in SUBSET DOMAIN copies' /\ \A k \in hidden : copies'[k].queue = Polled
    BY <1>2, <1>7
<1>9. ASSUME NEW k \in DOMAIN all
      PROVE  /\ all[k].receives <= copies'[k].receives
             /\ copies'[k].held => all[k].held /\ copies'[k].queue = all[k].queue
             /\ copies'[k].held /\ copies'[k].queue = Polled /\ k \notin hidden
                  => copies'[k].visibleFrom = all[k].visibleFrom
    BY <1>2, <1>5, <1>7
<1> HIDE DEF hidden
<1>10. Follows(hidden)
    BY <1>1, <1>2, <1>6, <1>8, <1>9, RequestFollows
<1> QED BY <1>10 DEF hidden

(* Only a receive from the queue itself takes anything there.                *)
LEMMA TakenFromIt ==
    ASSUME PollerTyped, NEW q \in Names, NEW limit, NEW timeout \in Timeouts, ReceiveMessage(q, limit, timeout)
    PROVE  TakenHere = IF q = Polled THEN Taken(q, limit) ELSE {}
<1> DEFINE all == QueueUpToDate(q, UpToDate)
<1>1. SqsInv /\ Sound(all) /\ Renews(copies, all)
    BY AskedIsUpToDate DEF PollerTyped
<1>2. /\ DOMAIN copies' = DOMAIN all
      /\ \A k \in DOMAIN all : k \in Taken(q, limit) => copies'[k].receives = all[k].receives + 1
    BY <1>1, ReceiveIs
<1> HIDE DEF all
<1>3. ASSUME NEW k \in Taken(q, limit) PROVE k \in DOMAIN copies' /\ copies'[k].queue = q /\ HandsOut(k)
  <2>1. k \in DOMAIN copies' /\ copies'[k].queue = q
    BY <1>1, HandedOutIs
  <2>2. copies'[k].receives = all[k].receives + 1 /\ all[k].receives \in Nat
    BY <1>1, <1>2, <2>1, Copied DEF Sound
  <2>3. CASE k \in DOMAIN copies
    <3>1. copies[k] \in Copies
      BY <1>1, <2>3, Copied DEF SqsInv, Sound
    <3>2. all[k] = [copies[k] EXCEPT !.held = all[k].held]
      BY <1>1, <2>3 DEF Renews
    <3>3. all[k].receives = copies[k].receives
      BY <3>1, <3>2, SameCopy
    <3> QED BY <2>1, <2>2, <2>3, <3>3 DEF HandsOut
  <2>4. CASE k \notin DOMAIN copies
    BY <2>1, <2>2, <2>4 DEF HandsOut
  <2> QED BY <2>1, <2>3, <2>4
<1>4. \A k \in DOMAIN copies' : HandsOut(k) => k \in Taken(q, limit)
    BY <1>1, OnlyTheTakenAreHandedOut
<1>5. CASE q = Polled
    BY <1>3, <1>4, <1>5 DEF TakenHere
<1>6. CASE q # Polled
    BY <1>3, <1>4, <1>6 DEF TakenHere
<1> QED BY <1>5, <1>6

LEMMA ReceiveFollows ==
    ASSUME PollerTyped, NEW q \in Names, NEW limit, NEW timeout \in Timeouts, ReceiveMessage(q, limit, timeout)
    PROVE  Follows(TakenHere)
<1> DEFINE all == QueueUpToDate(q, UpToDate)
<1>1. SqsInv' /\ Sound(all) /\ Renews(copies, all)
    BY ReceiveMessageKeeps, AskedIsUpToDate DEF PollerTyped
<1>2. /\ Sound(copies') /\ DOMAIN copies' = DOMAIN all /\ UNCHANGED now
      /\ \A k \in DOMAIN all :
           /\ copies'[k].held = all[k].held /\ copies'[k].queue = all[k].queue
           /\ copies'[k].receives = IF k \in Taken(q, limit) THEN all[k].receives + 1 ELSE all[k].receives
           /\ k \notin Taken(q, limit) => copies'[k] = all[k]
    BY ReceiveIs DEF PollerTyped
<1>3. Len(all) <= MaxCopies
    BY DEF ReceiveMessage
<1> HIDE DEF all
<1>4. all \in Seq(Copies) /\ copies' \in Seq(Copies) /\ \A k \in DOMAIN all : all[k].receives \in Nat
    BY <1>1, <1>2, Copied DEF Sound
<1>5. Len(copies') <= MaxCopies
    BY <1>2, <1>3, <1>4
<1>6. TakenHere = IF q = Polled THEN Taken(q, limit) ELSE {}
    BY TakenFromIt
<1>7. \A k \in Taken(q, limit) : k \in DOMAIN copies' /\ copies'[k].queue = q
    BY HandedOutIs DEF PollerTyped
<1>8. TakenHere \in SUBSET DOMAIN copies' /\ \A k \in TakenHere : copies'[k].queue = Polled
    BY DEF TakenHere
<1>9. ASSUME NEW k \in DOMAIN all
      PROVE  /\ all[k].receives <= copies'[k].receives
             /\ copies'[k].held => all[k].held /\ copies'[k].queue = all[k].queue
             /\ copies'[k].held /\ copies'[k].queue = Polled /\ k \notin TakenHere
                  => copies'[k].visibleFrom = all[k].visibleFrom
  <2>1. all[k].receives <= copies'[k].receives /\ copies'[k].held = all[k].held /\ copies'[k].queue = all[k].queue
    BY <1>2, <1>4
  <2>2. copies'[k].queue = Polled /\ k \notin TakenHere => copies'[k] = all[k]
    BY <1>2, <1>6, <1>7
  <2> QED BY <2>1, <2>2
<1> QED BY <1>1, <1>2, <1>5, <1>8, <1>9, RequestFollows

LEMMA NothingTaken ==
    ASSUME \A k \in DOMAIN copies' : ~HandsOut(k) PROVE TakenHere = {}
BY DEF TakenHere

(* What a request on the queues alone does.                                  *)
LEMMA RequestedFollows ==
    ASSUME PollerTyped, NEW q \in Names, Request(q) PROVE Follows(TakenHere)
<1>1. SqsInv'
    BY RequestKeeps DEF PollerTyped
<1>2. ASSUME NEW given \in Attributes(q), CreateQueue(q, given) PROVE Follows(TakenHere)
  <2>1. Follows({})
    BY <1>1, <1>2, StandingFollows DEF CreateQueue
  <2>2. TakenHere = {}
    BY <1>2, CopiesStandStill, NothingTaken DEF CreateQueue, PollerTyped
  <2> QED BY <2>1, <2>2
<1>3. ASSUME NEW given \in Attributes(q), SetQueueAttributes(q, given) PROVE Follows(TakenHere)
  <2>1. Follows({}) /\ \A k \in DOMAIN copies' : ~HandsOut(k)
    BY <1>1, <1>3, BringingUpToDateFollows DEF SetQueueAttributes
  <2> QED BY <2>1, NothingTaken
<1>4. ASSUME DeleteQueue(q) PROVE Follows(TakenHere)
  <2>1. \A k \in DOMAIN copies' : ~HandsOut(k)
    BY <1>4, DeleteQueueHandsOutNothing DEF PollerTyped
  <2> QED BY <1>4, <2>1, DeleteQueueFollows, NothingTaken
<1>5. ASSUME PurgeQueue(q) PROVE Follows(TakenHere)
  <2>1. Sound(UpToDate) /\ Renews(copies, UpToDate)
    BY CopiesUpToDate DEF PollerTyped
  <2>2. Follows({}) /\ \A k \in DOMAIN copies' : ~HandsOut(k)
    BY <1>1, <1>5, <2>1, LettingGoFollows DEF PurgeQueue
  <2> QED BY <2>2, NothingTaken
<1>6. ASSUME NEW delay \in Delays, SendMessage(q, delay) PROVE Follows(TakenHere)
  <2>1. \A k \in DOMAIN copies' : ~HandsOut(k)
    BY <1>6, SendMessageHandsOutNothing DEF PollerTyped
  <2> QED BY <1>6, <2>1, SendMessageFollows, NothingTaken
<1>7. ASSUME NEW handle \in Handles(q), DeleteMessage(q, handle) PROVE Follows(TakenHere)
  <2>1. \A k \in DOMAIN copies' : ~HandsOut(k)
    BY <1>7, DeleteMessageHandsOutNothing DEF PollerTyped
  <2> QED BY <1>7, <2>1, DeleteMessageFollows, NothingTaken
<1> QED BY <1>2, <1>3, <1>4, <1>5, <1>6, <1>7, ReceiveFollows DEF Request

(* What bringing queues up to date adds was moved there, and can be received.*)
LEMMA AddedAreMoved ==
    ASSUME PollerTyped, NEW all, Sound(all), Renews(copies, all), DOMAIN copies' = DOMAIN all,
           \A k \in DOMAIN all : /\ copies'[k].message = all[k].message
                                 /\ TakenHere = {} => copies'[k].visibleFrom = all[k].visibleFrom
    PROVE  MovedHere = AddedHere /\ (TakenHere = {} => \A k \in AddedHere : copies'[k].visibleFrom = now)
<1>1. Sound(copies)
    BY DEF PollerTyped, SqsInv
<1>2. ASSUME NEW k \in AddedHere PROVE copies'[k].message # k
  <2>1. k \in DOMAIN all \ DOMAIN copies
    BY <1>2 DEF AddedHere
  <2>2. PICK l \in DOMAIN copies : copies[l].message = all[k].message
    BY <2>1 DEF Renews
  <2>3. copies[l].message \in DOMAIN copies
    BY <1>1, <2>2 DEF Sound, Rooted
  <2> QED BY <2>1, <2>2, <2>3
<1>3. ASSUME NEW k \in AddedHere, TakenHere = {} PROVE copies'[k].visibleFrom = now
  <2>1. k \in DOMAIN all \ DOMAIN copies
    BY <1>3 DEF AddedHere
  <2>2. all[k].visibleFrom = now
    BY <2>1 DEF Renews
  <2> QED BY <1>3, <2>1, <2>2
<1> QED BY <1>2, <1>3 DEF MovedHere

-----------------------------------------------------------------------------
(* What is announced is polled for.                                          *)

(* Nothing that is scheduled is forgotten.                                   *)
Grows == (scheduled => scheduled') /\ BagToSet(turns) \subseteq BagToSet(turns')

LEMMA Scheduled ==
    ASSUME TurnsTyped, NEW soon \in BOOLEAN, NEW later, IsABag(later), BagToSet(later) \subseteq Nat,
           Schedules(soon, later)
    PROVE  /\ TurnsTyped' /\ Grows
           /\ consumer = "stopped" => UNCHANGED <<scheduled, turns>>
           /\ consumer # "stopped" => (soon => scheduled') /\ BagToSet(later) \subseteq BagToSet(turns')
<1>1. CASE consumer = "stopped"
    BY <1>1 DEF Schedules, TurnsTyped, Grows
<1>2. CASE consumer # "stopped"
  <2>1. scheduled' = (scheduled \/ soon) /\ turns' = turns (+) later
    BY <1>2 DEF Schedules
  <2>2. IsABag(turns') /\ BagToSet(turns') = BagToSet(turns) \cup BagToSet(later)
    BY <2>1, BothIn DEF TurnsTyped
  <2>3. scheduled' \in BOOLEAN
    BY <2>1 DEF TurnsTyped
  <2> QED BY <1>2, <2>1, <2>2, <2>3 DEF TurnsTyped, Grows
<1> QED BY <1>1, <1>2

LEMMA CountsAreABag ==
    ASSUME NEW n \in Nat, NEW numbers \in SUBSET (1 .. n), NEW when \in [numbers -> Nat]
    PROVE  LET instants == {when[k] : k \in numbers}
               counts == [i \in instants |-> Cardinality({k \in numbers : when[k] = i})]
           IN  IsABag(counts) /\ BagToSet(counts) = instants
<1> DEFINE instants == {when[k] : k \in numbers}
           those(i) == {k \in numbers : when[k] = i}
<1>1. IsFiniteSet(numbers)
  <2>1. IsFiniteSet(1 .. n)
    BY FS_Interval
  <2> QED BY <2>1, FS_Subset
<1>2. ASSUME NEW i \in instants PROVE Cardinality(those(i)) \in {c \in Nat : c > 0}
  <2>1. those(i) \subseteq numbers /\ those(i) # {}
    OBVIOUS
  <2> HIDE DEF those
  <2>2. IsFiniteSet(those(i))
    BY <1>1, <2>1, FS_Subset
  <2>3. Cardinality(those(i)) \in Nat /\ Cardinality(those(i)) # 0
    BY <2>1, <2>2, FS_CardinalityType, FS_EmptySet
  <2> QED BY <2>3
<1> HIDE DEF those
<1>3. [i \in instants |-> Cardinality(those(i))] \in [instants -> {c \in Nat : c > 0}]
    BY <1>2
<1> QED BY <1>3 DEF IsABag, BagToSet, those

LEMMA Announced ==
    ASSUME PollerTyped, NEW hidden, Follows(hidden), Announces(hidden)
    PROVE  /\ TurnsTyped' /\ Grows
           /\ ~IsWatching => UNCHANGED <<scheduled, turns>>
           /\ IsWatching => \A k \in hidden \cup AddedHere :
                IF copies'[k].visibleFrom > now THEN copies'[k].visibleFrom \in BagToSet(turns') ELSE scheduled'
<1> DEFINE numbers == hidden \cup AddedHere
           later == {k \in numbers : copies'[k].visibleFrom > now}
           when == [k \in later |-> copies'[k].visibleFrom]
           instants == {when[k] : k \in later}
           counts == [i \in instants |-> Cardinality({k \in later : when[k] = i})]
           soon == numbers # later \/ MovedHere # {}
<1>1. /\ numbers \subseteq DOMAIN copies' /\ DOMAIN copies' \subseteq 1 .. MaxCopies
      /\ \A k \in DOMAIN copies' : copies'[k].visibleFrom \in Nat
  <2>1. copies' \in Seq(Copies)
    BY DEF Follows, SqsInv, Sound, Copies
  <2>2. \A k \in DOMAIN copies' : copies'[k].visibleFrom \in Nat
    BY <2>1, Copied
  <2> QED BY <2>2 DEF Follows, AddedHere
<1>2. Tells(numbers)
    BY DEF Announces
<1>3. CASE ~IsWatching
    BY <1>2, <1>3 DEF Tells, PollerTyped, TurnsTyped, Grows
<1>4. CASE IsWatching
  <2>1. instants = {copies'[k].visibleFrom : k \in later}
    OBVIOUS
  <2>2. counts = [i \in {copies'[k].visibleFrom : k \in later} |->
                    Cardinality({k \in later : copies'[k].visibleFrom = i})]
    BY <2>1
  <2>3. Schedules(soon, counts)
    BY <1>2, <1>4, <2>2 DEF Tells
  <2>4. later \in SUBSET (1 .. MaxCopies) /\ when \in [later -> Nat] /\ MaxCopies \in Nat
    BY <1>1, PollerBounds
  <2>5. \A k \in later : when[k] = copies'[k].visibleFrom
    OBVIOUS
  <2>6. soon \in BOOLEAN /\ \A k \in numbers : ~(copies'[k].visibleFrom > now) => soon
    OBVIOUS
  <2>7. \A k \in numbers : copies'[k].visibleFrom > now => k \in later
    OBVIOUS
  <2>8. numbers = hidden \cup AddedHere
    OBVIOUS
  <2> HIDE DEF numbers, later, when, soon
  <2>9. IsABag(counts) /\ BagToSet(counts) = instants
    BY <2>4, CountsAreABag
  <2>10. instants \subseteq Nat
    BY <2>4
  <2> HIDE DEF counts
  <2>11. consumer # "stopped" /\ TurnsTyped
    BY <1>4 DEF IsWatching, PollerTyped
  <2>12. TurnsTyped' /\ Grows /\ (soon => scheduled') /\ instants \subseteq BagToSet(turns')
    BY <2>3, <2>6, <2>9, <2>10, <2>11, Scheduled
  <2>13. \A k \in later : copies'[k].visibleFrom \in BagToSet(turns')
    BY <2>5, <2>12
  <2> QED BY <1>4, <2>6, <2>7, <2>8, <2>12, <2>13
<1> QED BY <1>3, <1>4

(* A message the queue still holds was there, and comes back no other time.  *)
LEMMA StillThere ==
    ASSUME PollerTyped, NEW hidden, Follows(hidden), NEW k \in DOMAIN copies' \ (hidden \cup AddedHere),
           copies'[k].held, copies'[k].queue = Polled
    PROVE  /\ k \in DOMAIN copies /\ copies[k].held /\ copies[k].queue = Polled
           /\ copies'[k].visibleFrom = copies[k].visibleFrom
<1>1. k \in DOMAIN copies
    BY DEF AddedHere
<1> QED BY <1>1 DEF Follows

(* Its state is as it should be but for what a poll is up to.                *)
Wakes ==
    /\ TurnsTyped /\ ConsumerTyped /\ HeardHere
    /\ StopLeavesNothingScheduled /\ PolledWhenItComesBack

LEMMA WakesStand ==
    ASSUME PollerInv, NEW hidden, Follows(hidden), Sees(hidden), UNCHANGED consumer,
           TurnsTyped', Grows, ~IsWatching => UNCHANGED <<scheduled, turns>>,
           consumer = "none" => UNCHANGED poll,
           IsWatching => \A k \in hidden \cup AddedHere :
             copies'[k].visibleFrom > now => copies'[k].visibleFrom \in BagToSet(turns')
    PROVE  Wakes'
<1>1. PollerTyped /\ HeardHere /\ ConsumerTyped
    BY DEF PollerInv, PollerTyped
<1>2. heard' = IF IsWatching THEN heard \cup hidden \cup AddedHere ELSE heard \ hidden
    BY DEF Sees
<1>3. heard \subseteq DOMAIN copies /\ DOMAIN copies \subseteq DOMAIN copies'
    BY <1>1 DEF HeardHere, Follows
<1>4. /\ hidden \subseteq DOMAIN copies' /\ AddedHere \subseteq DOMAIN copies'
      /\ \A k \in hidden \cup AddedHere : copies'[k].queue = Polled
    BY DEF AddedHere, Follows
<1>5. heard' \subseteq DOMAIN copies'
    BY <1>2, <1>3, <1>4
<1>6. ASSUME NEW k \in heard', copies'[k].held PROVE copies'[k].queue = Polled
  <2>1. CASE k \in hidden \cup AddedHere
    BY <1>4, <2>1
  <2>2. CASE k \notin hidden \cup AddedHere
    <3>1. k \in heard /\ k \in DOMAIN copies
      BY <1>2, <1>3, <2>2
    <3>2. copies[k].held /\ copies'[k].queue = copies[k].queue
      BY <1>6, <3>1 DEF Follows
    <3> QED BY <1>1, <3>1, <3>2 DEF HeardHere
  <2> QED BY <2>1, <2>2
<1>7. HeardHere'
    BY <1>5, <1>6 DEF HeardHere
<1>8. ASSUME consumer = "none"
      PROVE  ~scheduled' /\ turns' = EmptyBag /\ heard' = {} /\ \A p \in Polls : ~UnderWay(p)'
  <2>1. ~IsWatching
    BY <1>8 DEF IsWatching
  <2>2. UNCHANGED <<scheduled, turns, poll>>
    BY <1>8, <2>1
  <2>3. ~scheduled /\ turns = EmptyBag /\ heard = {} /\ \A p \in Polls : ~UnderWay(p)
    BY <1>1, <1>8 DEF ConsumerTyped
  <2> QED BY <1>2, <2>1, <2>2, <2>3 DEF UnderWay
<1>9. ConsumerTyped'
    BY <1>1, <1>8 DEF ConsumerTyped
<1>10. StopLeavesNothingScheduled'
    BY DEF PollerInv, StopLeavesNothingScheduled, IsWatching
<1>11. ASSUME NEW k \in heard', IsWatching, copies'[k].held, ~(copies'[k].visibleFrom <= now')
       PROVE  copies'[k].visibleFrom \in BagToSet(turns')
  <2>1. k \in DOMAIN copies' /\ copies'[k].queue = Polled
    BY <1>5, <1>6, <1>11
  <2>2. copies'[k].visibleFrom \in Nat /\ now \in Nat
    <3>1. copies' \in Seq(Copies) /\ SqsInv
      BY <1>1 DEF Follows, SqsInv, Sound, Copies, PollerTyped
    <3> QED BY <2>1, <3>1, Copied, CopiesUpToDate
  <2>3. CASE k \in hidden \cup AddedHere
    <3>1. UNCHANGED now
      BY <2>3 DEF Follows, AddedHere
    <3> QED BY <1>11, <2>2, <2>3, <3>1
  <2>4. CASE k \notin hidden \cup AddedHere
    <3>1. k \in heard
      BY <1>2, <2>4
    <3>2. k \in DOMAIN copies /\ copies[k].held /\ copies'[k].visibleFrom = copies[k].visibleFrom
      BY <1>1, <1>11, <2>1, <2>4, StillThere
    <3>3. now' = now \/ now' = now + 1
      BY DEF Follows
    <3>4. ~(copies[k].visibleFrom <= now)
      BY <1>11, <2>2, <3>2, <3>3
    <3>5. BagIn(copies[k].visibleFrom, turns)
      BY <1>11, <3>1, <3>2, <3>4 DEF PollerInv, PolledWhenItComesBack, IsVisible
    <3> QED BY <3>2, <3>5 DEF BagIn, Grows
  <2> QED BY <2>3, <2>4
<1>12. PolledWhenItComesBack'
    BY <1>11 DEF PolledWhenItComesBack, IsVisible, BagIn, IsWatching
<1> QED BY <1>7, <1>9, <1>10, <1>12 DEF Wakes

(* A message the poller left is one it was going to come back to.            *)
LEMMA LeftIsAwaited ==
    ASSUME PollerInv, NEW hidden, Follows(hidden), Grows, consumer = "ready", NoneReturned,
           NEW k \in heard \ (hidden \cup AddedHere), k \in Receivable(Polled, copies)'
    PROVE  TurnDue' \/ \E p \in Polls : WillPoll(p)
<1>1. PollerTyped /\ k \in DOMAIN copies /\ k \in DOMAIN copies'
    BY DEF PollerInv, PollerTyped, HeardHere, Follows
<1>2. copies'[k].held /\ copies'[k].queue = Polled /\ copies'[k].visibleFrom <= now'
    BY DEF Receivable, HeldBy, IsVisible
<1>3. /\ copies[k].held /\ copies[k].queue = Polled
      /\ copies'[k].visibleFrom = copies[k].visibleFrom
    BY <1>1, <1>2, StillThere
<1>4. now \in Nat /\ (now' = now \/ now' = now + 1)
    BY <1>1, CopiesUpToDate DEF Follows, PollerTyped
<1>5. CASE copies[k].visibleFrom <= now
  <2>1. k \in Receivable(Polled, copies)
    BY <1>1, <1>3, <1>5 DEF Receivable, HeldBy, IsVisible
  <2>2. TurnDue \/ \E p \in Polls : WillPoll(p)
    BY <2>1 DEF PollerInv, NoneLeftWaiting
  <2>3. TurnDue => TurnDue'
    <3>1. \A i \in BagToSet(turns) : i \in Nat
      BY <1>1 DEF PollerTyped, TurnsTyped
    <3>2. \A i \in BagToSet(turns) : i <= now => i <= now'
      BY <1>4, <3>1
    <3> QED BY <3>2 DEF TurnDue, Grows
  <2> QED BY <2>2, <2>3
<1>6. CASE ~(copies[k].visibleFrom <= now)
  <2>1. BagIn(copies[k].visibleFrom, turns)
    BY <1>3, <1>6 DEF PollerInv, PolledWhenItComesBack, IsVisible, IsWatching
  <2>2. copies[k].visibleFrom \in BagToSet(turns') /\ copies[k].visibleFrom <= now'
    BY <1>2, <1>3, <2>1 DEF BagIn, Grows
  <2> QED BY <2>2 DEF TurnDue
<1> QED BY <1>5, <1>6

(* The queue has nothing new that nobody looks out for.                      *)
LEMMA HeldIsAwaited ==
    ASSUME PollerInv, NEW hidden, Follows(hidden), Grows, consumer = "ready",
           NEW k \in DOMAIN copies' \ (hidden \cup AddedHere), k \in HeldBy(Polled, copies)'
    PROVE  scheduled' \/ turns' # EmptyBag \/ \E p \in Polls : WillReceive(p)
<1>1. PollerTyped
    BY DEF PollerInv
<1>2. k \in HeldBy(Polled, copies)
    BY <1>1, StillThere DEF HeldBy
<1>3. scheduled \/ turns # EmptyBag \/ \E p \in Polls : WillReceive(p)
    BY <1>2 DEF PollerInv, NeverAsleep
<1>4. turns # EmptyBag => turns' # EmptyBag
    BY <1>1, SomeIn, NoneIn DEF PollerTyped, TurnsTyped, Grows
<1> QED BY <1>3, <1>4 DEF Grows

Announcing(hidden) == Follows(hidden) /\ Announces(hidden) /\ Sees(hidden) /\ UNCHANGED consumer

LEMMA AnnouncingKeeps ==
    ASSUME PollerInv, NEW hidden, Announcing(hidden), consumer = "none" => UNCHANGED poll
    PROVE  /\ Wakes'
           /\ consumer = "ready" /\ hidden # {} => scheduled' \/ turns' # EmptyBag
           /\ consumer = "ready" /\ HeldBy(Polled, copies)' # {}
                => scheduled' \/ turns' # EmptyBag \/ \E p \in Polls : WillReceive(p)
           /\ consumer = "ready" /\ NoneReturned /\ (Receivable(Polled, copies) \cap heard)' # {}
                => TurnDue' \/ \E p \in Polls : WillPoll(p)
<1> USE DEF Announcing
<1>1. PollerTyped
    BY DEF PollerInv
<1>2. /\ TurnsTyped' /\ Grows
      /\ ~IsWatching => UNCHANGED <<scheduled, turns>>
      /\ IsWatching => \A k \in hidden \cup AddedHere :
           IF copies'[k].visibleFrom > now THEN copies'[k].visibleFrom \in BagToSet(turns') ELSE scheduled'
    BY <1>1, Announced
<1>3. Wakes'
    BY <1>2, WakesStand
<1>4. ASSUME consumer = "ready", NEW k \in hidden \cup AddedHere PROVE scheduled' \/ turns' # EmptyBag
    BY <1>2, <1>4, NoneIn DEF IsWatching
<1>5. ASSUME consumer = "ready", NEW k \in HeldBy(Polled, copies)'
      PROVE  scheduled' \/ turns' # EmptyBag \/ \E p \in Polls : WillReceive(p)
  <2>1. k \in DOMAIN copies'
    BY <1>5 DEF HeldBy
  <2> QED BY <1>2, <1>4, <1>5, <2>1, HeldIsAwaited
<1>6. ASSUME consumer = "ready", NoneReturned, NEW k \in (Receivable(Polled, copies) \cap heard)'
      PROVE  TurnDue' \/ \E p \in Polls : WillPoll(p)
  <2>1. k \in Receivable(Polled, copies)' /\ k \in heard' /\ copies'[k].visibleFrom <= now'
    BY <1>6 DEF Receivable, IsVisible
  <2>2. CASE k \in hidden \cup AddedHere
    <3>1. UNCHANGED now
      BY <2>2 DEF Follows, AddedHere
    <3>2. now \in Nat /\ copies'[k].visibleFrom \in Nat
      <4>1. copies' \in Seq(Copies) /\ k \in DOMAIN copies'
        BY <2>1, <2>2 DEF Follows, SqsInv, Sound, Copies, AddedHere
      <4> QED BY <1>1, <4>1, Copied, CopiesUpToDate DEF PollerTyped
    <3>3. ~(copies'[k].visibleFrom > now)
      BY <2>1, <3>1, <3>2
    <3>4. scheduled'
      BY <1>2, <1>6, <2>2, <3>3 DEF IsWatching
    <3> QED BY <3>4 DEF TurnDue
  <2>3. CASE k \notin hidden \cup AddedHere
    <3>1. heard' = heard \cup hidden \cup AddedHere
      BY <1>6 DEF Sees, IsWatching
    <3>2. k \in heard \ (hidden \cup AddedHere)
      BY <2>1, <2>3, <3>1
    <3> QED BY <1>2, <1>6, <2>1, <3>2, LeftIsAwaited
  <2> QED BY <2>2, <2>3
<1> QED BY <1>3, <1>4, <1>5, <1>6

-----------------------------------------------------------------------------
(* What a poll is up to.                                                     *)

LEMMA BatchKept ==
    ASSUME PollerTyped, NEW hidden, Follows(hidden), NEW p \in Polls, NEW handle \in poll[p].batch
    PROVE  /\ handle \in Handed /\ handle.copy \in DOMAIN copies'
           /\ handle.receive <= copies'[handle.copy].receives
<1>1. poll[p] \in PollStates /\ BatchOf(p)
    BY DEF PollerTyped, PollsTyped
<1>2. handle \in Handed /\ handle.copy \in DOMAIN copies /\ handle.receive <= copies[handle.copy].receives
    BY <1>1 DEF PollStates, BatchOf
<1>3. handle.copy \in DOMAIN copies' /\ copies[handle.copy].receives <= copies'[handle.copy].receives
    BY <1>2 DEF Follows
<1>4. copies[handle.copy].receives \in Nat /\ copies'[handle.copy].receives \in Nat /\ handle.receive \in Nat
  <2>1. copies \in Seq(Copies) /\ copies' \in Seq(Copies)
    BY DEF PollerTyped, Follows, SqsInv, Sound, Copies
  <2> QED BY <1>2, <1>3, <2>1, Copied DEF Handed
<1> QED BY <1>2, <1>3, <1>4

LEMMA PollReaches ==
    ASSUME PollerTyped, NEW hidden, Follows(hidden), NEW p \in Polls, NEW there \in PollStates,
           poll' = [poll EXCEPT ![p] = there],
           there.handled \subseteq there.batch, there.batch # {} <=> there.at \in {"handling", "deleting"},
           \A handle \in there.batch :
             handle.copy \in DOMAIN copies' /\ handle.receive <= copies'[handle.copy].receives
    PROVE  PollsTyped' /\ poll'[p] = there /\ \A o \in Polls : o # p => poll'[o] = poll[o]
<1>1. poll \in [Polls -> PollStates] /\ \A o \in Polls : BatchOf(o)
    BY DEF PollerTyped, PollsTyped
<1>2. poll' \in [Polls -> PollStates] /\ poll'[p] = there /\ \A o \in Polls : o # p => poll'[o] = poll[o]
    BY <1>1
<1>3. BatchOf(p)'
    BY <1>2 DEF BatchOf
<1>4. ASSUME NEW o \in Polls, o # p PROVE BatchOf(o)'
  <2>1. poll'[o] = poll[o] /\ BatchOf(o)
    BY <1>1, <1>2, <1>4
  <2>2. \A handle \in poll[o].batch :
          handle.copy \in DOMAIN copies' /\ handle.receive <= copies'[handle.copy].receives
    BY BatchKept
  <2> QED BY <2>1, <2>2 DEF BatchOf
<1> QED BY <1>2, <1>3, <1>4 DEF PollsTyped

LEMMA PollsStand ==
    ASSUME PollerTyped, NEW hidden, Follows(hidden), UNCHANGED poll PROVE PollsTyped'
<1>1. poll \in [Polls -> PollStates] /\ \A o \in Polls : BatchOf(o)
    BY DEF PollerTyped, PollsTyped
<1>2. ASSUME NEW o \in Polls PROVE BatchOf(o)'
  <2>1. \A handle \in poll[o].batch :
          handle.copy \in DOMAIN copies' /\ handle.receive <= copies'[handle.copy].receives
    BY BatchKept
  <2> QED BY <1>1, <2>1 DEF BatchOf
<1> QED BY <1>1, <1>2 DEF PollsTyped

LEMMA APollState ==
    ASSUME NEW state \in PollStates
    PROVE  /\ state.at \in Stages /\ state.onClock \in BOOLEAN /\ state.timeout \in Nat
           /\ state.batch \subseteq Handed /\ state.handled \subseteq Handed
BY DEF PollStates

LEMMA NoPollIsOne == NoPoll \in PollStates /\ NoPoll.batch = {} /\ NoPoll.handled = {} /\ NoPoll.at = "over"
BY DEF NoPoll, PollStates, Stages

LEMMA PollerThen ==
    ASSUME NEW hidden, Follows(hidden), PollsTyped', Wakes', ReturnedTyped', PartIsReturned',
           NeverAsleep', NoneLeftWaiting'
    PROVE  PollerInv'
BY DEF Follows, Wakes, PollerInv, PollerTyped

LEMMA ReturnedStands ==
    ASSUME PollerInv, UNCHANGED returned, \A p \in Polls : poll'[p] = poll[p] \/ poll'[p].at # "deleting"
    PROVE  ReturnedTyped' /\ PartIsReturned' /\ (NoneReturned' <=> NoneReturned)
BY DEF PollerInv, PollerTyped, ReturnedTyped, PartIsReturned, NoneReturned

(* Everybody else.                                                           *)
LEMMA OthersKeep == ASSUME PollerInv, Others PROVE PollerInv'
<1>1. PollerTyped /\ UNCHANGED <<consumer, poll, returned>>
    BY DEF Others, PollerInv
<1>2. ASSUME NEW hidden, Announcing(hidden) PROVE PollerInv'
  <2>1. Follows(hidden)
    BY <1>2 DEF Announcing
  <2>2. PollsTyped'
    BY <1>1, <2>1, PollsStand
  <2>3. ReturnedTyped' /\ PartIsReturned' /\ (NoneReturned' <=> NoneReturned)
    BY <1>1, ReturnedStands
  <2>4. \A p \in Polls : (WillReceive(p)' <=> WillReceive(p)) /\ (WillPoll(p)' <=> WillPoll(p))
    BY <1>1 DEF WillReceive, WillPoll, UnderWay
  <2>5. NeverAsleep' /\ NoneLeftWaiting' /\ Wakes'
    BY <1>1, <1>2, <2>3, <2>4, AnnouncingKeeps DEF NeverAsleep, NoneLeftWaiting
  <2> QED BY <2>1, <2>2, <2>3, <2>5, PollerThen
<1>3. CASE (TimePasses \/ Look \/ \E q \in Names : Request(q)) /\ Announces(TakenHere) /\ Sees(TakenHere)
  <2>1. TimePasses => TakenHere = {}
    BY <1>1, CopiesStandStill, NothingTaken DEF TimePasses, PollerTyped
  <2>2. Look => TakenHere = {}
    BY <1>1, UpToDateHandsOutNothing, NothingTaken DEF Look, Keeps, Answer, PollerTyped
  <2>3. Follows(TakenHere)
    BY <1>1, <1>3, <2>1, <2>2, TimeFollows, LookFollows, RequestedFollows
  <2> QED BY <1>1, <1>2, <1>3, <2>3 DEF Announcing
<1>4. CASE \E q \in Names : \E handle \in Handles(q), timeout \in Timeouts :
             /\ ChangeMessageVisibility(q, handle, timeout)
             /\ LET hidden == IF q = Polled THEN {handle.copy} ELSE {}
                IN  Announces(hidden) /\ Sees(hidden)
  <2>1. PICK q \in Names : \E handle \in Handles(q), timeout \in Timeouts :
             /\ ChangeMessageVisibility(q, handle, timeout)
             /\ LET hidden == IF q = Polled THEN {handle.copy} ELSE {}
                IN  Announces(hidden) /\ Sees(hidden)
    BY <1>4
  <2>2. PICK handle \in Handles(q), timeout \in Timeouts :
             /\ ChangeMessageVisibility(q, handle, timeout)
             /\ LET hidden == IF q = Polled THEN {handle.copy} ELSE {}
                IN  Announces(hidden) /\ Sees(hidden)
    BY <2>1
  <2> DEFINE hidden == IF q = Polled THEN {handle.copy} ELSE {}
  <2>3. Announces(hidden) /\ Sees(hidden)
    BY <2>2
  <2>4. Follows(hidden)
    BY <1>1, <2>2, ChangeVisibilityFollows
  <2> HIDE DEF hidden
  <2> QED BY <1>1, <1>2, <2>3, <2>4 DEF Announcing
<1> QED BY <1>3, <1>4 DEF Others

(* A poll that asks goes on to receive.                                      *)
LEMMA AsksKeeps == ASSUME PollerInv, NEW p \in Polls, Asks(p) PROVE PollerInv'
<1>1. PollerTyped /\ poll[p].at = "asking" /\ Look /\ Announces({}) /\ Sees({}) /\ UNCHANGED returned
    BY DEF Asks, PollerInv
<1>2. PICK timeout \in Timeouts : Reaches(p, [poll[p] EXCEPT !.at = "receiving", !.timeout = timeout])
    BY DEF Asks
<1> DEFINE there == [poll[p] EXCEPT !.at = "receiving", !.timeout = timeout]
<1>3. poll' = [poll EXCEPT ![p] = there] /\ UNCHANGED consumer
    BY <1>2 DEF Reaches
<1>4. Follows({}) /\ Announcing({})
    BY <1>1, <1>3, LookFollows DEF Announcing
<1>5. poll[p] \in PollStates /\ BatchOf(p) /\ timeout \in Nat
    BY <1>1, Bounds DEF PollerTyped, PollsTyped
<1>6. /\ there \in PollStates /\ there.at = "receiving"
      /\ there.batch = poll[p].batch /\ there.handled = poll[p].handled
    BY <1>5 DEF PollStates, Stages
<1>7. there.batch = {} /\ there.handled = {}
    BY <1>1, <1>5, <1>6 DEF BatchOf
<1> HIDE DEF there
<1>8. PollsTyped' /\ poll'[p] = there /\ \A o \in Polls : o # p => poll'[o] = poll[o]
    BY <1>1, <1>3, <1>4, <1>6, <1>7, PollReaches
<1>9. ReturnedTyped' /\ PartIsReturned' /\ (NoneReturned' <=> NoneReturned)
  <2>1. \A o \in Polls : poll'[o] = poll[o] \/ poll'[o].at # "deleting"
    BY <1>6, <1>8
  <2> QED BY <1>1, <2>1, ReturnedStands
<1>10. WillReceive(p)'
    BY <1>6, <1>8 DEF WillReceive
<1>11. consumer = "none" => UNCHANGED poll
    BY <1>1 DEF PollerTyped, ConsumerTyped, UnderWay
<1>12. NeverAsleep' /\ NoneLeftWaiting' /\ Wakes'
  <2>1. Wakes'
    BY <1>4, <1>11, AnnouncingKeeps
  <2>2. WillPoll(p)'
    BY <1>10 DEF WillPoll
  <2> QED BY <1>10, <2>1, <2>2 DEF NeverAsleep, NoneLeftWaiting
<1> QED BY <1>4, <1>8, <1>9, <1>12, PollerThen

(* A poll that is over is none that anything counts on.                      *)
LEMMA OverLeaves ==
    ASSUME PollerTyped, NEW hidden, Follows(hidden), NEW p \in Polls, Reaches(p, NoPoll)
    PROVE  /\ PollsTyped' /\ UNCHANGED consumer
           /\ poll'[p] = NoPoll /\ \A o \in Polls : o # p => poll'[o] = poll[o]
           /\ \A o \in Polls : poll'[o] = poll[o] \/ poll'[o].at # "deleting"
<1>1. poll' = [poll EXCEPT ![p] = NoPoll] /\ UNCHANGED consumer
    BY DEF Reaches
<1>2. PollsTyped' /\ poll'[p] = NoPoll /\ \A o \in Polls : o # p => poll'[o] = poll[o]
  <2>1. /\ NoPoll.handled \subseteq NoPoll.batch
        /\ NoPoll.batch # {} <=> NoPoll.at \in {"handling", "deleting"}
        /\ \A handle \in NoPoll.batch :
             handle.copy \in DOMAIN copies' /\ handle.receive <= copies'[handle.copy].receives
    BY NoPollIsOne
  <2> QED BY <1>1, <2>1, NoPollIsOne, PollReaches
<1> QED BY <1>1, <1>2, NoPollIsOne

LEMMA NothingHeldThere ==
    ASSUME NEW hidden, Follows(hidden), UNCHANGED queues, ~Exists(Polled)
    PROVE  HeldBy(Polled, copies)' = {} /\ Receivable(Polled, copies)' = {}
<1>1. HeldByQueues(copies)'
    BY DEF Follows, SqsInv, Sound
<1>2. \A k \in DOMAIN copies' : ~(copies'[k].held /\ copies'[k].queue = Polled)
    BY <1>1 DEF HeldByQueues, Exists
<1> QED BY <1>2 DEF HeldBy, Receivable

LEMMA ThrowsKeeps == ASSUME PollerInv, NEW p \in Polls, Throws(p) PROVE PollerInv'
<1>1. /\ PollerTyped /\ UnderWay(p) /\ ~Exists(Polled) /\ Look /\ Announces({}) /\ Sees({})
      /\ Reaches(p, NoPoll) /\ UNCHANGED <<returned, queues>>
    BY DEF Throws, Look, PollerInv, UnderWay
<1>2. Follows({})
    BY <1>1, LookFollows
<1>3. /\ PollsTyped' /\ UNCHANGED consumer
      /\ \A o \in Polls : poll'[o] = poll[o] \/ poll'[o].at # "deleting"
    BY <1>1, <1>2, OverLeaves
<1>4. ReturnedTyped' /\ PartIsReturned'
    BY <1>1, <1>3, ReturnedStands
<1>5. consumer = "none" => UNCHANGED poll
    BY <1>1 DEF PollerTyped, ConsumerTyped
<1>6. Wakes'
    BY <1>1, <1>2, <1>3, <1>5, AnnouncingKeeps DEF Announcing
<1>7. HeldBy(Polled, copies)' = {} /\ Receivable(Polled, copies)' = {}
    BY <1>1, <1>2, NothingHeldThere
<1>8. NeverAsleep' /\ NoneLeftWaiting'
    BY <1>7 DEF NeverAsleep, NoneLeftWaiting
<1> QED BY <1>2, <1>3, <1>4, <1>6, <1>8, PollerThen

-----------------------------------------------------------------------------
(* A poll that receives.                                                     *)

LEMMA EarlierIsFinite ==
    ASSUME NEW n \in Nat, NEW numbers \in SUBSET (1 .. n), NEW k
    PROVE  IsFiniteSet(Earlier(k, numbers)) /\ Cardinality(Earlier(k, numbers)) \in Nat
<1>1. IsFiniteSet(1 .. n)
    BY FS_Interval
<1>2. Earlier(k, numbers) \subseteq 1 .. n
    BY DEF Earlier
<1>3. IsFiniteSet(Earlier(k, numbers))
    BY <1>1, <1>2, FS_Subset
<1> QED BY <1>3, FS_CardinalityType

(* What is left behind was left because the batch was full.                  *)
LEMMA LeavesBehindAFullBatch ==
    ASSUME NEW n \in Nat, NEW numbers \in SUBSET (1 .. n), NEW limit \in Nat,
           NEW k \in numbers, k \notin Oldest(numbers, limit)
    PROVE  IsFiniteSet(Oldest(numbers, limit)) /\ Cardinality(Oldest(numbers, limit)) >= limit
<1> DEFINE oldest == Oldest(numbers, limit)
           left == numbers \ oldest
<1>1. left \in SUBSET Nat /\ left # {}
  <2>1. k \in left
    OBVIOUS
  <2>2. left \subseteq numbers /\ 1 .. n \subseteq Nat
    OBVIOUS
  <2> QED BY <2>1, <2>2
<1>2. PICK least \in left : \A i \in left : least <= i
    BY <1>1, Least
<1>3. Earlier(least, numbers) \subseteq oldest
  <2>1. \A i \in numbers : i < least => i \notin left
    BY <1>1, <1>2
  <2>2. \A i \in numbers : i \notin left => i \in oldest
    OBVIOUS
  <2> QED BY <2>1, <2>2 DEF Earlier
<1>4. IsFiniteSet(oldest)
  <2>1. IsFiniteSet(1 .. n)
    BY FS_Interval
  <2>2. oldest \subseteq 1 .. n
    BY DEF Oldest
  <2> QED BY <2>1, <2>2, FS_Subset
<1>5. least \in numbers /\ ~(Cardinality(Earlier(least, numbers)) < limit)
    BY <1>2 DEF Oldest
<1>6. Cardinality(Earlier(least, numbers)) \in Nat
    BY EarlierIsFinite
<1> HIDE DEF oldest
<1>7. Cardinality(Earlier(least, numbers)) <= Cardinality(oldest) /\ Cardinality(oldest) \in Nat
    BY <1>3, <1>4, FS_Subset, FS_CardinalityType
<1>8. Cardinality(oldest) >= limit
    BY <1>5, <1>6, <1>7
<1> QED BY <1>4, <1>8 DEF oldest

(* What a receive leaves of what could be received.                          *)
LEMMA PolledIs ==
    ASSUME PollerTyped, NEW timeout \in Timeouts, ReceiveMessage(Polled, BatchSize, timeout)
    PROVE  /\ Follows(TakenHere) /\ UNCHANGED now
           /\ IsFiniteSet(TakenHere)
           /\ \A k \in TakenHere : k \in DOMAIN copies'
           /\ MovedHere = AddedHere
           /\ TakenHere = {} => \A k \in AddedHere : copies'[k].visibleFrom = now
           /\ \A k \in Receivable(Polled, copies)' :
                k \in TakenHere \/ (TakenHere # {} /\ Cardinality(TakenHere) >= BatchSize)
<1> DEFINE all == QueueUpToDate(Polled, UpToDate)
           numbers == Receivable(Polled, all)
<1>1. Sound(all) /\ Renews(copies, all) /\ now \in Nat
    BY AskedIsUpToDate, PollerBounds DEF PollerTyped
<1>2. /\ DOMAIN copies' = DOMAIN all /\ UNCHANGED now
      /\ \A k \in DOMAIN all :
           /\ copies'[k].message = all[k].message
           /\ copies'[k].held = all[k].held /\ copies'[k].queue = all[k].queue
           /\ k \notin Taken(Polled, BatchSize) => copies'[k] = all[k]
    BY ReceiveIs, PollerBounds DEF PollerTyped
<1>3. TakenHere = Taken(Polled, BatchSize)
    BY TakenFromIt, PollerBounds
<1>4. Follows(TakenHere)
    BY ReceiveFollows, PollerBounds
<1>5. Taken(Polled, BatchSize) = Oldest(numbers, BatchSize)
    BY DEF Taken
<1> HIDE DEF all
<1>6. numbers \in SUBSET (1 .. MaxCopies) /\ MaxCopies \in Nat /\ BatchSize \in Nat \ {0}
    BY <1>2, <1>4, PollerBounds DEF Receivable, HeldBy, Follows
<1>7. \A k \in TakenHere : k \in DOMAIN copies'
    BY DEF TakenHere
<1>8. IsFiniteSet(TakenHere)
  <2>1. IsFiniteSet(1 .. MaxCopies)
    BY <1>6, FS_Interval
  <2>2. TakenHere \subseteq 1 .. MaxCopies
    BY <1>4, <1>7 DEF Follows
  <2> QED BY <2>1, <2>2, FS_Subset
<1>9. ASSUME NEW k \in Receivable(Polled, copies)', k \notin TakenHere
      PROVE  TakenHere # {} /\ Cardinality(TakenHere) >= BatchSize
  <2>1. k \in DOMAIN all /\ copies'[k] = all[k]
    BY <1>2, <1>3, <1>9 DEF Receivable, HeldBy
  <2>2. k \in numbers
    BY <1>2, <1>9, <2>1 DEF Receivable, HeldBy, IsVisible
  <2> HIDE DEF numbers
  <2>3. Cardinality(TakenHere) >= BatchSize
    BY <1>3, <1>5, <1>6, <1>9, <2>2, LeavesBehindAFullBatch
  <2>4. TakenHere # {}
    BY <1>6, <2>3, FS_EmptySet
  <2> QED BY <2>3, <2>4
<1>10. MovedHere = AddedHere /\ (TakenHere = {} => \A k \in AddedHere : copies'[k].visibleFrom = now)
  <2>1. \A k \in DOMAIN all : /\ copies'[k].message = all[k].message
                              /\ TakenHere = {} => copies'[k].visibleFrom = all[k].visibleFrom
    BY <1>2, <1>3
  <2> QED BY <1>1, <1>2, <2>1, AddedAreMoved
<1> QED BY <1>2, <1>4, <1>7, <1>8, <1>9, <1>10

LEMMA LeastOf == ASSUME NEW T \in SUBSET Nat, T # {} PROVE Min(T) \in T
<1>1. \E x \in T : \A y \in T : x <= y
    BY Least
<1> QED BY <1>1 DEF Min

LEMMA LookOutIs ==
    ASSUME NEW hidden, Follows(hidden)
    PROVE  /\ IsABag(LookOut) /\ BagToSet(LookOut) \subseteq Nat
           /\ NextAvailability # {} => BagToSet(LookOut) # {}
<1>1. NextAvailability \subseteq Nat
  <2>1. copies' \in Seq(Copies)
    BY DEF Follows, SqsInv, Sound, Copies
  <2>2. \A k \in DOMAIN copies' : copies'[k].visibleFrom \in Nat
    BY <2>1, Copied
  <2> QED BY <2>2 DEF NextAvailability, HeldBy
<1>2. CASE NextAvailability = {}
    BY <1>2, NoneIn DEF LookOut
<1>3. CASE NextAvailability # {}
  <2>2. Min(NextAvailability) \in Nat
    BY <1>1, <1>3, LeastOf
  <2>3. LookOut = SetToBag({Min(NextAvailability)})
    BY <1>3 DEF LookOut
  <2>4. IsABag(LookOut) /\ BagToSet(LookOut) = {Min(NextAvailability)}
    BY <2>3, OneIn
  <2> QED BY <2>2, <2>4
<1> QED BY <1>2, <1>3

(* An empty poll found nothing to receive, and looks out for the next.       *)
LEMMA ReceivesNothingKeeps ==
    ASSUME PollerInv, NEW p \in Polls, Receives(p), TakenHere = {} PROVE PollerInv'
<1>1. /\ PollerTyped /\ UnderWay(p) /\ Reaches(p, NoPoll) /\ Schedules(FALSE, LookOut) /\ Sees({})
      /\ UNCHANGED returned
    BY DEF Receives, PollerInv, UnderWay
<1>2. PICK timeout \in Timeouts : ReceiveMessage(Polled, BatchSize, timeout)
    BY DEF Receives
<1>3. /\ Follows({}) /\ UNCHANGED now
      /\ Receivable(Polled, copies)' = {} /\ \A k \in AddedHere : copies'[k].visibleFrom = now
    BY <1>1, <1>2, PolledIs
<1>4. /\ PollsTyped' /\ UNCHANGED consumer
      /\ poll'[p] = NoPoll /\ \A o \in Polls : o # p => poll'[o] = poll[o]
      /\ \A o \in Polls : poll'[o] = poll[o] \/ poll'[o].at # "deleting"
    BY <1>1, <1>3, OverLeaves
<1>5. ReturnedTyped' /\ PartIsReturned'
    BY <1>1, <1>4, ReturnedStands
<1>6. consumer # "none"
    BY <1>1 DEF PollerTyped, ConsumerTyped
<1>7. IsABag(LookOut) /\ BagToSet(LookOut) \subseteq Nat /\ (NextAvailability # {} => BagToSet(LookOut) # {})
    BY <1>3, LookOutIs
<1>8. /\ TurnsTyped' /\ Grows
      /\ consumer = "stopped" => UNCHANGED <<scheduled, turns>>
      /\ consumer # "stopped" => BagToSet(LookOut) \subseteq BagToSet(turns')
    BY <1>1, <1>7, Scheduled DEF PollerTyped
<1>9. Wakes'
  <2>1. ~IsWatching => consumer = "stopped"
    BY <1>1, <1>6 DEF PollerTyped, ConsumerTyped, IsWatching
  <2>2. now \in Nat
    BY <1>1, CopiesUpToDate DEF PollerTyped
  <2>3. \A k \in {} \cup AddedHere : ~(copies'[k].visibleFrom > now)
    BY <1>3, <2>2
  <2> QED BY <1>1, <1>3, <1>4, <1>6, <1>8, <2>1, <2>3, WakesStand
<1>10. ASSUME consumer = "ready", NEW k \in HeldBy(Polled, copies)' PROVE turns' # EmptyBag
  <2>1. k \in DOMAIN copies' /\ copies'[k].held /\ copies'[k].queue = Polled
    BY <1>10 DEF HeldBy
  <2>2. ~(copies'[k].visibleFrom <= now)
    BY <1>3, <2>1 DEF Receivable, HeldBy, IsVisible
  <2>3. copies'[k].visibleFrom \in Nat /\ now \in Nat
    <3>1. copies' \in Seq(Copies)
      BY <1>3 DEF Follows, SqsInv, Sound, Copies
    <3> QED BY <1>1, <2>1, <3>1, Copied, CopiesUpToDate DEF PollerTyped
  <2>4. copies'[k].visibleFrom > now
    BY <2>2, <2>3
  <2>5. k \in {i \in HeldBy(Polled, copies') : copies'[i].visibleFrom > now}
    BY <2>1, <2>4 DEF HeldBy
  <2>6. NextAvailability # {}
    BY <2>5 DEF NextAvailability
  <2> QED BY <1>7, <1>8, <1>10, <2>6, NoneIn
<1>11. NeverAsleep' /\ NoneLeftWaiting'
    BY <1>3, <1>4, <1>10 DEF NeverAsleep, NoneLeftWaiting
<1> QED BY <1>3, <1>4, <1>5, <1>9, <1>11, PollerThen

(* A batch is announced as it is hidden, and a full one is polled after.     *)
LEMMA ReceivesABatchKeeps ==
    ASSUME PollerInv, NEW p \in Polls, Receives(p), TakenHere # {} PROVE PollerInv'
<1> DEFINE batch == {[copy |-> k, receive |-> copies'[k].receives] : k \in TakenHere}
           there == [poll[p] EXCEPT !.at = "handling", !.batch = batch]
<1>1. /\ PollerTyped /\ poll[p].at = "receiving" /\ Announces(TakenHere) /\ Sees(TakenHere)
      /\ poll' = [poll EXCEPT ![p] = there] /\ UNCHANGED <<consumer, returned>>
    BY DEF Receives, Reaches, PollerInv
<1>2. PICK timeout \in Timeouts : ReceiveMessage(Polled, BatchSize, timeout)
    BY DEF Receives
<1>3. /\ Follows(TakenHere) /\ IsFiniteSet(TakenHere) /\ TakenHere \subseteq DOMAIN copies'
      /\ \A k \in Receivable(Polled, copies)' : k \in TakenHere \/ Cardinality(TakenHere) >= BatchSize
    BY <1>1, <1>2, PolledIs
<1>4. Announcing(TakenHere)
    BY <1>1, <1>3 DEF Announcing
<1>5. poll[p] \in PollStates /\ BatchOf(p)
    BY <1>1 DEF PollerTyped, PollsTyped
<1>6. ASSUME NEW k \in TakenHere
      PROVE  [copy |-> k, receive |-> copies'[k].receives] \in Handed /\ copies'[k].receives \in Nat
  <2>1. k \in DOMAIN copies' /\ k \in 1 .. MaxCopies
    BY <1>3 DEF Follows
  <2>2. copies' \in Seq(Copies)
    BY <1>3 DEF Follows, SqsInv, Sound, Copies
  <2>3. copies'[k].receives \in Nat
    BY <2>1, <2>2, Copied
  <2> QED BY <2>1, <2>3 DEF Handed
<1>7. /\ batch \subseteq Handed /\ batch # {}
      /\ \A handle \in batch : handle.copy \in DOMAIN copies' /\ handle.receive <= copies'[handle.copy].receives
  <2>1. batch \subseteq Handed /\ batch # {}
    BY <1>6
  <2>2. ASSUME NEW handle \in batch
        PROVE  handle.copy \in DOMAIN copies' /\ handle.receive <= copies'[handle.copy].receives
    <3>1. PICK k \in TakenHere : handle = [copy |-> k, receive |-> copies'[k].receives]
      BY <2>2
    <3>2. handle.copy = k /\ handle.receive = copies'[k].receives
      BY <3>1
    <3> HIDE DEF batch
    <3>3. copies'[k].receives \in Nat /\ k \in DOMAIN copies'
      BY <1>3, <1>6
    <3> QED BY <3>2, <3>3
  <2> QED BY <2>1, <2>2
<1>8. Cardinality(batch) = Cardinality(TakenHere)
  <2> DEFINE issue == [k \in TakenHere |-> [copy |-> k, receive |-> copies'[k].receives]]
  <2>1. issue \in Bijection(TakenHere, batch)
    BY DEF Bijection, Injection, Surjection, IsInjective
  <2>2. ExistsBijection(TakenHere, batch)
    BY <2>1 DEF ExistsBijection
  <2> HIDE DEF batch
  <2> QED BY <1>3, <2>2, FS_Bijection
<1> HIDE DEF batch
<1>9. /\ there \in PollStates /\ there.at = "handling" /\ there.batch = batch
      /\ there.handled = poll[p].handled /\ poll[p].handled = {}
  <2>1. poll[p].handled = {}
    BY <1>1, <1>5 DEF BatchOf
  <2> QED BY <1>5, <1>7, <2>1 DEF PollStates, Stages
<1> HIDE DEF there
<1>10. PollsTyped' /\ poll'[p] = there /\ \A o \in Polls : o # p => poll'[o] = poll[o]
    BY <1>1, <1>3, <1>7, <1>9, PollReaches
<1>11. ReturnedTyped' /\ PartIsReturned' /\ (NoneReturned' <=> NoneReturned)
  <2>1. \A o \in Polls : poll'[o] = poll[o] \/ poll'[o].at # "deleting"
    BY <1>9, <1>10
  <2> QED BY <1>1, <2>1, ReturnedStands
<1>12. consumer = "none" => UNCHANGED poll
    BY <1>1 DEF PollerTyped, ConsumerTyped, UnderWay
<1>13. Wakes' /\ (consumer = "ready" => scheduled' \/ turns' # EmptyBag)
    BY <1>4, <1>12, AnnouncingKeeps
<1>14. NeverAsleep'
    BY <1>1, <1>13 DEF NeverAsleep
<1>15. ASSUME consumer = "ready", NEW k \in Receivable(Polled, copies)'
       PROVE  TurnDue' \/ WillPoll(p)'
  <2>1. CASE k \in TakenHere
    <3>1. copies'[k].visibleFrom <= now'
      BY <1>15 DEF Receivable, IsVisible
    <3>2. UNCHANGED now
      BY <2>1, <1>3 DEF Follows
    <3>3. copies'[k].visibleFrom \in Nat /\ now \in Nat
      <4>1. copies' \in Seq(Copies)
        BY <1>3 DEF Follows, SqsInv, Sound, Copies
      <4> QED BY <1>1, <1>3, <2>1, <4>1, Copied, CopiesUpToDate DEF PollerTyped
    <3>4. ~(copies'[k].visibleFrom > now)
      BY <3>1, <3>2, <3>3
    <3>5. scheduled'
      BY <1>1, <1>3, <1>15, <2>1, <3>4, Announced DEF IsWatching
    <3> QED BY <3>5 DEF TurnDue
  <2>2. CASE k \notin TakenHere
    <3>1. Cardinality(TakenHere) >= BatchSize
      BY <1>3, <1>15, <2>2
    <3> QED BY <1>8, <1>9, <1>10, <3>1 DEF WillPoll, UnderWay
  <2> QED BY <2>1, <2>2
<1>16. NoneLeftWaiting'
    BY <1>1, <1>15 DEF NoneLeftWaiting
<1> QED BY <1>3, <1>10, <1>11, <1>13, <1>14, <1>16, PollerThen

-----------------------------------------------------------------------------
(* A poll that is done with its batch.                                       *)

LEMMA QueuesAside ==
    ASSUME PollerTyped, UNCHANGED vars
    PROVE  Follows({}) /\ AddedHere = {} /\ MovedHere = {} /\ UNCHANGED <<now, copies>>
<1>1. UNCHANGED <<now, copies>>
    BY DEF vars
<1>2. SqsInv'
    BY SqsStutters DEF PollerTyped
<1> QED BY <1>1, <1>2, StandingFollows DEF AddedHere, MovedHere

LEMMA PollsAgainIs ==
    ASSUME PollerTyped, NEW p \in Polls, NEW handled, PollsAgain(p, handled)
    PROVE  /\ TurnsTyped' /\ Grows
           /\ consumer = "stopped" => UNCHANGED <<scheduled, turns>>
           /\ consumer # "stopped" =>
                /\ MovedHere # {} => scheduled'
                /\ handled = poll[p].batch /\ Cardinality(poll[p].batch) >= BatchSize => scheduled'
                /\ handled # poll[p].batch => turns' # EmptyBag
<1> DEFINE gaveBack == handled # poll[p].batch
           soon == MovedHere # {} \/ (~gaveBack /\ Cardinality(poll[p].batch) >= BatchSize)
           later == IF gaveBack THEN SetToBag({now + poll[p].timeout}) ELSE EmptyBag
<1>1. Schedules(soon, later)
    BY DEF PollsAgain
<1>2. now + poll[p].timeout \in Nat
  <2>1. poll[p] \in PollStates /\ now \in Nat
    BY CopiesUpToDate DEF PollerTyped, PollsTyped
  <2> QED BY <2>1, APollState
<1>3. IsABag(later) /\ BagToSet(later) \subseteq Nat /\ (gaveBack => BagToSet(later) # {})
  <2>1. CASE gaveBack
    <3>1. later = SetToBag({now + poll[p].timeout})
      BY <2>1
    <3> HIDE DEF later
    <3>2. IsABag(later) /\ BagToSet(later) = {now + poll[p].timeout}
      BY <3>1, OneIn
    <3> QED BY <1>2, <3>2
  <2>2. CASE ~gaveBack
    BY <2>2, NoneIn
  <2> QED BY <2>1, <2>2
<1>4. /\ soon \in BOOLEAN
      /\ MovedHere # {} => soon
      /\ ~gaveBack /\ Cardinality(poll[p].batch) >= BatchSize => soon
    OBVIOUS
<1> HIDE DEF soon, later
<1>5. /\ TurnsTyped' /\ Grows
      /\ consumer = "stopped" => UNCHANGED <<scheduled, turns>>
      /\ consumer # "stopped" => (soon => scheduled') /\ BagToSet(later) \subseteq BagToSet(turns')
  <2>1. TurnsTyped /\ soon \in BOOLEAN
    BY <1>4 DEF PollerTyped
  <2> QED BY <1>1, <1>3, <2>1, Scheduled
<1>6. BagToSet(turns') # {} => turns' # EmptyBag
    BY NoneIn
<1> QED BY <1>3, <1>4, <1>5, <1>6

(* The consumer gives back what it has not handled, and then nobody can say  *)
(* that it has given nothing back.                                           *)
LEMMA GivingBack ==
    ASSUME PollerTyped, NEW p \in Polls, NEW handled \in SUBSET poll[p].batch,
           returned' = [k \in DOMAIN returned |->
                          IF k \in {handle.copy : handle \in poll[p].batch \ handled} THEN now ELSE returned[k]]
    PROVE  ReturnedTyped' /\ (NoneReturned' => NoneReturned /\ handled = poll[p].batch)
<1>1. returned \in [1 .. MaxCopies -> -1 .. MaxTime] /\ now \in 0 .. MaxTime /\ MaxTime \in Nat
    BY PollerBounds DEF PollerTyped, ReturnedTyped, SqsInv, ClockTyped
<1>2. ReturnedTyped'
    BY <1>1 DEF ReturnedTyped
<1>3. ASSUME NoneReturned', NEW handle \in poll[p].batch \ handled PROVE FALSE
  <2>1. handle.copy \in 1 .. MaxCopies
    <3>1. poll[p] \in PollStates
      BY DEF PollerTyped, PollsTyped
    <3>2. handle \in Handed
      BY <3>1, APollState
    <3> QED BY <3>2 DEF Handed
  <2>2. returned'[handle.copy] = now
    BY <1>1, <2>1
  <2> QED BY <1>1, <1>3, <2>1, <2>2 DEF NoneReturned
<1>4. ASSUME NoneReturned', NEW k \in 1 .. MaxCopies PROVE returned[k] < 0
  <2>1. returned'[k] < 0
    BY <1>4 DEF NoneReturned
  <2>2. returned'[k] = now \/ returned'[k] = returned[k]
    BY <1>1
  <2> QED BY <1>1, <2>1, <2>2
<1> QED BY <1>2, <1>3, <1>4 DEF NoneReturned

LEMMA ConsumesKeeps == ASSUME PollerInv, NEW p \in Polls, Consumes(p) PROVE PollerInv'
<1>1. PollerTyped /\ UnderWay(p) /\ poll[p].at = "handling" /\ UNCHANGED vars /\ UNCHANGED heard
    BY DEF Consumes, PollerInv, UnderWay
<1>2. PICK handled \in SUBSET poll[p].batch :
        /\ returned' = [k \in DOMAIN returned |->
                          IF k \in {handle.copy : handle \in poll[p].batch \ handled} THEN now ELSE returned[k]]
        /\ IF consumer = "stopped" \/ handled = {}
             THEN Reaches(p, NoPoll) /\ PollsAgain(p, handled)
             ELSE /\ Reaches(p, [poll[p] EXCEPT !.at = "deleting", !.handled = handled])
                  /\ UNCHANGED <<scheduled, turns>>
    BY DEF Consumes
<1>3. Follows({}) /\ AddedHere = {} /\ MovedHere = {} /\ UNCHANGED <<now, copies>>
    BY <1>1, QueuesAside
<1>4. Sees({})
    BY <1>1, <1>3 DEF Sees
<1>5. ReturnedTyped' /\ (NoneReturned' => NoneReturned /\ handled = poll[p].batch)
    BY <1>1, <1>2, GivingBack
<1>6. poll[p] \in PollStates /\ poll[p].batch # {} /\ BatchOf(p)
    BY <1>1 DEF PollerTyped, PollsTyped, BatchOf
<1>7. consumer # "none"
    BY <1>1 DEF PollerTyped, ConsumerTyped
<1>8. ~IsWatching => consumer = "stopped"
    BY <1>1, <1>7 DEF PollerTyped, ConsumerTyped, IsWatching
<1>9. CASE consumer = "stopped" \/ handled = {}
  <2>1. Reaches(p, NoPoll) /\ PollsAgain(p, handled)
    BY <1>2, <1>9
  <2>2. /\ PollsTyped' /\ UNCHANGED consumer
        /\ \A o \in Polls : poll'[o] = poll[o] \/ poll'[o].at # "deleting"
    BY <1>1, <1>3, <2>1, OverLeaves
  <2>3. /\ TurnsTyped' /\ Grows
        /\ consumer = "stopped" => UNCHANGED <<scheduled, turns>>
        /\ consumer # "stopped" /\ handled # poll[p].batch => turns' # EmptyBag
    BY <1>1, <2>1, PollsAgainIs
  <2>4. Wakes'
    BY <1>3, <1>4, <1>7, <1>8, <2>2, <2>3, WakesStand
  <2>5. PartIsReturned'
    BY <1>5, <2>2 DEF PollerInv, PartIsReturned
  <2>6. consumer # "stopped" => handled # poll[p].batch
    BY <1>6, <1>9
  <2>7. NeverAsleep' /\ NoneLeftWaiting'
    BY <1>5, <2>2, <2>3, <2>6 DEF NeverAsleep, NoneLeftWaiting
  <2> QED BY <1>3, <1>5, <2>2, <2>4, <2>5, <2>7, PollerThen
<1>10. CASE ~(consumer = "stopped" \/ handled = {})
  <2> DEFINE there == [poll[p] EXCEPT !.at = "deleting", !.handled = handled]
  <2>1. poll' = [poll EXCEPT ![p] = there] /\ UNCHANGED <<consumer, scheduled, turns>>
    BY <1>2, <1>10 DEF Reaches
  <2>2. /\ there \in PollStates /\ there.at = "deleting" /\ there.batch = poll[p].batch
        /\ there.handled = handled
    BY <1>6 DEF PollStates, Stages
  <2> HIDE DEF there
  <2>3. \A handle \in there.batch :
          handle.copy \in DOMAIN copies' /\ handle.receive <= copies'[handle.copy].receives
    BY <1>1, <1>3, <2>2, BatchKept
  <2>4. PollsTyped' /\ poll'[p] = there /\ \A o \in Polls : o # p => poll'[o] = poll[o]
    BY <1>1, <1>3, <1>6, <2>1, <2>2, <2>3, PollReaches
  <2>5. Wakes'
    BY <1>1, <1>3, <1>4, <1>7, <2>1, WakesStand DEF PollerTyped, TurnsTyped, Grows
  <2>6. PartIsReturned'
    BY <1>5, <2>2, <2>4 DEF PollerInv, PartIsReturned
  <2>7. \A o \in Polls : (WillReceive(o) => WillReceive(o)') /\ (WillPoll(o) => WillPoll(o)')
    BY <1>1, <2>2, <2>4 DEF WillReceive, WillPoll, UnderWay
  <2>8. /\ HeldBy(Polled, copies)' = HeldBy(Polled, copies)
        /\ Receivable(Polled, copies)' = Receivable(Polled, copies)
        /\ TurnDue' <=> TurnDue
    BY <1>3, <2>1 DEF HeldBy, Receivable, IsVisible, TurnDue
  <2>9. NeverAsleep' /\ NoneLeftWaiting'
    BY <1>1, <1>5, <2>1, <2>7, <2>8 DEF PollerInv, NeverAsleep, NoneLeftWaiting
  <2> QED BY <1>3, <1>5, <2>4, <2>5, <2>6, <2>9, PollerThen
<1> QED BY <1>9, <1>10

(* Deleting a batch lets go of what it can, and what was moved to the queue  *)
(* on the way is polled for.                                                 *)
LEMMA DeletesIs ==
    ASSUME PollerTyped, NEW p \in Polls, Deletes(p)
    PROVE  /\ Follows({}) /\ UNCHANGED now
           /\ MovedHere = AddedHere /\ \A k \in AddedHere : copies'[k].visibleFrom = now
<1> DEFINE all == QueueUpToDate(Polled, UpToDate)
<1>1. PICK gone : Answer(Without(gone, all)) /\ UNCHANGED <<queues, settings>>
    BY DEF Deletes
<1>2. SqsInv /\ Sound(all) /\ Renews(copies, all)
    BY AskedIsUpToDate, PollerBounds DEF PollerTyped
<1> DEFINE next == Without(gone, all)
<1>3. copies' = next /\ next = Without(gone, all) /\ UNCHANGED now
    BY <1>1 DEF Answer
<1> HIDE DEF all
<1>4. SqsInv'
    BY <1>1, <1>2, AnswerWithoutKeeps
<1>5. Follows({}) /\ \A k \in DOMAIN copies' : ~HandsOut(k)
    BY <1>1, <1>2, <1>4, LettingGoFollows
<1>6. TakenHere = {}
    BY <1>5, NothingTaken
<1> HIDE DEF next
<1>7. DOMAIN next = DOMAIN all
    BY <1>2, <1>3, WithoutIsSound
<1>8. \A k \in DOMAIN all : all[k] \in Copies /\ next[k] = [all[k] EXCEPT !.held = next[k].held]
    BY <1>2, <1>3, WithoutIsSound
<1>9. ASSUME NEW k \in DOMAIN all
      PROVE  copies'[k].message = all[k].message /\ copies'[k].visibleFrom = all[k].visibleFrom
  <2>1. all[k] \in Copies /\ next[k] = [all[k] EXCEPT !.held = next[k].held]
    BY <1>8
  <2> QED BY <1>3, <2>1, SameCopy
<1>10. MovedHere = AddedHere /\ \A k \in AddedHere : copies'[k].visibleFrom = now
    BY <1>2, <1>3, <1>6, <1>7, <1>9, AddedAreMoved
<1> QED BY <1>3, <1>5, <1>10

LEMMA DeletesKeeps == ASSUME PollerInv, NEW p \in Polls, Deletes(p) PROVE PollerInv'
<1>1. /\ PollerTyped /\ UnderWay(p) /\ poll[p].at = "deleting" /\ Reaches(p, NoPoll)
      /\ PollsAgain(p, poll[p].handled) /\ Sees({}) /\ UNCHANGED returned
    BY DEF Deletes, PollerInv, UnderWay
<1>2. /\ Follows({}) /\ UNCHANGED now
      /\ MovedHere = AddedHere /\ \A k \in AddedHere : copies'[k].visibleFrom = now
    BY <1>1, DeletesIs
<1>3. /\ PollsTyped' /\ UNCHANGED consumer
      /\ poll'[p] = NoPoll /\ \A o \in Polls : o # p => poll'[o] = poll[o]
      /\ \A o \in Polls : poll'[o] = poll[o] \/ poll'[o].at # "deleting"
    BY <1>1, <1>2, OverLeaves
<1>4. ReturnedTyped' /\ PartIsReturned' /\ (NoneReturned' <=> NoneReturned)
    BY <1>1, <1>3, ReturnedStands
<1>5. /\ TurnsTyped' /\ Grows
      /\ consumer = "stopped" => UNCHANGED <<scheduled, turns>>
      /\ consumer # "stopped" =>
           /\ MovedHere # {} => scheduled'
           /\ poll[p].handled = poll[p].batch /\ Cardinality(poll[p].batch) >= BatchSize => scheduled'
    BY <1>1, PollsAgainIs
<1>6. consumer # "none"
    BY <1>1 DEF PollerTyped, ConsumerTyped
<1>7. Wakes'
  <2>1. ~IsWatching => consumer = "stopped"
    BY <1>1, <1>6 DEF PollerTyped, ConsumerTyped, IsWatching
  <2>2. now \in Nat
    BY <1>1, CopiesUpToDate DEF PollerTyped
  <2>3. \A k \in {} \cup AddedHere : ~(copies'[k].visibleFrom > now)
    BY <1>2, <2>2
  <2> QED BY <1>1, <1>2, <1>3, <1>5, <1>6, <2>1, <2>3, WakesStand
<1>8. \A o \in Polls : WillReceive(o) => WillReceive(o)'
    BY <1>1, <1>3 DEF WillReceive
<1>9. ASSUME consumer = "ready", NEW k \in HeldBy(Polled, copies)'
      PROVE  scheduled' \/ turns' # EmptyBag \/ \E o \in Polls : WillReceive(o)'
  <2>1. CASE k \in AddedHere
    BY <1>2, <1>5, <1>9, <2>1
  <2>2. CASE k \notin AddedHere
    <3>1. k \in DOMAIN copies' \ ({} \cup AddedHere)
      BY <1>9, <2>2 DEF HeldBy
    <3> QED BY <1>2, <1>5, <1>8, <1>9, <3>1, HeldIsAwaited
  <2> QED BY <2>1, <2>2
<1>10. ASSUME consumer = "ready", NoneReturned, NEW k \in (Receivable(Polled, copies) \cap heard)'
       PROVE  TurnDue' \/ \E o \in Polls : WillPoll(o)'
  <2>1. CASE k \in AddedHere
    BY <1>2, <1>5, <1>10, <2>1 DEF TurnDue
  <2>2. CASE k \notin AddedHere
    <3>1. k \in heard \ ({} \cup AddedHere)
      BY <1>1, <1>10, <2>2 DEF Sees, IsWatching
    <3>2. TurnDue' \/ \E o \in Polls : WillPoll(o)
      BY <1>2, <1>5, <1>10, <3>1, LeftIsAwaited
    <3>3. \A o \in Polls : o # p /\ WillPoll(o) => WillPoll(o)'
      BY <1>3 DEF WillPoll, WillReceive, UnderWay
    <3>4. WillPoll(p) => scheduled'
      <4>1. poll[p].handled = poll[p].batch
        BY <1>1, <1>10 DEF PollerInv, PartIsReturned
      <4> QED BY <1>1, <1>5, <1>10, <4>1 DEF WillPoll, WillReceive
    <3> QED BY <3>2, <3>3, <3>4 DEF TurnDue
  <2> QED BY <2>1, <2>2
<1>11. NeverAsleep' /\ NoneLeftWaiting'
    BY <1>3, <1>4, <1>9, <1>10 DEF NeverAsleep, NoneLeftWaiting
<1> QED BY <1>2, <1>3, <1>4, <1>7, <1>11, PollerThen

-----------------------------------------------------------------------------
(* A turn, on the host or on the clock, begins a poll.                       *)

LEMMA BeginsIs ==
    ASSUME PollerInv, NEW p \in Polls, NEW onClock \in BOOLEAN, Begins(p, onClock), UNCHANGED returned
    PROVE  /\ Follows({}) /\ PollsTyped' /\ ReturnedTyped' /\ PartIsReturned'
           /\ UNCHANGED <<consumer, heard, now, copies>>
           /\ consumer = "ready" => WillReceive(p)'
<1>1. PollerTyped /\ UNCHANGED vars /\ UNCHANGED heard
    BY DEF Begins, PollerInv
<1>2. Follows({}) /\ UNCHANGED <<now, copies>>
    BY <1>1, QueuesAside
<1> DEFINE asking == [NoPoll EXCEPT !.at = "asking", !.onClock = onClock]
           there == IF consumer = "ready" THEN asking ELSE NoPoll
<1>3. poll' = [poll EXCEPT ![p] = there] /\ UNCHANGED consumer
    BY DEF Begins, Reaches
<1>4. asking \in PollStates /\ asking.batch = {} /\ asking.handled = {} /\ asking.at = "asking"
    BY DEF NoPoll, PollStates, Stages
<1> HIDE DEF asking
<1>5. /\ there \in PollStates /\ there.batch = {} /\ there.handled = {}
      /\ there.at \in {"asking", "over"}
      /\ consumer = "ready" => there.at = "asking"
    BY <1>4, NoPollIsOne
<1> HIDE DEF there
<1>6. PollsTyped' /\ poll'[p] = there /\ \A o \in Polls : o # p => poll'[o] = poll[o]
    BY <1>1, <1>2, <1>3, <1>5, PollReaches
<1>7. ReturnedTyped' /\ PartIsReturned'
  <2>1. \A o \in Polls : poll'[o] = poll[o] \/ poll'[o].at # "deleting"
    BY <1>5, <1>6
  <2> QED BY <2>1, ReturnedStands
<1> QED BY <1>1, <1>2, <1>3, <1>5, <1>6, <1>7 DEF WillReceive

(* The instants a turn on the clock takes away have come.                    *)
LEMMA TurnKeeps ==
    ASSUME PollerInv, NEW p \in Polls, NEW onClock \in BOOLEAN, Begins(p, onClock), UNCHANGED returned,
           TurnsTyped', scheduled' => scheduled, BagToSet(turns') \subseteq BagToSet(turns),
           consumer # "none", \A i \in BagToSet(turns) : i > now => i \in BagToSet(turns')
    PROVE  PollerInv'
<1>1. /\ Follows({}) /\ PollsTyped' /\ ReturnedTyped' /\ PartIsReturned'
      /\ UNCHANGED <<consumer, heard, now, copies>>
      /\ consumer = "ready" => WillReceive(p)'
    BY BeginsIs
<1>2. PollerTyped
    BY DEF PollerInv
<1>3. HeardHere' /\ ConsumerTyped'
    BY <1>1, <1>2 DEF PollerTyped, HeardHere, ConsumerTyped
<1>4. StopLeavesNothingScheduled'
    BY <1>1, <1>2, SomeIn, NoneIn DEF PollerInv, StopLeavesNothingScheduled, TurnsTyped
<1>5. PolledWhenItComesBack'
  <2> SUFFICES ASSUME NEW k \in heard, IsWatching, copies[k].held, ~IsVisible(copies[k])
               PROVE  BagIn(copies[k].visibleFrom, turns')
      BY <1>1 DEF PolledWhenItComesBack, IsWatching, IsVisible
  <2>1. BagIn(copies[k].visibleFrom, turns)
    BY DEF PollerInv, PolledWhenItComesBack
  <2>2. copies[k].visibleFrom > now
    <3>1. copies \in Seq(Copies) /\ k \in DOMAIN copies
      BY <1>2 DEF PollerTyped, SqsInv, Sound, HeardHere
    <3>2. copies[k].visibleFrom \in Nat /\ now \in Nat
      BY <1>2, <3>1, Copied, CopiesUpToDate DEF PollerTyped
    <3> QED BY <3>2 DEF IsVisible
  <2> QED BY <2>1, <2>2 DEF BagIn
<1>6. Wakes'
    BY <1>3, <1>4, <1>5 DEF Wakes
<1>7. NeverAsleep' /\ NoneLeftWaiting'
    BY <1>1 DEF NeverAsleep, NoneLeftWaiting, WillPoll
<1> QED BY <1>1, <1>6, <1>7, PollerThen

LEMMA DeferredTurnKeeps == ASSUME PollerInv, NEW p \in Polls, DeferredTurn(p) PROVE PollerInv'
<1>1. PollerTyped /\ scheduled /\ scheduled' = FALSE /\ Begins(p, FALSE) /\ UNCHANGED turns
    BY DEF DeferredTurn, PollerInv
<1>2. UNCHANGED returned
    BY <1>1 DEF Begins
<1>3. TurnsTyped' /\ consumer # "none"
    BY <1>1 DEF PollerTyped, TurnsTyped, ConsumerTyped
<1> QED BY <1>1, <1>2, <1>3, TurnKeeps

LEMMA ClockTurnKeeps == ASSUME PollerInv, NEW p \in Polls, ClockTurn(p) PROVE PollerInv'
<1>1. PollerTyped
    BY DEF PollerInv
<1>2. PICK i \in BagToSet(turns) :
        i <= now /\ turns' = turns (-) SetToBag({i}) /\ Begins(p, TRUE) /\ UNCHANGED scheduled
    BY DEF ClockTurn
<1>3. UNCHANGED returned
    BY <1>2 DEF Begins
<1>4. /\ IsABag(turns') /\ BagToSet(turns') \subseteq BagToSet(turns)
      /\ BagToSet(turns) \ {i} \subseteq BagToSet(turns')
    BY <1>1, <1>2, AllButOneIn DEF PollerTyped, TurnsTyped
<1>5. TurnsTyped'
    BY <1>1, <1>2, <1>4 DEF PollerTyped, TurnsTyped
<1>6. \A o \in BagToSet(turns) : o > now => o \in BagToSet(turns')
  <2>1. now \in Nat /\ \A o \in BagToSet(turns) : o \in Nat
    BY <1>1, CopiesUpToDate DEF PollerTyped, TurnsTyped
  <2> QED BY <1>2, <1>4, <2>1
<1>7. consumer # "none"
    BY <1>1, <1>2, NoneIn DEF PollerTyped, ConsumerTyped
<1> QED BY <1>2, <1>3, <1>4, <1>5, <1>6, <1>7, TurnKeeps

-----------------------------------------------------------------------------
(* The consumer comes and goes.                                              *)

LEMMA ConsumerAside ==
    ASSUME PollerInv, UNCHANGED <<vars, poll, returned>>
    PROVE  /\ PollerTyped /\ Follows({}) /\ PollsTyped' /\ ReturnedTyped' /\ PartIsReturned'
           /\ UNCHANGED <<now, copies>>
<1>1. PollerTyped /\ UNCHANGED vars /\ UNCHANGED poll /\ UNCHANGED returned
    BY DEF PollerInv
<1>2. Follows({}) /\ UNCHANGED <<now, copies>>
    BY <1>1, QueuesAside
<1>3. PollsTyped'
    BY <1>1, <1>2, PollsStand
<1>4. ReturnedTyped' /\ PartIsReturned'
    BY <1>1, ReturnedStands
<1> QED BY <1>1, <1>2, <1>3, <1>4

LEMMA StartMappingKeeps == ASSUME PollerInv, StartMapping PROVE PollerInv'
<1>1. /\ consumer = "none" /\ consumer' = "creating"
      /\ UNCHANGED <<vars, poll, returned>> /\ UNCHANGED <<scheduled, turns, heard>>
    BY DEF StartMapping
<1>2. /\ PollerTyped /\ Follows({}) /\ PollsTyped' /\ ReturnedTyped' /\ PartIsReturned'
      /\ UNCHANGED <<now, copies>>
    BY <1>1, ConsumerAside
<1>3. heard = {}
    BY <1>1, <1>2 DEF PollerTyped, ConsumerTyped
<1>4. TurnsTyped' /\ ConsumerTyped' /\ HeardHere'
    BY <1>1, <1>2, <1>3 DEF PollerTyped, TurnsTyped, ConsumerTyped, HeardHere
<1>5. Wakes' /\ NeverAsleep' /\ NoneLeftWaiting'
    BY <1>1, <1>3, <1>4
    DEF Wakes, StopLeavesNothingScheduled, PolledWhenItComesBack, NeverAsleep, NoneLeftWaiting
<1> QED BY <1>2, <1>5, PollerThen

(* A consumer that is ready has a poll on the way.                           *)
LEMMA ReadyKeeps ==
    ASSUME PollerInv, consumer \in {"none", "creating"}, consumer' = "ready", Schedules(TRUE, EmptyBag),
           heard' = heard \cup Receivable(Polled, copies), UNCHANGED <<vars, poll, returned>>
    PROVE  PollerInv'
<1>1. /\ PollerTyped /\ Follows({}) /\ PollsTyped' /\ ReturnedTyped' /\ PartIsReturned'
      /\ UNCHANGED <<now, copies>>
    BY ConsumerAside
<1>2. TurnsTyped' /\ Grows /\ scheduled'
  <2>1. TurnsTyped /\ IsABag(EmptyBag) /\ BagToSet(EmptyBag) \subseteq Nat /\ TRUE \in BOOLEAN
    BY <1>1, NoneIn DEF PollerTyped
  <2> QED BY <2>1, Scheduled
<1>3. HeardHere'
    BY <1>1 DEF PollerTyped, HeardHere, Receivable, HeldBy
<1>4. ConsumerTyped' /\ StopLeavesNothingScheduled'
    BY DEF ConsumerTyped, StopLeavesNothingScheduled
<1>5. PolledWhenItComesBack'
  <2> SUFFICES ASSUME NEW k \in heard', copies[k].held, ~IsVisible(copies[k])
               PROVE  BagIn(copies[k].visibleFrom, turns')
      BY <1>1 DEF PolledWhenItComesBack, IsVisible
  <2>1. k \in heard
    BY DEF Receivable
  <2>2. consumer = "creating"
    BY <1>1, <2>1 DEF PollerTyped, ConsumerTyped
  <2>3. BagIn(copies[k].visibleFrom, turns)
    BY <2>1, <2>2 DEF PollerInv, PolledWhenItComesBack, IsWatching
  <2> QED BY <1>2, <2>3 DEF Grows, BagIn
<1>6. Wakes'
    BY <1>2, <1>3, <1>4, <1>5 DEF Wakes
<1>7. NeverAsleep' /\ NoneLeftWaiting'
    BY <1>2 DEF NeverAsleep, NoneLeftWaiting, TurnDue
<1> QED BY <1>1, <1>6, <1>7, PollerThen

LEMMA StopKeeps == ASSUME PollerInv, Stop PROVE PollerInv'
<1>1. /\ consumer' = "stopped" /\ turns' = EmptyBag
      /\ UNCHANGED <<vars, poll, returned>> /\ UNCHANGED <<scheduled, heard>>
    BY DEF Stop
<1>2. /\ PollerTyped /\ Follows({}) /\ PollsTyped' /\ ReturnedTyped' /\ PartIsReturned'
      /\ UNCHANGED <<now, copies>>
    BY <1>1, ConsumerAside
<1>3. TurnsTyped' /\ ConsumerTyped' /\ HeardHere'
    BY <1>1, <1>2, NoneIn DEF PollerTyped, TurnsTyped, ConsumerTyped, HeardHere
<1>4. Wakes' /\ NeverAsleep' /\ NoneLeftWaiting'
    BY <1>1, <1>3
    DEF Wakes, StopLeavesNothingScheduled, PolledWhenItComesBack, IsWatching, NeverAsleep, NoneLeftWaiting
<1> QED BY <1>2, <1>4, PollerThen

LEMMA PollerStutters == ASSUME PollerInv, UNCHANGED allVars PROVE PollerInv'
<1>1. UNCHANGED <<vars, poll, returned>> /\ UNCHANGED <<consumer, scheduled, turns, heard>>
    BY DEF allVars, pollerVars
<1>2. /\ PollerTyped /\ Follows({}) /\ PollsTyped' /\ ReturnedTyped' /\ PartIsReturned'
      /\ UNCHANGED <<now, copies>> /\ UNCHANGED <<poll, returned>>
    BY <1>1, ConsumerAside
<1>3. TurnsTyped' /\ ConsumerTyped' /\ HeardHere'
    BY <1>1, <1>2 DEF PollerTyped, TurnsTyped, ConsumerTyped, HeardHere, UnderWay
<1>4. StopLeavesNothingScheduled' /\ PolledWhenItComesBack'
    BY <1>1, <1>2 DEF PollerInv, StopLeavesNothingScheduled, PolledWhenItComesBack, IsWatching, IsVisible
<1>5. NeverAsleep'
    BY <1>1, <1>2 DEF PollerInv, NeverAsleep, WillReceive, HeldBy
<1>6. NoneLeftWaiting'
    BY <1>1, <1>2
    DEF PollerInv, NoneLeftWaiting, NoneReturned, TurnDue, WillPoll, WillReceive, UnderWay, Receivable, HeldBy, IsVisible
<1> QED BY <1>2, <1>3, <1>4, <1>5, <1>6, PollerThen DEF Wakes

-----------------------------------------------------------------------------

LEMMA PollerInitially == PollerInit => PollerInv
<1> SUFFICES ASSUME PollerInit PROVE PollerInv
    OBVIOUS
<1>1. SqsInv /\ copies = <<>> /\ DOMAIN copies = {}
    BY SqsInitially DEF PollerInit, Init
<1>2. /\ consumer = "none" /\ scheduled = FALSE /\ turns = EmptyBag /\ heard = {}
      /\ poll = [p \in Polls |-> NoPoll] /\ returned = [k \in 1 .. MaxCopies |-> -1]
    BY DEF PollerInit
<1>3. PollsTyped
    BY <1>2, NoPollIsOne DEF PollsTyped, BatchOf
<1>4. TurnsTyped /\ ConsumerTyped /\ HeardHere
    BY <1>2, NoneIn, NoPollIsOne DEF TurnsTyped, ConsumerTyped, HeardHere, UnderWay
<1>5. ReturnedTyped
    BY <1>2, PollerBounds DEF ReturnedTyped
<1>6. StopLeavesNothingScheduled /\ PolledWhenItComesBack /\ NeverAsleep /\ NoneLeftWaiting
    BY <1>2 DEF StopLeavesNothingScheduled, PolledWhenItComesBack, NeverAsleep, NoneLeftWaiting
<1>7. PartIsReturned
    BY <1>2, NoPollIsOne DEF PartIsReturned
<1> QED BY <1>1, <1>3, <1>4, <1>5, <1>6, <1>7 DEF PollerInv, PollerTyped

LEMMA PollingKeeps == ASSUME PollerInv, NEW p \in Polls, Polling(p) PROVE PollerInv'
BY DeferredTurnKeeps, ClockTurnKeeps, AsksKeeps, ReceivesNothingKeeps, ReceivesABatchKeeps, ConsumesKeeps,
   DeletesKeeps, ThrowsKeeps DEF Polling

LEMMA ActivateKeeps == ASSUME PollerInv, Activate PROVE PollerInv'
BY ReadyKeeps DEF Activate

LEMMA StartContainerKeeps == ASSUME PollerInv, StartContainer PROVE PollerInv'
BY ReadyKeeps DEF StartContainer

LEMMA PollerStep == ASSUME PollerInv, [PollerNext]_allVars PROVE PollerInv'
BY StartMappingKeeps, ActivateKeeps, StartContainerKeeps, StopKeeps, PollingKeeps, OthersKeep, PollerStutters
DEF PollerNext

LEMMA PollerInvHolds == PollerSpec => []PollerInv
BY PollerInitially, PollerStep, PTL DEF PollerSpec

(* The consumer, its polls, the turns they wait for and the batches they     *)
(* hold have their types, and every receipt in a batch is one the queue gave *)
(* out.                                                                      *)
THEOREM PollerTypesHold == PollerSpec => []PollerTypeOK
<1>1. PollerInv => PollerTypeOK
  <2> SUFFICES ASSUME PollerInv PROVE PollerTypeOK
      OBVIOUS
  <2>1. PollerTyped
    BY DEF PollerInv
  <2>2. \A p \in Polls : poll[p].at \in Stages /\ BatchOf(p)
    BY <2>1, APollState DEF PollerTyped, PollsTyped
  <2> QED BY <2>1, <2>2
      DEF PollerTyped, PollerTypeOK, TurnsTyped, ConsumerTyped, HeardHere, ReturnedTyped, BatchOf
<1> QED BY <1>1, PollerInvHolds, PTL

(* A consumer that is ready never sleeps over a queue that holds a message:  *)
(* some poll is under way, handed to the host or waiting on the clock.       *)
THEOREM NeverAsleepOverMessagesHolds == PollerSpec => []NeverAsleepOverMessages
<1>1. PollerInv => NeverAsleepOverMessages
    BY DEF PollerInv, NeverAsleep, NeverAsleepOverMessages, WillReceive, UnderWay
<1> QED BY <1>1, PollerInvHolds, PTL

(* A message it has had word of, and that is hidden, is polled for at the    *)
(* instant it comes back.                                                    *)
THEOREM PolledWhenItComesBackHolds == PollerSpec => []PolledWhenItComesBack
<1>1. PollerInv => PolledWhenItComesBack
    BY DEF PollerInv
<1> QED BY <1>1, PollerInvHolds, PTL

(* A consumer that has gone leaves nothing waiting on the clock, whatever    *)
(* its polls were doing when it went.                                        *)
THEOREM StopHolds == PollerSpec => []StopLeavesNothingScheduled
<1>1. PollerInv => StopLeavesNothingScheduled
    BY DEF PollerInv
<1> QED BY <1>1, PollerInvHolds, PTL

(* Once nothing is left to run before the clock moves, no message that the   *)
(* poller has had word of waits to be received, for every batch size.        *)
THEOREM SettledMeansDeliveredHolds == PollerSpec => []SettledMeansDelivered
<1>1. PollerInv => SettledMeansDelivered
  <2> SUFFICES ASSUME PollerInv, consumer = "ready", Settled, \A k \in DOMAIN returned : returned[k] < 0,
                      Receivable(Polled, copies) \cap heard # {}
               PROVE  FALSE
      BY DEF SettledMeansDelivered
  <2>1. NoneReturned /\ TurnsTyped /\ SqsInv
    BY DEF PollerInv, PollerTyped, ReturnedTyped, NoneReturned
  <2>2. TurnDue \/ \E p \in Polls : WillPoll(p)
    BY <2>1 DEF PollerInv, NoneLeftWaiting
  <2>3. ~TurnDue
    <3>1. now \in Nat /\ \A i \in BagToSet(turns) : i \in Nat /\ i > now
      BY <2>1, CopiesUpToDate DEF TurnsTyped, Settled
    <3>2. \A i \in BagToSet(turns) : ~(i <= now)
      BY <3>1
    <3> QED BY <3>2 DEF TurnDue, Settled
  <2>4. \A p \in Polls : ~WillPoll(p)
    BY DEF Settled, WillPoll, WillReceive, UnderWay
  <2> QED BY <2>2, <2>3, <2>4
<1> QED BY <1>1, PollerInvHolds, PTL
=============================================================================
