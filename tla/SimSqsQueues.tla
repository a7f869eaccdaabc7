---------------------------- MODULE SimSqsQueues ----------------------------
(* The queues of one simulated SQS scope, one Account and Region.            *)
(*                                                                           *)
(* service/sqs: queue/ (the queues, their lifecycle, their dead-letter       *)
(* targets), message/ (a message, when it can be received, the store of one  *)
(* queue and the receipt handles it has issued) and command/ (the requests). *)
(* A request runs without an await, so each is one step.  What a batch       *)
(* request does is its entries one after the other.                          *)
(*                                                                           *)
(* A message moved to a dead-letter queue is a new SimSqsMessage there, so   *)
(* copies are numbered as they are made.  A message is the number of the     *)
(* copy it was sent as.  A queue holds its copies in the order it took them, *)
(* which is the order of their numbers.  A receipt handle names a copy and   *)
(* which receive of it the handle was issued by.                             *)
EXTENDS Integers, SequencesExt

CONSTANTS
    Names,      \* the names queues may have
    NoQueue,    \* where a copy is once its queue is deleted; no target
    Retentions, \* the retention periods queues may be given
    Default,    \* the one a queue starts from
    Policies,   \* the redrive policies each queue may be given
    MayDelete,  \* the queues that may be deleted
    Timeouts,   \* the visibility timeouts requests ask for
    Delays,     \* the delays messages are sent with
    Limits,     \* how many messages a receive asks for
    NameHold,   \* how long a deleted queue's name is held
    MaxTime,    \* bound: the last instant followed
    MaxCopies,  \* bound: messages sent and moved
    MaxReceives \* bound: receives of one copy

ASSUME QueuesAssumption ==
    /\ NoQueue \notin Names
    /\ Retentions \subseteq Nat \ {0}
    /\ Default \in Retentions
    /\ DOMAIN Policies = Names
    /\ \A q \in Names : Policies[q] \subseteq [target : Names, limit : Nat \ {0}]
    /\ MayDelete \subseteq Names
    /\ Timeouts \subseteq Nat
    /\ Delays \subseteq Nat
    /\ Limits \subseteq Nat \ {0}
    /\ NameHold \in Nat
    /\ MaxTime \in Nat
    /\ MaxCopies \in Nat
    /\ MaxReceives \in Nat

VARIABLES
    now,        \* what the simulation's clock reads
    queues,     \* SimSqsQueueStore.queues, in the order of their creation
    settings,   \* the attributes of each queue
    freeFrom,   \* when SimSqsDeletedQueueNames lets go of each name
    copies,     \* every SimSqsMessage made so far
    ended       \* messages somebody is finished with, for the properties

vars == <<now, queues, settings, freeFrom, copies, ended>>

Copies ==
    [message : 1 .. MaxCopies,
     queue : Names \cup {NoQueue},  \* the queue it was added to
     held : BOOLEAN,                \* whether that queue still holds it
     sentAt : Nat, visibleFrom : Nat, receives : Nat]

NoPolicy == [target |-> NoQueue, limit |-> 1]

Attributes(q) == [retention : Retentions, policy : Policies[q] \cup {NoPolicy}]

Defaults == [retention |-> Default, policy |-> NoPolicy]

Exists(q) == q \in Range(queues)

-----------------------------------------------------------------------------
(* One message: SimSqsMessage and SimSqsMessageVisibility.                   *)

IsVisible(copy) == copy.visibleFrom <= now

IsInFlight(copy) == copy.receives > 0 /\ ~IsVisible(copy)

HasExpired(copy) == copy.sentAt + settings[copy.queue].retention <= now

ReceiveFor(copy, timeout) ==
    [copy EXCEPT !.receives = @ + 1, !.visibleFrom = now + timeout]

HoldsReceiptHandle(copy, receive) == copy.receives = receive

\* mutant: the retention period restarts where the message is moved
OnDeadLetterQueueAfresh(copy, target) ==
    [copy EXCEPT !.queue = target, !.sentAt = now, !.visibleFrom = now, !.receives = 0]

\* mutant: the receives of the queue it left still count
OnDeadLetterQueueAsReceived(copy, target) ==
    [copy EXCEPT !.queue = target, !.visibleFrom = now]

OnDeadLetterQueue(copy, target) ==
    [copy EXCEPT !.queue = target, !.visibleFrom = now, !.receives = 0]

-----------------------------------------------------------------------------
(* What a queue brings up to date before it answers.                         *)

HeldBy(q, all) == {k \in DOMAIN all : all[k].queue = q /\ all[k].held}

Without(gone, all) == [k \in DOMAIN all |-> [all[k] EXCEPT !.held = @ /\ k \notin gone]]

DropExpired(q, all) == Without({k \in HeldBy(q, all) : HasExpired(all[k])}, all)

\* mutant: one receive too many
ExhaustedBeyond(q, all) ==
    {k \in HeldBy(q, all) : IsVisible(all[k]) /\ all[k].receives > settings[q].policy.limit}

Exhausted(q, all) ==
    {k \in HeldBy(q, all) : IsVisible(all[k]) /\ all[k].receives >= settings[q].policy.limit}

Earlier(k, numbers) == {i \in numbers : i < k}

InOrder(numbers) ==
    [i \in 1 .. Cardinality(numbers) |->
       CHOOSE k \in numbers : Cardinality(Earlier(k, numbers)) = i - 1]

(* The copies made of those a queue gives up on, in the order it held them.  *)
Moved(numbers, target, all) ==
    [i \in 1 .. Cardinality(numbers) |-> OnDeadLetterQueue(all[InOrder(numbers)[i]], target)]

\* mutant: a target that is gone takes the messages with it
MoveExhaustedAnyway(q, all) ==
    LET target == settings[q].policy.target
    IN  IF target = NoQueue
          THEN all
          ELSE Without(Exhausted(q, all), all)
                 \o IF Exists(target) THEN Moved(Exhausted(q, all), target, all) ELSE <<>>

\* mutant: what is moved is left where it was as well
MoveExhaustedCopying(q, all) ==
    LET target == settings[q].policy.target
    IN  IF target = NoQueue \/ ~Exists(target)
          THEN all
          ELSE all \o Moved(Exhausted(q, all), target, all)

(* SimSqsDeadLetterTargets.move: a queue with nowhere to move a message to   *)
(* gives up on nothing.                                                      *)
MoveExhausted(q, all) ==
    LET target == settings[q].policy.target
    IN  IF target = NoQueue \/ ~Exists(target)
          THEN all
          ELSE Without(Exhausted(q, all), all) \o Moved(Exhausted(q, all), target, all)

QueueUpToDate(q, all) == MoveExhausted(q, DropExpired(q, all))

(* SimSqsQueueStore.applyLifecycle: every queue in turn.                     *)
BroughtUpTo[i \in 0 .. Len(queues)] ==
    IF i = 0 THEN copies ELSE QueueUpToDate(queues[i], BroughtUpTo[i - 1])

UpToDate == BroughtUpTo[Len(queues)]

-----------------------------------------------------------------------------

Init ==
    /\ now = 0
    /\ queues = <<>>
    /\ settings = [q \in Names |-> Defaults]
    /\ freeFrom = [q \in Names |-> 0]
    /\ copies = <<>>
    /\ ended = {}

(* What every request leaves behind, all being the copies it comes to.       *)
Answer(all) ==
    /\ Len(all) <= MaxCopies
    /\ copies' = all
    /\ UNCHANGED now

Keeps(all) == Answer(all) /\ UNCHANGED ended

AcceptsTarget(given) == given.policy = NoPolicy \/ Exists(given.policy.target)

(* Only what a request names changes: one with no redrive policy leaves the  *)
(* one the queue has.                                                        *)
With(current, given) ==
    IF given.policy = NoPolicy
      THEN [current EXCEPT !.retention = given.retention]
      ELSE given

(* CreateQueue, for a name no queue has.  It brings no queue up to date.     *)
CreateQueue(q, given) ==
    /\ ~Exists(q)
    /\ now >= freeFrom[q]
    /\ AcceptsTarget(given)
    /\ queues' = Append(queues, q)
    /\ settings' = [settings EXCEPT ![q] = With(@, given)]
    /\ UNCHANGED <<now, freeFrom, copies, ended>>

(* Everything else starts by bringing every queue up to date, and a request  *)
(* that only reads, or is then refused, does nothing more.                   *)
Look ==
    /\ Keeps(UpToDate)
    /\ UNCHANGED <<queues, settings, freeFrom>>

SetQueueAttributes(q, given) ==
    /\ Exists(q)
    /\ AcceptsTarget(given)
    /\ settings' = [settings EXCEPT ![q] = With(@, given)]
    /\ Keeps(UpToDate)
    /\ UNCHANGED <<queues, freeFrom>>

MessagesHeld(q, all) == {all[k].message : k \in HeldBy(q, all)}

\* mutant: what the queue held waits for the next queue of its name
ForgottenByNameAlone(q, all) == all

\* mutant: the handles it issued are still looked up under its name
ForgottenButForHandles(q, all) == Without(HeldBy(q, all), all)

(* A queue that is deleted takes its messages and its handles with it.       *)
Forgotten(q, all) ==
    [k \in DOMAIN all |-> IF all[k].queue = q THEN [all[k] EXCEPT !.queue = NoQueue, !.held = FALSE]
                                             ELSE all[k]]

DeleteQueue(q) ==
    /\ q \in MayDelete
    /\ Answer(Forgotten(q, UpToDate))
    /\ ended' = ended \cup MessagesHeld(q, UpToDate)
    /\ \E i \in DOMAIN queues : queues[i] = q /\ queues' = RemoveAt(queues, i)
    /\ settings' = [settings EXCEPT ![q] = Defaults]
    /\ freeFrom' = [freeFrom EXCEPT ![q] = now + NameHold]

PurgeQueue(q) ==
    /\ Exists(q)
    /\ Answer(Without(HeldBy(q, UpToDate), UpToDate))
    /\ ended' = ended \cup MessagesHeld(q, UpToDate)
    /\ UNCHANGED <<queues, settings, freeFrom>>

SendMessage(q, delay) ==
    /\ Exists(q)
    /\ Keeps(Append(UpToDate,
                    [message |-> Len(UpToDate) + 1, queue |-> q, held |-> TRUE,
                     sentAt |-> now, visibleFrom |-> now + delay, receives |-> 0]))
    /\ UNCHANGED <<queues, settings, freeFrom>>

Receivable(q, all) == {k \in HeldBy(q, all) : IsVisible(all[k])}

Oldest(numbers, limit) == {k \in numbers : Cardinality(Earlier(k, numbers)) < limit}

(* The oldest messages that can be received, each hidden for the timeout.    *)
ReceiveMessage(q, limit, timeout) ==
    /\ Exists(q)
    /\ LET all == QueueUpToDate(q, UpToDate)
           taken == Oldest(Receivable(q, all), limit)
       IN  /\ Len(all) <= MaxCopies
           /\ \A k \in taken : all[k].receives < MaxReceives
           /\ copies' = [k \in DOMAIN all |->
                           IF k \in taken THEN ReceiveFor(all[k], timeout) ELSE all[k]]
    /\ UNCHANGED <<now, queues, settings, freeFrom, ended>>

(* The receipt handles a queue has issued.                                   *)
Handles(q) ==
    {handle \in [copy : DOMAIN copies, receive : 1 .. MaxReceives] :
       /\ copies[handle.copy].queue = q
       /\ handle.receive <= copies[handle.copy].receives}

(* A message is finished with by whoever received it last, while the queue   *)
(* still holds it.                                                           *)
Finishes(handle, all) ==
    all[handle.copy].held /\ handle.receive = all[handle.copy].receives

(* A handle an earlier receive was given is accepted and deletes nothing.    *)
DeleteMessage(q, handle) ==
    /\ Exists(q)
    /\ handle \in Handles(q)
    /\ LET all == QueueUpToDate(q, UpToDate)
           gone == IF HoldsReceiptHandle(all[handle.copy], handle.receive)
                     THEN {handle.copy} ELSE {}
       IN  /\ Answer(Without(gone, all))
           /\ ended' = ended \cup (IF Finishes(handle, all) THEN {all[handle.copy].message} ELSE {})
    /\ UNCHANGED <<queues, settings, freeFrom>>

(* Any handle the queue issued changes how long its message stays hidden,    *)
(* while the message is in flight.                                           *)
ChangeMessageVisibility(q, handle, timeout) ==
    /\ Exists(q)
    /\ handle \in Handles(q)
    /\ LET all == QueueUpToDate(q, UpToDate)
           k == handle.copy
       IN  /\ IsInFlight(all[k])
           /\ Len(all) <= MaxCopies
           /\ copies' = [all EXCEPT ![k].visibleFrom = now + timeout]
    /\ UNCHANGED <<now, queues, settings, freeFrom, ended>>

TimePasses ==
    /\ now < MaxTime
    /\ now' = now + 1
    /\ UNCHANGED <<queues, settings, freeFrom, copies, ended>>

(* What may be asked of a queue, but for hiding one of its messages again.   *)
Request(q) ==
    \/ \E given \in Attributes(q) : CreateQueue(q, given) \/ SetQueueAttributes(q, given)
    \/ DeleteQueue(q)
    \/ PurgeQueue(q)
    \/ \E delay \in Delays : SendMessage(q, delay)
    \/ \E limit \in Limits, timeout \in Timeouts : ReceiveMessage(q, limit, timeout)
    \/ \E handle \in Handles(q) : DeleteMessage(q, handle)

Next ==
    \/ TimePasses
    \/ Look
    \/ \E q \in Names :
         \/ Request(q)
         \/ \E handle \in Handles(q), timeout \in Timeouts :
              ChangeMessageVisibility(q, handle, timeout)

Spec == Init /\ [][Next]_vars

-----------------------------------------------------------------------------

TypeOK ==
    /\ now \in 0 .. MaxTime
    /\ IsInjective(queues) /\ Range(queues) \subseteq Names
    /\ \A q \in Names : settings[q] \in Attributes(q)
    /\ copies \in Seq(Copies)
    /\ \A k \in DOMAIN copies : copies[k].held => Exists(copies[k].queue)

(* A message is in one place: moving it to a dead-letter queue, any number   *)
(* of times and in circles too, never leaves it on two queues.               *)
HeldOnce ==
    \A k, l \in DOMAIN copies :
      copies[k].held /\ copies[l].held /\ copies[k].message = copies[l].message => k = l

(* "Running it twice at one instant does nothing the second time": bringing  *)
(* a queue up to date leaves it nothing more to drop or to move, whatever it *)
(* moved and wherever to.                                                    *)
BringingUpToDateTwice ==
    \A q \in Range(queues) :
      QueueUpToDate(q, QueueUpToDate(q, copies)) = QueueUpToDate(q, copies)

(* A queue created under the name of one that was deleted starts afresh:     *)
(* under a name that has no queue there is no message for it to come upon,   *)
(* no receipt handle that would still find one, and no setting that a        *)
(* request naming only some of them would leave as its predecessor had it.   *)
NothingOutlivesItsQueue ==
    \A q \in Names : ~Exists(q) =>
      HeldBy(q, copies) = {} /\ Handles(q) = {} /\ settings[q] = Defaults

(* A step hands out copy k.                                                  *)
HandsOut(k) ==
    copies'[k].receives > (IF k \in DOMAIN copies THEN copies[k].receives ELSE 0)

(* A queue that has somewhere to move a message to hands it out no more than *)
(* its redrive policy says, whatever became of the policy and of the target  *)
(* between one receive and the next.                                         *)
GivesUpInTime ==
    [][\A k \in DOMAIN copies' : HandsOut(k) =>
         LET policy == settings[copies'[k].queue].policy
         IN  policy.target # NoQueue /\ Exists(policy.target)
               => copies'[k].receives <= policy.limit]_vars

(* "Retention runs from when the message was sent", and a move to a          *)
(* dead-letter queue is not a send: no queue hands out a message it has      *)
(* outlived, counted from the one time it was sent.                          *)
RetentionRunsFromTheSend ==
    [][\A k \in DOMAIN copies' : HandsOut(k) =>
         now < copies'[copies'[k].message].sentAt + settings[copies'[k].queue].retention]_vars

(* "Real SQS accepts a request carrying" a superseded handle "and does       *)
(* nothing": once a message has been received again, what its earlier        *)
(* consumers ask for leaves the one who holds it now alone with it.          *)
Superseded(handle) == handle.receive < copies[handle.copy].receives

SupersededHandlesDoNothing ==
    [][\A q \in Names : \A handle \in Handles(q) :
         /\ Superseded(handle)
         /\ DeleteMessage(q, handle) \/ \E timeout \in Timeouts : ChangeMessageVisibility(q, handle, timeout)
         => copies'[handle.copy] = UpToDate[handle.copy]]_vars

(* What the queues promise of a message, wherever it is.                     *)
SentAs(m) == m \in DOMAIN copies /\ copies[m].message = m

CopiesOf(m) == {k \in DOMAIN copies : copies[k].message = m}

(* The receives of a message so far, each with a handle of its own.          *)
ReceiptsOf(m) == UNION {{<<k, receive>> : receive \in 1 .. copies[k].receives} : k \in CopiesOf(m)}

FateOf(m) ==
    IF ~SentAs(m) THEN "unsent" ELSE
    IF \E k \in CopiesOf(m) : copies[k].held THEN "kept" ELSE
    IF m \in ended THEN "finished" ELSE "outlived"

Delivery == INSTANCE AtLeastOnceDelivery WITH
    Messages <- 1 .. MaxCopies,
    Retention <- Min(Retentions),
    fate <- [m \in 1 .. MaxCopies |-> FateOf(m)],
    sentAt <- [m \in 1 .. MaxCopies |-> IF SentAs(m) THEN copies[m].sentAt ELSE 0],
    handed <- [m \in 1 .. MaxCopies |-> ReceiptsOf(m)]

(* A message sent is kept, and handed out, until its last receiver deletes   *)
(* it, its queue is purged or deleted, or it outlives its retention: it is   *)
(* never lost on the way to a dead-letter queue, never lost to a consumer    *)
(* too slow for its visibility timeout, and never comes back.                *)
DeliversAtLeastOnce == Delivery!Spec

=============================================================================
