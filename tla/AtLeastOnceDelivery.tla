------------------------ MODULE AtLeastOnceDelivery -------------------------
(* What a set of queues promises of the messages sent to them, whichever     *)
(* queue each is on: a message sent is kept, and may be handed out any       *)
(* number of times, until somebody is finished with it or it has been kept   *)
(* for as long as any queue keeps a message.  Either is for good.            *)
EXTENDS Integers

CONSTANTS
    Messages,   \* everything that may ever be sent
    Retention   \* how long a message is kept, at the least

VARIABLES
    now,        \* the instant it is
    fate,       \* what has become of each message
    sentAt,     \* when each was sent
    handed      \* the receipts each was handed out with

vars == <<now, fate, sentAt, handed>>

Fates == {"unsent", "kept", "finished", "outlived"}

Init ==
    /\ now = 0
    /\ fate = [m \in Messages |-> "unsent"]
    /\ sentAt = [m \in Messages |-> 0]
    /\ handed = [m \in Messages |-> {}]

TimePasses ==
    /\ now' > now
    /\ UNCHANGED <<fate, sentAt, handed>>

(* Messages kept at least as long as promised may go at any request.         *)
Outlived(gone) == \A m \in gone : fate[m] = "kept" /\ sentAt[m] + Retention <= now

Become(m, gone, done, new) ==
    IF m \in gone THEN "outlived" ELSE
    IF m \in done THEN "finished" ELSE
    IF m \in new THEN "kept" ELSE fate[m]

(* One request: it sends, hands out or finishes with messages, of those that *)
(* are kept and are not gone by it.                                          *)
Request(gone, taken, done, new) ==
    /\ Outlived(gone)
    /\ \A m \in taken \cup done : fate[m] = "kept" /\ m \notin gone
    /\ \A m \in new : fate[m] = "unsent"
    /\ fate' = [m \in Messages |-> Become(m, gone, done, new)]
    /\ sentAt' = [m \in Messages |-> IF m \in new THEN now ELSE sentAt[m]]
    /\ DOMAIN handed' = Messages
    /\ \A m \in Messages \ taken : handed'[m] = handed[m]
    /\ \A m \in taken :
         \E receipt \in handed'[m] \ handed[m] : handed'[m] = handed[m] \cup {receipt}
    /\ UNCHANGED now

Next ==
    \/ TimePasses
    \/ \E gone \in SUBSET Messages :
         \/ \E taken \in SUBSET Messages : Request(gone, taken, {}, {})
         \/ \E done \in SUBSET Messages : Request(gone, {}, done, {})
         \/ \E m \in Messages : Request(gone, {}, {}, {m})

Spec == Init /\ [][Next]_vars

=============================================================================
