---------------------------- MODULE MCSqsQueues -----------------------------
(* SimSqsQueues on a queue, work, and a queue it may give up on messages to, *)
(* dead.                                                                     *)
EXTENDS SimSqsQueues

CONSTANTS work, dead, none

To(target, most) == [target |-> target, limit |-> most]

(* What work may be given to redrive to: dead, and in Own itself as well.    *)
Straight == (work :> {To(dead, 1)}) @@ (dead :> {})
Own == (work :> {To(work, 1), To(dead, 1)}) @@ (dead :> {})

Dead == {dead}
None == {}
JustOne == {1}
JustTwo == {2}
Zero == {0}
ZeroOne == {0, 1}
=============================================================================
