---------------------------- MODULE MCSqsPoller -----------------------------
(* SimSqsPoller on one queue, work, which redrives nowhere.                  *)
EXTENDS SimSqsPoller

CONSTANTS work, none

Nowhere == (work :> {})

Work == {work}
Nobody == {}
JustOne == {1}
JustTwo == {2}
Zero == {0}
ZeroOne == {0, 1}
=============================================================================
