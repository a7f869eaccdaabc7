------------------------ MODULE SimClockControlWalks -------------------------
(* What complete() leaves behind, which depends on a walk long over: the one *)
(* failure that cuts a walk short leaves what else was due where the clock   *)
(* stands in the queue, and nobody dispatches it for as long as nobody moves *)
(* the clock.  The module keeps a history of that beside SimClockControl,    *)
(* and changes none of its steps.                                            *)
EXTENDS SimClockControl

VARIABLE leftBehind  \* the entries still queued that a walk cut short left due

walkVars == <<vars, leftBehind>>

(* A walk is cut short by the failure complete() throws out of its loop.     *)
CutShort(c) == OnWalk(c) /\ call'[c].at = "threw"

(* What the walk of c had yet to dispatch without moving the clock on.       *)
StillDue(c) == {entry \in DueBy(call[c].target) : entry.due <= Now}

WalksInit == Init /\ leftBehind = {}

WalksNext ==
    /\ Next
    /\ leftBehind' = queued' \cap
         (leftBehind \cup UNION {StillDue(c) : c \in {d \in Callers : CutShort(d)}})

WalksSpec == WalksInit /\ [][WalksNext]_walkVars

FairWalksSpec == WalksSpec /\ Fairness

-----------------------------------------------------------------------------

(* A walk under way has yet to come to the entry, which complete() leaves to *)
(* the caller whose walk it is.                                              *)
AwaitsAWalk(entry) == \E c \in Callers : OnWalk(c) /\ call[c].target >= entry.due

(* Work other than c's own is stopped: at timers of its own, all of them     *)
(* ahead of a clock that stands still, but for those left behind or on the   *)
(* way of a walk.                                                            *)
OthersAreStopped(c) ==
    \A j \in Held(job) \ {c} :
      /\ Blocked(j) /\ ~Advances
      /\ \A entry \in TimersOf(j) :
           entry.due > Now \/ entry \in leftBehind \/ AwaitsAWalk(entry)

(* Asked for now, complete() finds nothing to race and returns at once.      *)
ReturnsAtOnce(c) == CanAsk(c) /\ Look(c, job, parked, Advances).batch = {}

(* complete(), asked for alone or by setTo, returns at once or after waiting *)
(* only when no other work held can get anywhere on its own: each is stopped *)
(* at a timer of its own that the clock, standing still, has yet to reach.   *)
(* The exceptions are timers that another caller's walk is about to          *)
(* dispatch, and timers that a walk cut short by a failure left due where    *)
(* the clock stands, which the host then fires after complete() returned.    *)
NothingCanMove ==
    /\ [][\A c \in Callers :
            UnderWay(c) /\ call'[c].at = "returned" => OthersAreStopped(c)']_walkVars
    /\ [](\A c \in Callers : ReturnsAtOnce(c) => OthersAreStopped(c))

=============================================================================
