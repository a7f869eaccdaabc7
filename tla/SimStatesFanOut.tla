--------------------------- MODULE SimStatesFanOut --------------------------
(* One Step Functions execution whose first state is a Parallel or a Map:    *)
(* service/stepfunctions/execution.  Each branch or iteration is a walk of   *)
(* its own, and a chain of calls drives it: the one StartExecution made, or  *)
(* one the clock made when it released what waited for it.  Chains overlap   *)
(* wherever a task is being waited for.  The code calls itself: a child that *)
(* ends starts the next from inside the call that started it, and "depth"    *)
(* counts those calls.  What a child's states are is left open, and so are   *)
(* instants: a pause is over whenever the clock gets to it.  Left out: data, *)
(* a fan-out inside a branch, which is driven as this one is, and names.     *)
EXTENDS Integers, Sequences, FiniteSets

CONSTANTS
    Count,        \* how many branches or items there are
    Limits,       \* what MaxConcurrency may be; no bound is one as large as Count
    MaxRetries,   \* what the Retry of the fan-out state allows
    MaxAttempts,  \* bound: attempts at states in one child
    Chains        \* bound: chains of calls under way at once

Children == 1 .. Count

ASSUME FanOutAssumption ==
    /\ Count \in Nat
    /\ Limits \subseteq Nat \ {0}
    /\ MaxRetries \in Nat /\ MaxAttempts \in Nat \ {0}

VARIABLES
    limit,      \* SimStatesChildRuns.limit
    status,     \* SimStatesExecution.status
    top,        \* what the execution's own walk is doing
    try,        \* which attempt at the fan-out state is the latest
    fanOuts,    \* SimStatesFanOut and its SimStatesChildRuns, one an attempt
    children,   \* SimStatesChildRun and its walk, of each attempt
    chains      \* the chains of calls

vars == <<limit, status, top, try, fanOuts, children, chains>>

Tries == 1 .. MaxRetries + 1

None == 0

NewFanOut == [waiting |-> <<>>, running |-> 0, ended |-> 0, failure |-> None,
              suspended |-> FALSE, answers |-> 0]

NewChild == [status |-> "NONE", at |-> "out", left |-> MaxAttempts]

NoChain == [at |-> "over", try |-> 1, child |-> None, depth |-> 0, released |-> FALSE]

Stopped(t, c) == children[t][c].status # "RUNNING"

Puts(t, c, child) == children' = [children EXCEPT ![t] = [children[t] EXCEPT ![c] = child]]

(* Whether the children are done enough to say what the state did.           *)
AllButDone(f) == f.ended > Count  \* mutant: one end too many is waited for

Finished(f) == f.ended >= Count

HasOutcome(f) == f.failure # None \/ Finished(f)

-----------------------------------------------------------------------------

Init ==
    /\ limit \in Limits
    /\ status = "NONE" /\ top = "out" /\ try = 0
    /\ fanOuts = [t \in Tries |-> NewFanOut]
    /\ children = [t \in Tries |-> [c \in Children |-> NewChild]]
    /\ chains = [k \in Chains |-> NoChain]

Idle(k) == chains[k].at = "over" /\ k = CHOOSE free \in Chains : chains[free].at = "over"

Goes(k, chain) == chains' = [chains EXCEPT ![k] = chain]

(* The fan-out state is run, by StartExecution or when its retry is due: a   *)
(* new SimStatesFanOut, with every child still to start.                     *)
RunsFanOut(k) ==
    /\ Idle(k)
    /\ try < MaxRetries + 1
    /\ try' = try + 1
    /\ fanOuts' = [fanOuts EXCEPT ![try + 1] = [NewFanOut EXCEPT !.waiting = [i \in 1 .. Count |-> i]]]
    /\ top' = "fan out"
    /\ Goes(k, [NoChain EXCEPT !.at = "starting", !.try = try + 1])
    /\ UNCHANGED <<limit, children>>

StartExecution(k) ==
    /\ status = "NONE"
    /\ status' = "RUNNING"
    /\ RunsFanOut(k)

Retries(k) ==
    /\ top = "paused" /\ status = "RUNNING"
    /\ RunsFanOut(k)
    /\ UNCHANGED status

-----------------------------------------------------------------------------
(* SimStatesChildRuns.start: the next child, where there is room for one.    *)

HasRoomForOneMore(f) == f.running <= limit  \* mutant

HasRoom(f) == f.running < limit

Starts(k) ==
    LET t == chains[k].try
        f == fanOuts[t]
        c == Head(f.waiting)
    IN  /\ chains[k].at = "starting"
        /\ f.waiting # <<>> /\ HasRoom(f)
        /\ fanOuts' = [fanOuts EXCEPT ![t] = [f EXCEPT !.waiting = Tail(@), !.running = @ + 1]]
        /\ Puts(t, c, [children[t][c] EXCEPT !.status = "RUNNING", !.at = "running", !.left = @ - 1])
        /\ Goes(k, [chains[k] EXCEPT !.at = "driving", !.child = c])
        /\ UNCHANGED <<limit, status, top, try>>

(* A call returns: to the one that was starting children, or to the clock.   *)
Returned(chain) ==
    IF chain.depth = 0 /\ chain.released THEN NoChain
    ELSE [chain EXCEPT !.at = "starting", !.child = None]

(* SimStatesFanOut.settled: a child has ended.  One that fails takes the     *)
(* state with it, and its siblings are given up.                             *)
Abandoned(siblings) ==
    [c \in Children |->
        IF siblings[c].status = "RUNNING" THEN [siblings[c] EXCEPT !.status = "ABANDONED"]
        ELSE siblings[c]]

\* mutant: a child that failed is counted like any other
CountsAnyEnd(k, runs) ==
    LET t == chains[k].try
    IN  /\ Goes(k, [chains[k] EXCEPT !.at = "starting", !.child = None, !.depth = @ + 1])
        /\ fanOuts' = [fanOuts EXCEPT ![t] = [@ EXCEPT !.running = @ - 1, !.ended = @ + 1]]
        /\ children' = [children EXCEPT ![t] = runs]

Counts(k, runs) ==
    LET t == chains[k].try
        c == chains[k].child
        ended == [fanOuts[t] EXCEPT !.running = @ - 1, !.ended = @ + 1]
    IN  /\ Goes(k, [chains[k] EXCEPT !.at = "starting", !.child = None, !.depth = @ + 1])
        /\ \/ /\ runs[c].status = "FAILED"
              /\ fanOuts' = [fanOuts EXCEPT ![t] = [ended EXCEPT !.failure = c, !.waiting = <<>>]]
              /\ children' = [children EXCEPT ![t] = Abandoned(runs)]
           \/ /\ runs[c].status # "FAILED"
              /\ fanOuts' = [fanOuts EXCEPT ![t] = ended]
              /\ children' = [children EXCEPT ![t] = runs]

SettledLate(k, runs) == Counts(k, runs)  \* mutant: an end after the failure counts

Settled(k, runs) ==
    LET t == chains[k].try
    IN  \/ /\ fanOuts[t].failure # None
           /\ children' = [children EXCEPT ![t] = runs]
           /\ Goes(k, Returned(chains[k]))
           /\ UNCHANGED fanOuts
        \/ fanOuts[t].failure = None /\ Counts(k, runs)

-----------------------------------------------------------------------------
(* SimStatesInterpreter, walking a child.                                    *)

Drives(k) == chains[k].at = "driving"

Walked(k) == children[chains[k].try][chains[k].child]

With(k, child) == [children[chains[k].try] EXCEPT ![chains[k].child] = child]

(* A state answered and there is one after it: the walk goes on unless it    *)
(* has been given up meanwhile.                                              *)
GoesOn(k) ==
    /\ Drives(k)
    /\ ~Stopped(chains[k].try, chains[k].child)
    /\ Walked(k).left > 0
    /\ Puts(chains[k].try, chains[k].child, [Walked(k) EXCEPT !.left = @ - 1])
    /\ UNCHANGED <<limit, status, top, try, fanOuts, chains>>

WalksNoFurther(k) ==
    /\ Drives(k)
    /\ Stopped(chains[k].try, chains[k].child)
    /\ Settled(k, With(k, [Walked(k) EXCEPT !.at = "over", !.left = 0]))
    /\ UNCHANGED <<limit, status, top, try>>

\* mutant: the walk goes on as well
PausesAndGoesOn(k) ==
    /\ Drives(k)
    /\ Walked(k).left > 0
    /\ Puts(chains[k].try, chains[k].child, [Walked(k) EXCEPT !.at = "paused"])
    /\ UNCHANGED <<limit, status, top, try, fanOuts, chains>>

(* A Wait state, or a task that is to be retried, leaves the rest to the     *)
(* clock, given up or not.                                                   *)
Pauses(k) ==
    /\ Drives(k)
    /\ Walked(k).left > 0
    /\ Puts(chains[k].try, chains[k].child, [Walked(k) EXCEPT !.at = "paused"])
    /\ Goes(k, Returned(chains[k]))
    /\ UNCHANGED <<limit, status, top, try, fanOuts>>

(* The last state answered, or one failed for good: SimStatesSettlement      *)
(* records it on the child, given up or not.                                 *)
Ends(k) ==
    /\ Drives(k)
    /\ \E how \in {"SUCCEEDED", "FAILED"} :
         Settled(k, With(k, [Walked(k) EXCEPT !.at = "over", !.left = 0, !.status = how]))
    /\ UNCHANGED <<limit, status, top, try>>

(* The clock gets to what a child waits for; one given up is left alone.     *)
Releases(k) ==
    \E t \in Tries, c \in Children :
      /\ children[t][c].at = "paused"
      /\ Idle(k)
      /\ UNCHANGED <<limit, status, top, try, fanOuts>>
      /\ \/ /\ Stopped(t, c)
            /\ Puts(t, c, [children[t][c] EXCEPT !.at = "over", !.left = 0])
            /\ UNCHANGED chains
         \/ /\ ~Stopped(t, c)
            /\ Puts(t, c, [children[t][c] EXCEPT !.at = "running", !.left = @ - 1])
            /\ Goes(k, [at |-> "driving", try |-> t, child |-> c, depth |-> 0, released |-> TRUE])

-----------------------------------------------------------------------------
(* The fan-out state answers the execution's walk.                           *)

(* A failure is retried, caught or ends the execution, and so is a result    *)
(* the state has nowhere to put; any other moves the execution on or ends it.*)
Answers(k, t) ==
    \/ /\ try <= MaxRetries
       /\ top' = "paused"
       /\ UNCHANGED status
       /\ Goes(k, [chains[k] EXCEPT !.at = "answered"])
    \/ /\ top' = "next"
       /\ UNCHANGED status
       /\ Goes(k, [chains[k] EXCEPT !.at = "moving on"])
    \/ /\ top' = "over"
       /\ status' \in IF fanOuts[t].failure # None THEN {"FAILED"} ELSE {"SUCCEEDED", "FAILED"}
       /\ Goes(k, [chains[k] EXCEPT !.at = "answered"])

(* There is no room for another child, or none left to start.                *)
HasStarted(k) ==
    /\ chains[k].at = "starting"
    /\ fanOuts[chains[k].try].waiting = <<>> \/ ~HasRoom(fanOuts[chains[k].try])
    /\ UNCHANGED <<limit, try, children>>

(* SimStatesFanOut.run answers itself with what it has by then, or suspends. *)
AnswersAtOnce(k) ==
    LET t == chains[k].try
    IN  /\ HasStarted(k) /\ chains[k].depth = 0
        /\ HasOutcome(fanOuts[t])
        /\ Answers(k, t)
        /\ fanOuts' = [fanOuts EXCEPT ![t] = [fanOuts[t] EXCEPT !.answers = @ + 1]]

\* mutant: the state does not say that it has suspended
SuspendsSilently(k) ==
    /\ HasStarted(k) /\ chains[k].depth = 0
    /\ ~HasOutcome(fanOuts[chains[k].try])
    /\ top' = "pending"
    /\ Goes(k, NoChain)
    /\ UNCHANGED <<status, fanOuts>>

Suspends(k) ==
    /\ HasStarted(k) /\ chains[k].depth = 0
    /\ ~HasOutcome(fanOuts[chains[k].try])
    /\ fanOuts' = [fanOuts EXCEPT ![chains[k].try] = [fanOuts[chains[k].try] EXCEPT !.suspended = TRUE]]
    /\ top' = "pending"
    /\ Goes(k, NoChain)
    /\ UNCHANGED status

\* mutant: it still counts as suspended once it has answered
ResumesAgain(k) ==
    LET t == chains[k].try
    IN  /\ HasStarted(k) /\ chains[k].depth > 0
        /\ fanOuts[t].suspended /\ HasOutcome(fanOuts[t])
        /\ Answers(k, t)
        /\ fanOuts' = [fanOuts EXCEPT ![t] = [fanOuts[t] EXCEPT !.answers = @ + 1]]

(* SimStatesFanOut.resumed: a suspended state answers through the walk.      *)
Resumes(k) ==
    LET t == chains[k].try
    IN  /\ HasStarted(k) /\ chains[k].depth > 0
        /\ fanOuts[t].suspended /\ HasOutcome(fanOuts[t])
        /\ status = "RUNNING"
        /\ Answers(k, t)
        /\ fanOuts' = [fanOuts EXCEPT ![t] = [fanOuts[t] EXCEPT !.suspended = FALSE, !.answers = @ + 1]]

NothingToResume(k) ==
    /\ HasStarted(k) /\ chains[k].depth > 0
    /\ ~(fanOuts[chains[k].try].suspended /\ HasOutcome(fanOuts[chains[k].try]))
    /\ Goes(k, Returned([chains[k] EXCEPT !.depth = @ - 1]))
    /\ UNCHANGED <<status, top, fanOuts>>

(* The states after the fan-out, to the end of the execution.                *)
MovesOn(k) ==
    /\ chains[k].at = "moving on"
    /\ top' = "over"
    /\ status' \in {"SUCCEEDED", "FAILED"}
    /\ Goes(k, [chains[k] EXCEPT !.at = "answered"])
    /\ UNCHANGED <<limit, try, fanOuts, children>>

(* The call that answered returns.                                           *)
AnswerReturns(k) ==
    /\ chains[k].at = "answered"
    /\ Goes(k, IF chains[k].depth = 0 THEN NoChain
               ELSE Returned([chains[k] EXCEPT !.depth = @ - 1]))
    /\ UNCHANGED <<limit, status, top, try, fanOuts, children>>

Calls(k) ==
    \/ Starts(k) \/ GoesOn(k) \/ WalksNoFurther(k) \/ Pauses(k) \/ Ends(k)
    \/ AnswersAtOnce(k) \/ Suspends(k) \/ Resumes(k) \/ NothingToResume(k)
    \/ MovesOn(k) \/ AnswerReturns(k)

ClockReleases == \E k \in Chains : Retries(k) \/ Releases(k)

Next == (\E k \in Chains : StartExecution(k) \/ Calls(k)) \/ ClockReleases

(* Tasks answer; nothing makes the clock move on.                            *)
Spec == Init /\ [][Next]_vars /\ \A k \in Chains : WF_vars(Calls(k))

-----------------------------------------------------------------------------

Status(t, how) == {c \in Children : children[t][c].status = how}

FanOutTypeOK ==
    /\ limit \in Limits
    /\ status \in {"NONE", "RUNNING", "SUCCEEDED", "FAILED"}
    /\ top \in {"out", "fan out", "pending", "paused", "next", "over"}
    /\ try \in 0 .. MaxRetries + 1
    /\ fanOuts \in [Tries -> [waiting : Seq(Children), running : 0 .. Count, ended : 0 .. Count,
                              failure : {None} \cup Children, suspended : BOOLEAN, answers : 0 .. 1]]
    /\ children \in [Tries -> [Children ->
                       [status : {"NONE", "RUNNING", "SUCCEEDED", "FAILED", "ABANDONED"},
                        at : {"out", "running", "paused", "over"}, left : 0 .. MaxAttempts]]]
    /\ chains \in [Chains -> [at : {"over", "starting", "driving", "moving on", "answered"},
                              try : Tries, child : {None} \cup Children, depth : 0 .. Count,
                              released : BOOLEAN]]

(* The counts the bound and the end of a fan-out are read off are those of   *)
(* its children: as many are running as it says, as many have ended, and the *)
(* children still to start are the last ones (child-runs.ts, where they are  *)
(* counted in one place and added up in another).                            *)
CountsItsChildren ==
    \A t \in 1 .. try : fanOuts[t].failure = None =>
        /\ fanOuts[t].running = Cardinality(Status(t, "RUNNING"))
        /\ fanOuts[t].ended = Cardinality(Status(t, "SUCCEEDED"))
        /\ fanOuts[t].waiting = [i \in 1 .. Cardinality(Status(t, "NONE")) |->
                                   i + Count - Cardinality(Status(t, "NONE"))]

(* A child is in the hands of one chain of calls at most, and is on the      *)
(* clock or in its hands but never both, whatever was released meanwhile.    *)
OneChainPerChild ==
    \A t \in Tries, c \in Children :
        LET driving == {k \in Chains : Drives(k) /\ chains[k].try = t /\ chains[k].child = c}
        IN  /\ children[t][c].at = "running" <=> driving # {}
            /\ \A j, k \in driving : j = k

(* An execution that is running has a chain of calls at work, or something   *)
(* on the clock that carries it on: a state that suspended is always owed    *)
(* the end of a child that has not been given up (fan-out.ts, "suspended").  *)
NeverStuck ==
    status = "RUNNING" =>
        \/ \E k \in Chains : chains[k].at # "over"
        \/ top = "paused"
        \/ top = "pending" /\ \E c \in Status(try, "RUNNING") : children[try][c].at = "paused"

(* Once a fan-out has answered nothing changes it: a child of it that ends   *)
(* late, after its state failed, was retried and runs again, is not counted  *)
(* (fan-out.ts, settled).                                                    *)
AnswerStands ==
    [][\A t \in Tries : fanOuts[t].answers > 0 => fanOuts'[t] = fanOuts[t]]_vars

(* An execution ends once: nothing that comes back late ends it again.       *)
ExecutionEndsOnce ==
    [][status = "SUCCEEDED" \/ status = "FAILED" => status' = status /\ top' = top]_vars

(* As long as the clock moves on, the execution comes to an end, whichever   *)
(* children fail, pause or are given up (fan-out.ts, state-attempts.ts).     *)
ExecutionEnds ==
    WF_vars(ClockReleases) => (status = "RUNNING" ~> status \in {"SUCCEEDED", "FAILED"})

(* What the latest attempt promises of its children: begun in the order they *)
(* are written, never more at once than the bound, none after a failure; and *)
(* one answer, of all of them or of the one that failed.                     *)
Latest == IF try = 0 THEN 1 ELSE try

Going == fanOuts[Latest].failure = None

BegunSoFar == Cardinality(Children \ Status(Latest, "NONE"))

Underway == IF Going THEN Status(Latest, "RUNNING") ELSE {}

Through == IF Going THEN Status(Latest, "SUCCEEDED") ELSE {}

Answered == fanOuts[Latest].answers > 0

Promise == INSTANCE BoundedFanOut WITH
    begun <- BegunSoFar, going <- Underway, done <- Through, failed <- ~Going, answered <- Answered

(* The calls, pauses and late ends of the children keep that promise.        *)
KeepsThePromise == Promise!Spec

=============================================================================
