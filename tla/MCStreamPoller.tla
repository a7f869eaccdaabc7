--------------------------- MODULE MCStreamPoller ---------------------------
(* Small instances of SimLambdaStreamPoller.                                 *)
EXTENDS SimLambdaStreamPoller

Base == [latest |-> FALSE, enabled |-> TRUE, bisect |-> FALSE, batchSize |-> 2,
         retries |-> 1, maxAge |-> Unlimited]

(* Retries run out, or are halved away, or are ended by age alone; one that  *)
(* starts at LATEST, and one that is created and not to poll.                *)
EverySetting ==
    {Base,
     [Base EXCEPT !.bisect = TRUE, !.batchSize = 3],
     [Base EXCEPT !.retries = Unlimited, !.maxAge = 0],
     [Base EXCEPT !.latest = TRUE, !.retries = Unlimited],
     [Base EXCEPT !.enabled = FALSE]}

Splitting == {[Base EXCEPT !.bisect = TRUE, !.batchSize = 3]}
=============================================================================
