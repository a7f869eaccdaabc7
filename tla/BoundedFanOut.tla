---------------------------- MODULE BoundedFanOut ---------------------------
(* What a state that runs children promises: they begin in the order they    *)
(* are written, at most so many are going at once, the first to fail ends    *)
(* them all, and the state answers once.  A state that has answered may be   *)
(* run again, from the first child.                                          *)
EXTENDS Integers, FiniteSets

CONSTANT Count

VARIABLES
    limit,     \* how many may be going at once
    begun,     \* how many have begun
    going,     \* which are going
    done,      \* which came through
    failed,    \* whether one has failed
    answered   \* whether the state has answered

vars == <<limit, begun, going, done, failed, answered>>

Fresh == begun = 0 /\ going = {} /\ done = {} /\ failed = FALSE /\ answered = FALSE

Init == limit \in Nat /\ Fresh

Begin ==
    /\ ~failed /\ ~answered
    /\ begun < Count /\ Cardinality(going) < limit
    /\ begun' = begun + 1
    /\ going' = going \cup {begun + 1}
    /\ UNCHANGED <<limit, done, failed, answered>>

End ==
    /\ \E c \in going : going' = going \ {c} /\ done' = done \cup {c}
    /\ UNCHANGED <<limit, begun, failed, answered>>

Fail ==
    /\ going # {}
    /\ failed' = TRUE
    /\ going' = {} /\ done' = {}
    /\ UNCHANGED <<limit, begun, answered>>

Answer ==
    /\ ~answered
    /\ failed \/ done = 1 .. Count
    /\ answered' = TRUE
    /\ UNCHANGED <<limit, begun, going, done, failed>>

Again ==
    /\ answered
    /\ begun' = 0 /\ going' = {} /\ done' = {} /\ failed' = FALSE /\ answered' = FALSE
    /\ UNCHANGED limit

Next == Begin \/ End \/ Fail \/ Answer \/ Again

Spec == Init /\ [][Next]_vars

=============================================================================
