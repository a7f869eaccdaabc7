-------------------------- MODULE InOrderDelivery ---------------------------
(* What a reader of one shard promises of the records on it.  It hands them  *)
(* over a batch at a time, one batch at once, in the order they were written *)
(* and from the first it is not done with.  It is done with a record because *)
(* the function took it or because it gave the record up, and only then goes *)
(* past it.  Two exceptions are the code's: a reader that has not settled on *)
(* a place yet, as one starting at LATEST has not, may lose a batch that     *)
(* fails; and one that has read a closed shard to its end goes back to where *)
(* that read began, and may hand the last batch over again.                  *)
EXTENDS Integers

VARIABLES
    records,    \* how many records were written to the shard
    closed,     \* whether there will be no more
    place,      \* the last record the reader is past, or Unsettled
    handed,     \* the records the function has
    done        \* the records the reader is done with

vars == <<records, closed, place, handed, done>>

Unsettled == -1

Init ==
    /\ records = 0
    /\ closed = FALSE
    /\ place = Unsettled
    /\ handed = {}
    /\ done = {}

Arrive ==
    /\ ~closed
    /\ records' = records + 1
    /\ UNCHANGED <<closed, place, handed, done>>

Close ==
    /\ closed' = TRUE
    /\ UNCHANGED <<records, place, handed, done>>

SettleOn(somewhere) ==
    /\ place = Unsettled
    /\ place' = somewhere
    /\ UNCHANGED <<records, closed, handed, done>>

(* The reader is past what it is done with, unless the shard has ended.      *)
GoesPast(last) == place' = last \/ (closed /\ place' \in Unsettled .. place)

(* Records too old to hand over.                                             *)
PassOver(first, last) ==
    /\ handed = {}
    /\ place \in {Unsettled, first - 1}
    /\ done' = done \cup (first .. last)
    /\ GoesPast(last)
    /\ UNCHANGED <<records, closed, handed>>

HandOver(first, last) ==
    /\ handed = {}
    /\ place \in {Unsettled, first - 1}
    /\ handed' = first .. last
    /\ UNCHANGED <<records, closed, place, done>>

(* What has become of the batch: the reader is done with its records up to   *)
(* one of them, or with all, or with none.                                   *)
Answer(first, upTo, last) ==
    /\ handed = first .. last
    /\ handed' = {}
    /\ done' = done \cup (first .. upTo)
    /\ \/ upTo < last /\ place' = upTo
       \/ upTo = last /\ GoesPast(last)
       \/ upTo < first /\ place' = place
    /\ UNCHANGED <<records, closed>>

Next ==
    \/ Arrive \/ Close
    \/ \E somewhere \in 0 .. records : SettleOn(somewhere)
    \/ \E first, last \in 1 .. records :
         /\ first <= last
         /\ \/ PassOver(first, last) \/ HandOver(first, last)
            \/ \E upTo \in first - 1 .. last : Answer(first, upTo, last)

Spec == Init /\ [][Next]_vars

=============================================================================
