----------------------- MODULE SimStatesFanOutProofs ------------------------
(* Theorems about one fan-out execution, for every number of children, every *)
(* bound on how many run at once and every number of chains of calls.        *)
EXTENDS SimStatesFanOut, FiniteSetTheorems, TLAPS

AFanOut == [waiting : Seq(Children), running : 0 .. Count, ended : 0 .. Count,
            failure : {None} \cup Children, suspended : BOOLEAN, answers : 0 .. 1]

AChild == [status : {"NONE", "RUNNING", "SUCCEEDED", "FAILED", "ABANDONED"},
           at : {"out", "running", "paused", "over"}, left : 0 .. MaxAttempts]

AChain == [at : {"over", "starting", "driving", "moving on", "answered"},
           try : Tries, child : {None} \cup Children, depth : 0 .. Count, released : BOOLEAN]

LEMMA Bounds ==
    Count \in Nat /\ MaxRetries \in Nat /\ MaxAttempts \in Nat /\ MaxAttempts > 0 /\ Limits \subseteq Nat \ {0}
BY FanOutAssumption DEF FanOutAssumption

-----------------------------------------------------------------------------
(* One attempt: what a fan-out counts, f, and its children, kids.            *)

Those(kids, how) == {c \in Children : kids[c].status = how}

(* Before a child fails: the counts are those of the children.               *)
Counted(f, kids) ==
    /\ \A c \in Children :
         /\ kids[c].status \in {"NONE", "RUNNING", "SUCCEEDED"}
         /\ kids[c].at \in {"running", "paused"} => kids[c].status = "RUNNING"
         /\ kids[c].status = "NONE" <=> c > Count - Len(f.waiting)
    /\ f.running = Cardinality(Those(kids, "RUNNING"))
    /\ f.ended = Cardinality(Those(kids, "SUCCEEDED"))
    /\ Len(f.waiting) <= Count
    /\ f.waiting = [i \in 1 .. Len(f.waiting) |-> i + Count - Len(f.waiting)]

(* After one: none is left to start, and none counts as running.             *)
GivenUp(f, kids) ==
    f.waiting = <<>> /\ \A c \in Children : kids[c].status # "RUNNING"

ChildSound(child) ==
    /\ child.status = "NONE" <=> child.at = "out"
    /\ child.status = "NONE" => child.left = MaxAttempts
    /\ child.at = "paused" => child.left > 0
    /\ child.status = "RUNNING" => child.at \in {"running", "paused"}

Agree(f, kids) ==
    /\ f \in AFanOut /\ kids \in [Children -> AChild]
    /\ \A c \in Children : ChildSound(kids[c])
    /\ f.failure = None => Counted(f, kids)
    /\ f.failure # None => GivenUp(f, kids)

LEMMA ThoseAreFinite ==
    ASSUME NEW kids, NEW how
    PROVE  /\ IsFiniteSet(Those(kids, how)) /\ Cardinality(Those(kids, how)) \in 0 .. Count
           /\ Cardinality(Those(kids, how)) = Count => Those(kids, how) = Children
<1>1. IsFiniteSet(Children) /\ Cardinality(Children) = Count
    BY Bounds, FS_Interval DEF Children
<1>2. Those(kids, how) \in SUBSET Children
    BY DEF Those
<1>3. IsFiniteSet(Those(kids, how)) /\ Cardinality(Those(kids, how)) <= Count
      /\ (Cardinality(Those(kids, how)) = Count => Those(kids, how) = Children)
    BY <1>1, <1>2, FS_Subset
<1>4. Cardinality(Those(kids, how)) \in Nat
    BY <1>3, FS_CardinalityType
<1> QED BY <1>3, <1>4, Bounds

Fresh == [c \in Children |-> NewChild]

Begun == [NewFanOut EXCEPT !.waiting = [i \in 1 .. Count |-> i]]

LEMMA BegunAgrees == Agree(Begun, Fresh)
<1>1. Begun.waiting = [i \in 1 .. Count |-> i] /\ Begun.running = 0 /\ Begun.ended = 0 /\ Begun.failure = None
    BY DEF Begun, NewFanOut
<1>2. [i \in 1 .. Count |-> i] \in Seq(Children) /\ Len([i \in 1 .. Count |-> i]) = Count
    BY Bounds DEF Children
<1>3. Begun \in AFanOut
  <2> DEFINE all == [i \in 1 .. Count |-> i]
  <2> HIDE DEF all
  <2>1. all \in Seq(Children) /\ 0 \in 0 .. Count /\ 0 \in 0 .. 1
    BY <1>2, Bounds DEF all
  <2>2. NewFanOut \in AFanOut
    <3>1. <<>> \in Seq(Children) /\ 0 \in 0 .. Count /\ 0 \in 0 .. 1
      BY <2>1
    <3> QED BY <3>1 DEF NewFanOut, AFanOut
  <2>3. Begun = [NewFanOut EXCEPT !.waiting = all]
    BY DEF Begun, all
  <2> HIDE DEF Begun, NewFanOut
  <2> QED BY <2>1, <2>2, <2>3 DEF AFanOut
<1>4. Fresh \in [Children -> AChild] /\ \A c \in Children : ChildSound(Fresh[c]) /\ Fresh[c].status = "NONE"
    BY Bounds DEF Fresh, NewChild, AChild, ChildSound
<1>5. Counted(Begun, Fresh)
  <2>1. Those(Fresh, "RUNNING") = {} /\ Those(Fresh, "SUCCEEDED") = {}
    BY <1>4 DEF Those
  <2>2. Cardinality(Those(Fresh, "RUNNING")) = 0 /\ Cardinality(Those(Fresh, "SUCCEEDED")) = 0
    BY <2>1, FS_EmptySet
  <2>3. \A c \in Children : c > Count - Count
    BY Bounds DEF Children
  <2>4. \A c \in Children : Fresh[c].at = "out"
    BY DEF Fresh, NewChild
  <2>5. [i \in 1 .. Count |-> i] = [i \in 1 .. Count |-> i + Count - Count]
    BY Bounds
  <2> QED BY <1>1, <1>2, <1>4, <2>2, <2>3, <2>4, <2>5, Bounds DEF Counted
<1> QED BY <1>1, <1>3, <1>4, <1>5 DEF Agree

(* The next child is the first that has not begun.                           *)
LEMMA NextChild ==
    ASSUME NEW f, NEW kids, Agree(f, kids), f.waiting # <<>>
    PROVE  /\ f.failure = None /\ Head(f.waiting) = Count - Len(f.waiting) + 1
           /\ Head(f.waiting) \in Children /\ kids[Head(f.waiting)].status = "NONE"
           /\ Len(f.waiting) \in 1 .. Count
<1>1. f.failure = None /\ Counted(f, kids) /\ f.waiting \in Seq(Children)
    BY DEF Agree, GivenUp, AFanOut
<1>2. Len(f.waiting) \in 1 .. Count /\ Head(f.waiting) = f.waiting[1] /\ Head(f.waiting) \in Children
    BY <1>1, Bounds DEF Counted
<1>3. PICK n \in 1 .. Count : n = Len(f.waiting)
    BY <1>2
<1>4. f.waiting = [i \in 1 .. n |-> i + Count - n]
    BY <1>1, <1>3 DEF Counted
<1>5. f.waiting[1] = Count - n + 1
  <2>1. 1 \in 1 .. n /\ 1 + Count - n = Count - n + 1
    BY Bounds
  <2>2. f.waiting[1] = 1 + Count - n
    BY <1>4, <2>1
  <2> QED BY <2>1, <2>2
<1>6. kids[Head(f.waiting)].status = "NONE" <=> Head(f.waiting) > Count - n
    BY <1>1, <1>2, <1>3 DEF Counted
<1>7. Head(f.waiting) = Count - n + 1 /\ Count - n + 1 > Count - n
    BY <1>2, <1>5, Bounds
<1> QED BY <1>1, <1>2, <1>3, <1>6, <1>7

(* A child that is at work changes hands without its status changing.        *)
LEMMA WalkAgrees ==
    ASSUME NEW f, NEW kids, Agree(f, kids), NEW c \in Children, NEW child \in AChild, ChildSound(child),
           child.status = kids[c].status,
           child.at \in {"running", "paused"} => kids[c].at \in {"running", "paused"}
    PROVE  Agree(f, [kids EXCEPT ![c] = child])
<1> DEFINE after == [kids EXCEPT ![c] = child]
<1>1. kids \in [Children -> AChild]
    BY DEF Agree
<1>2. /\ after \in [Children -> AChild]
      /\ \A d \in Children : after[d] = IF d = c THEN child ELSE kids[d]
    BY <1>1
<1> HIDE DEF after
<1>3. \A d \in Children : ChildSound(after[d]) /\ after[d].status = kids[d].status
    BY <1>2 DEF Agree
<1>4. Those(after, "RUNNING") = Those(kids, "RUNNING") /\ Those(after, "SUCCEEDED") = Those(kids, "SUCCEEDED")
    BY <1>3 DEF Those
<1>5. CASE f.failure = None
  <2>1. Counted(f, kids)
    BY <1>5 DEF Agree
  <2>2. \A d \in Children : after[d].at \in {"running", "paused"} => after[d].status = "RUNNING"
    BY <1>2, <2>1 DEF Counted
  <2>3. Counted(f, after)
    BY <1>3, <1>4, <2>1, <2>2 DEF Counted
  <2> QED BY <1>2, <1>3, <1>5, <2>3 DEF Agree
<1>6. CASE f.failure # None
  <2>1. GivenUp(f, after)
    BY <1>3, <1>6 DEF Agree, GivenUp
  <2> QED BY <1>2, <1>3, <1>6, <2>1 DEF Agree
<1> QED BY <1>5, <1>6 DEF after

(* A child that ends once its fan-out has failed changes no count.           *)
LEMMA LateAgrees ==
    ASSUME NEW f, NEW kids, Agree(f, kids), f.failure # None, NEW c \in Children, NEW child \in AChild,
           ChildSound(child), child.status # "RUNNING"
    PROVE  Agree(f, [kids EXCEPT ![c] = child])
<1> DEFINE after == [kids EXCEPT ![c] = child]
<1>1. kids \in [Children -> AChild] /\ GivenUp(f, kids)
    BY DEF Agree
<1>2. /\ after \in [Children -> AChild]
      /\ \A d \in Children : after[d] = IF d = c THEN child ELSE kids[d]
    BY <1>1
<1> HIDE DEF after
<1>3. GivenUp(f, after) /\ \A d \in Children : ChildSound(after[d])
    BY <1>1, <1>2 DEF GivenUp, Agree
<1>4. Agree(f, after)
    BY <1>2, <1>3 DEF Agree
<1> QED BY <1>4 DEF after

LEMMA StartAgrees ==
    ASSUME NEW f, NEW kids, Agree(f, kids), f.waiting # <<>>, NEW child \in AChild, ChildSound(child),
           child.status = "RUNNING"
    PROVE  Agree([f EXCEPT !.waiting = Tail(@), !.running = @ + 1], [kids EXCEPT ![Head(f.waiting)] = child])
<1> DEFINE c == Head(f.waiting)
           g == [f EXCEPT !.waiting = Tail(@), !.running = @ + 1]
           after == [kids EXCEPT ![c] = child]
<1>1. /\ f.failure = None /\ c = Count - Len(f.waiting) + 1 /\ c \in Children /\ kids[c].status = "NONE"
      /\ Len(f.waiting) \in 1 .. Count
    BY NextChild
<1>2. f \in AFanOut /\ kids \in [Children -> AChild] /\ Counted(f, kids)
    BY <1>1 DEF Agree
<1>3. f.waiting \in Seq(Children) /\ f.running \in 0 .. Count
    BY <1>2 DEF AFanOut
<1>4. /\ after \in [Children -> AChild]
      /\ \A d \in Children : after[d] = IF d = c THEN child ELSE kids[d]
    BY <1>1, <1>2
<1>5. /\ g.waiting = Tail(f.waiting) /\ g.running = f.running + 1 /\ g.ended = f.ended /\ g.failure = f.failure
      /\ f.running + 1 \in 0 .. Count => g \in AFanOut
  <2>1. Tail(f.waiting) \in Seq(Children)
    BY <1>3
  <2> DEFINE rest == Tail(f.waiting)
             more == f.running + 1
  <2> HIDE DEF rest, more
  <2>2. g = [f EXCEPT !.waiting = rest, !.running = more]
    BY DEF rest, more
  <2>3. rest \in Seq(Children)
    BY <2>1 DEF rest
  <2> HIDE DEF g
  <2>4. /\ g.waiting = rest /\ g.running = more /\ g.ended = f.ended /\ g.failure = f.failure
        /\ more \in 0 .. Count => g \in AFanOut
    BY <1>2, <2>2, <2>3 DEF AFanOut
  <2> QED BY <2>4 DEF rest, more
<1> HIDE DEF after, g
<1>6. Those(after, "RUNNING") = Those(kids, "RUNNING") \cup {c} /\ c \notin Those(kids, "RUNNING")
    BY <1>1, <1>4 DEF Those
<1>7. Those(after, "SUCCEEDED") = Those(kids, "SUCCEEDED")
    BY <1>1, <1>4 DEF Those
<1>8. Cardinality(Those(after, "RUNNING")) = Cardinality(Those(kids, "RUNNING")) + 1
    BY <1>6, ThoseAreFinite, FS_AddElement
<1>9. g.running = Cardinality(Those(after, "RUNNING")) /\ g.ended = Cardinality(Those(after, "SUCCEEDED"))
    BY <1>2, <1>5, <1>7, <1>8 DEF Counted
<1>10. g \in AFanOut
    BY <1>5, <1>9, ThoseAreFinite
<1>11. PICK n \in 1 .. Count : n = Len(f.waiting)
    BY <1>1
<1>12. Len(g.waiting) = n - 1 /\ g.waiting = [i \in 1 .. n - 1 |-> i + Count - (n - 1)]
  <2>1. Len(Tail(f.waiting)) = n - 1 /\ \A i \in 1 .. n - 1 : Tail(f.waiting)[i] = f.waiting[i + 1]
    BY <1>3, <1>11
  <2>2. f.waiting = [i \in 1 .. n |-> i + Count - n]
    BY <1>2, <1>11 DEF Counted
  <2>3. \A i \in 1 .. n - 1 : f.waiting[i + 1] = i + Count - (n - 1)
    <3> SUFFICES ASSUME NEW i \in 1 .. n - 1 PROVE f.waiting[i + 1] = i + Count - (n - 1)
      OBVIOUS
    <3>1. i \in Int /\ n \in Int /\ Count \in Int /\ i + 1 \in 1 .. n
      BY <1>11, Bounds
    <3>2. f.waiting[i + 1] = (i + 1) + Count - n
      BY <2>2, <3>1
    <3> QED BY <3>1, <3>2
  <2>4. Tail(f.waiting) = [i \in 1 .. n - 1 |-> Tail(f.waiting)[i]]
    BY <1>3, <1>11, <2>1
  <2> QED BY <1>5, <2>1, <2>3, <2>4
<1>13. \A d \in Children : after[d].status = "NONE" <=> d > Count - (n - 1)
  <2>1. \A d \in Children : kids[d].status = "NONE" <=> d > Count - n
    BY <1>2, <1>11 DEF Counted
  <2>2. c = Count - n + 1
    BY <1>1, <1>11
  <2>3. c \in Int /\ n \in Int /\ Count \in Int
    BY <1>1, <1>11, Bounds DEF Children
  <2>4. ASSUME NEW d \in Children, d # c
        PROVE  after[d].status = "NONE" <=> d > Count - (n - 1)
    <3>1. d \in Int
      BY DEF Children
    <3>2. d > Count - n <=> d > Count - (n - 1)
      BY <2>2, <2>3, <2>4, <3>1
    <3> QED BY <1>4, <2>1, <2>4, <3>2
  <2>5. after[c].status # "NONE"
    BY <1>1, <1>4
  <2>6. ~(c > Count - (n - 1))
    BY <2>2, <2>3
  <2> QED BY <2>4, <2>5, <2>6
<1>14. \A d \in Children :
          /\ ChildSound(after[d])
          /\ after[d].status \in {"NONE", "RUNNING", "SUCCEEDED"}
          /\ after[d].at \in {"running", "paused"} => after[d].status = "RUNNING"
    BY <1>2, <1>4 DEF Agree, Counted
<1>15. Counted(g, after)
  <2>1. Len(g.waiting) <= Count
    BY <1>11, <1>12, Bounds
  <2>2. g.waiting = [i \in 1 .. Len(g.waiting) |-> i + Count - Len(g.waiting)]
    BY <1>12
  <2>3. \A d \in Children : after[d].status = "NONE" <=> d > Count - Len(g.waiting)
    BY <1>12, <1>13
  <2>4. \A d \in Children :
           /\ after[d].status \in {"NONE", "RUNNING", "SUCCEEDED"}
           /\ after[d].at \in {"running", "paused"} => after[d].status = "RUNNING"
           /\ after[d].status = "NONE" <=> d > Count - Len(g.waiting)
    BY <1>14, <2>3
  <2> QED BY <1>9, <2>1, <2>2, <2>4, Zenon DEF Counted
<1>16. Agree(g, after)
    BY <1>1, <1>4, <1>5, <1>10, <1>14, <1>15 DEF Agree
<1> QED BY <1>16 DEF g, after

(* An end is one child fewer running, and one more that has ended.           *)
LEMMA EndCounts ==
    ASSUME NEW f, NEW kids, Agree(f, kids), f.failure = None, NEW c \in Children,
           kids[c].at \in {"running", "paused"}
    PROVE  /\ kids[c].status = "RUNNING"
           /\ f.running \in 1 .. Count /\ f.ended \in 0 .. Count - 1
           /\ Cardinality(Those(kids, "RUNNING") \ {c}) = f.running - 1
           /\ Cardinality(Those(kids, "SUCCEEDED") \cup {c}) = f.ended + 1
<1>1. Counted(f, kids) /\ kids[c].status = "RUNNING"
    BY DEF Agree, Counted
<1>2. c \in Those(kids, "RUNNING") /\ c \notin Those(kids, "SUCCEEDED")
    BY <1>1 DEF Those
<1>3. /\ f.running \in 0 .. Count /\ f.running = Cardinality(Those(kids, "RUNNING"))
      /\ f.ended \in 0 .. Count /\ f.ended = Cardinality(Those(kids, "SUCCEEDED"))
    BY <1>1, ThoseAreFinite DEF Counted
<1>4. Cardinality(Those(kids, "RUNNING") \ {c}) = f.running - 1
    BY <1>2, <1>3, ThoseAreFinite, FS_RemoveElement
<1>5. Cardinality(Those(kids, "RUNNING") \ {c}) \in Nat
    BY ThoseAreFinite, FS_RemoveElement, FS_CardinalityType
<1>6. Cardinality(Those(kids, "SUCCEEDED") \cup {c}) = f.ended + 1
    BY <1>2, <1>3, ThoseAreFinite, FS_AddElement
<1>7. f.ended # Count
  <2>1. Those(kids, "SUCCEEDED") # Children
    BY <1>2
  <2> QED BY <1>3, <2>1, ThoseAreFinite
<1> QED BY <1>1, <1>3, <1>4, <1>5, <1>6, <1>7, Bounds

LEMMA EndedFanOut ==
    ASSUME NEW f \in AFanOut, f.running \in 1 .. Count, f.ended \in 0 .. Count - 1
    PROVE  LET g == [f EXCEPT !.running = @ - 1, !.ended = @ + 1]
           IN  /\ g \in AFanOut /\ g.running = f.running - 1 /\ g.ended = f.ended + 1
               /\ g.waiting = f.waiting /\ g.failure = f.failure
               /\ g.suspended = f.suspended /\ g.answers = f.answers
<1> DEFINE less == f.running - 1
           more == f.ended + 1
<1>1. less \in 0 .. Count /\ more \in 0 .. Count
    BY Bounds
<1> HIDE DEF less, more
<1>2. LET g == [f EXCEPT !.running = less, !.ended = more]
      IN  /\ g \in AFanOut /\ g.running = less /\ g.ended = more
          /\ g.waiting = f.waiting /\ g.failure = f.failure
          /\ g.suspended = f.suspended /\ g.answers = f.answers
    BY <1>1 DEF AFanOut
<1> QED BY <1>2 DEF less, more

LEMMA SucceedAgrees ==
    ASSUME NEW f, NEW kids, Agree(f, kids), f.failure = None, NEW c \in Children, kids[c].at = "running",
           NEW child \in AChild, child.status = "SUCCEEDED", child.at = "over"
    PROVE  Agree([f EXCEPT !.running = @ - 1, !.ended = @ + 1], [kids EXCEPT ![c] = child])
<1> DEFINE g == [f EXCEPT !.running = @ - 1, !.ended = @ + 1]
           after == [kids EXCEPT ![c] = child]
<1>1. f \in AFanOut /\ kids \in [Children -> AChild] /\ Counted(f, kids)
    BY DEF Agree
<1>2. /\ kids[c].status = "RUNNING" /\ f.running \in 1 .. Count /\ f.ended \in 0 .. Count - 1
      /\ Cardinality(Those(kids, "RUNNING") \ {c}) = f.running - 1
      /\ Cardinality(Those(kids, "SUCCEEDED") \cup {c}) = f.ended + 1
    BY EndCounts
<1>3. /\ g \in AFanOut /\ g.running = f.running - 1 /\ g.ended = f.ended + 1
      /\ g.waiting = f.waiting /\ g.failure = None
    BY <1>1, <1>2, EndedFanOut
<1>4. /\ after \in [Children -> AChild]
      /\ \A d \in Children : after[d] = IF d = c THEN child ELSE kids[d]
    BY <1>1
<1> HIDE DEF g, after
<1>5. Those(after, "RUNNING") = Those(kids, "RUNNING") \ {c}
    BY <1>4 DEF Those
<1>6. Those(after, "SUCCEEDED") = Those(kids, "SUCCEEDED") \cup {c}
    BY <1>4 DEF Those
<1>7. \A d \in Children :
         /\ after[d].status \in {"NONE", "RUNNING", "SUCCEEDED"}
         /\ after[d].at \in {"running", "paused"} => after[d].status = "RUNNING"
         /\ after[d].status = "NONE" <=> kids[d].status = "NONE"
    BY <1>1, <1>2, <1>4 DEF Counted
<1>8. \A d \in Children : ChildSound(after[d])
    BY <1>4 DEF Agree, ChildSound
<1>9. \A d \in Children : after[d].status = "NONE" <=> d > Count - Len(g.waiting)
    BY <1>1, <1>3, <1>7 DEF Counted
<1>10. /\ g.running = Cardinality(Those(after, "RUNNING")) /\ g.ended = Cardinality(Those(after, "SUCCEEDED"))
       /\ Len(g.waiting) <= Count
       /\ g.waiting = [i \in 1 .. Len(g.waiting) |-> i + Count - Len(g.waiting)]
    BY <1>1, <1>2, <1>3, <1>5, <1>6 DEF Counted
<1>11. Counted(g, after)
    BY <1>7, <1>9, <1>10 DEF Counted
<1>12. Agree(g, after)
    BY <1>3, <1>4, <1>8, <1>11 DEF Agree
<1> QED BY <1>12 DEF g, after

LEMMA FailAgrees ==
    ASSUME NEW f, NEW kids, Agree(f, kids), f.failure = None, NEW c \in Children, kids[c].at = "running",
           NEW child \in AChild, child.status = "FAILED", child.at = "over"
    PROVE  Agree([[f EXCEPT !.running = @ - 1, !.ended = @ + 1] EXCEPT !.failure = c, !.waiting = <<>>],
                 Abandoned([kids EXCEPT ![c] = child]))
<1> DEFINE e == [f EXCEPT !.running = @ - 1, !.ended = @ + 1]
           g == [e EXCEPT !.failure = c, !.waiting = <<>>]
           runs == [kids EXCEPT ![c] = child]
           after == Abandoned(runs)
<1>1. f \in AFanOut /\ kids \in [Children -> AChild]
    BY DEF Agree
<1>2. e \in AFanOut
  <2>1. f.running \in 1 .. Count /\ f.ended \in 0 .. Count - 1
    BY EndCounts
  <2> QED BY <1>1, <2>1, EndedFanOut
<1>3. <<>> \in Seq(Children) /\ c # None
    BY Bounds DEF Children, None
<1> HIDE DEF e
<1>4. g \in AFanOut /\ g.failure = c /\ g.waiting = <<>>
    BY <1>2, <1>3 DEF AFanOut
<1>5. /\ runs \in [Children -> AChild]
      /\ \A d \in Children : runs[d] = IF d = c THEN child ELSE kids[d]
    BY <1>1
<1> HIDE DEF runs, g
<1>6. \A d \in Children :
         after[d] = IF runs[d].status = "RUNNING" THEN [runs[d] EXCEPT !.status = "ABANDONED"] ELSE runs[d]
    BY DEF Abandoned
<1>7. after \in [Children -> AChild]
    BY <1>5 DEF Abandoned, AChild
<1> HIDE DEF after
<1>8. \A d \in Children : after[d].status # "RUNNING"
    BY <1>5, <1>6 DEF AChild
<1>9. \A d \in Children : ChildSound(runs[d])
    BY <1>5 DEF Agree, ChildSound
<1>10. \A d \in Children : ChildSound(after[d])
    BY <1>5, <1>6, <1>9, ZenonT(60) DEF AChild, ChildSound
<1>11. Agree(g, after)
    BY <1>3, <1>4, <1>7, <1>8, <1>10 DEF Agree, GivenUp
<1> QED BY <1>11 DEF g, after, e, runs

(* Once every child has come through there is nothing left to do.            *)
LEMMA AllThrough ==
    ASSUME NEW f, NEW kids, Agree(f, kids), HasOutcome(f)
    PROVE  /\ f.waiting = <<>>
           /\ f.failure = None => \A c \in Children : kids[c].status = "SUCCEEDED" /\ kids[c].at = "over"
<1>1. f \in AFanOut /\ kids \in [Children -> AChild]
    BY DEF Agree
<1>2. CASE f.failure # None
    BY <1>2 DEF Agree, GivenUp
<1>3. CASE f.failure = None
  <2>1. Counted(f, kids) /\ f.ended >= Count
    BY <1>3 DEF Agree, HasOutcome, Finished
  <2>2. Those(kids, "SUCCEEDED") = Children
    BY <2>1, ThoseAreFinite, Bounds DEF Counted
  <2>3. \A c \in Children : kids[c].status = "SUCCEEDED"
    BY <2>2 DEF Those
  <2>4. \A c \in Children : kids[c].at = "over"
    BY <1>1, <2>1, <2>3 DEF Counted, AChild, Agree, ChildSound
  <2>5. f.waiting = <<>>
    BY <2>3, NextChild
  <2> QED BY <2>3, <2>4, <2>5
<1> QED BY <1>2, <1>3

-----------------------------------------------------------------------------
(* The whole execution.                                                      *)

TopTypes ==
    /\ limit \in Limits
    /\ status \in {"NONE", "RUNNING", "SUCCEEDED", "FAILED"}
    /\ top \in {"out", "fan out", "pending", "paused", "next", "over"}
    /\ try \in 0 .. MaxRetries + 1

Attempts ==
    /\ fanOuts \in [Tries -> AFanOut] /\ children \in [Tries -> [Children -> AChild]]
    /\ \A t \in Tries : t <= try => Agree(fanOuts[t], children[t])
    /\ \A t \in Tries : t > try => fanOuts[t] = NewFanOut /\ children[t] = Fresh

ChainTypes == chains \in [Chains -> AChain]

Same(j, k) == chains[j].try = chains[k].try /\ chains[j].child = chains[k].child

(* Who has which child in hand.                                              *)
Hands ==
    /\ \A k \in Chains : chains[k].at # "over" => chains[k].try <= try
    /\ \A k \in Chains : chains[k].depth <= fanOuts[chains[k].try].ended
    /\ \A k \in Chains : Drives(k) =>
         chains[k].child \in Children /\ children[chains[k].try][chains[k].child].at = "running"
    /\ \A j, k \in Chains : Drives(j) /\ Drives(k) /\ Same(j, k) => j = k
    /\ \A t \in Tries, c \in Children : children[t][c].at = "running" =>
         \E k \in Chains : Drives(k) /\ chains[k].try = t /\ chains[k].child = c

(* The execution's own walk, while it is in the fan-out state.               *)
Main(k) == chains[k].at \in {"starting", "driving"} /\ ~chains[k].released

Outcomes ==
    \A t \in Tries : fanOuts[t].answers > 0 => HasOutcome(fanOuts[t])

Suspensions == \A t \in Tries : fanOuts[t].suspended => t = try /\ top = "pending"

AnswersOnce ==
    /\ \A t \in Tries : t = try /\ top \in {"fan out", "pending"} => fanOuts[t].answers = 0
    /\ \A t \in Tries : t = try /\ top \in {"paused", "next", "over"} => fanOuts[t].answers = 1

Stages ==
    /\ status = "NONE" <=> top = "out"
    /\ status \in {"SUCCEEDED", "FAILED"} <=> top = "over"
    /\ top = "out" <=> try = 0

(* Which call the execution's state belongs to.                              *)
Walks ==
    /\ \A k \in Chains : Main(k) => top = "fan out" /\ chains[k].try = try
    /\ \A j, k \in Chains : Main(j) /\ Main(k) => j = k
    /\ \A k \in Chains : chains[k].at = "starting" /\ chains[k].released => chains[k].depth # 0
    /\ \A k \in Chains : chains[k].at \in {"moving on", "answered"} /\ ~chains[k].released => chains[k].depth = 0
    /\ \A k \in Chains : chains[k].at = "moving on" => top = "next"
    /\ \A j, k \in Chains : chains[j].at = "moving on" /\ chains[k].at = "moving on" => j = k

(* Nothing more happens at a fan-out until a child of it comes to an end.    *)
Quiet(f) == ~HasOutcome(f) /\ (f.waiting = <<>> \/ ~HasRoom(f))

(* A chain of calls that will get back to asking whether there is an answer. *)
ComesBack(k, t) ==
    /\ chains[k].try = t
    /\ chains[k].at = "starting" \/ (chains[k].at = "driving" /\ chains[k].depth # 0)

(* Who owes the execution its next step.                                     *)
Owed ==
    /\ top = "fan out" => \E k \in Chains : Main(k)
    /\ top = "next" => \E k \in Chains : chains[k].at = "moving on"
    /\ top = "pending" => \E t \in Tries : t = try /\ fanOuts[t].suspended
    /\ \A t \in Tries : fanOuts[t].suspended => Quiet(fanOuts[t]) \/ \E k \in Chains : ComesBack(k, t)

Body == TopTypes /\ Attempts /\ ChainTypes /\ Hands

Tops == Outcomes /\ Suspensions /\ AnswersOnce /\ Stages /\ Walks /\ Owed

FanOutInv == Body /\ Tops

LEMMA FanOutInvTypes == FanOutInv => FanOutTypeOK
BY DEF FanOutInv, Body, FanOutTypeOK, TopTypes, Attempts, ChainTypes, AFanOut, AChild, AChain

LEMMA FanOutInitial == Init => FanOutInv
<1> SUFFICES ASSUME Init PROVE FanOutInv
    OBVIOUS
<1>1. TopTypes
    BY Bounds DEF Init, TopTypes
<1>2. NewFanOut \in AFanOut /\ NewFanOut.ended = 0
  <2>1. <<>> \in Seq(Children) /\ 0 \in 0 .. Count /\ 0 \in 0 .. 1
    BY Bounds
  <2> QED BY <2>1 DEF NewFanOut, AFanOut
<1>3. Fresh \in [Children -> AChild] /\ \A c \in Children : Fresh[c].at = "out"
    BY Bounds DEF Fresh, NewChild, AChild
<1>4. \A t \in Tries : fanOuts[t] = NewFanOut /\ children[t] = Fresh /\ ~(t <= try)
    BY Bounds DEF Init, Tries, Fresh
<1>5. Attempts
    BY <1>2, <1>3, <1>4 DEF Init, Attempts, Fresh
<1>6. NoChain \in AChain
    BY Bounds DEF NoChain, AChain, Tries, None
<1>7. ChainTypes
    BY <1>6 DEF Init, ChainTypes
<1>8. \A k \in Chains : chains[k].at = "over" /\ chains[k].depth = 0 /\ chains[k].try = 1
    BY DEF Init, NoChain
<1>9. 1 \in Tries
    BY Bounds DEF Tries
<1>10. Hands
    BY <1>2, <1>3, <1>4, <1>8, <1>9, Bounds DEF Hands, Drives
<1>11. \A t \in Tries : fanOuts[t].answers = 0 /\ ~fanOuts[t].suspended
    BY <1>4 DEF NewFanOut
<1>12. \A t \in Tries : ~(fanOuts[t].answers > 0)
    BY <1>11
<1>13. Tops
    BY <1>8, <1>11, <1>12
       DEF Init, Tops, Outcomes, Suspensions, AnswersOnce, Stages, Walks, Main, Owed
<1> QED BY <1>1, <1>5, <1>7, <1>10, <1>13 DEF FanOutInv, Body

LEMMA TryNumbers == ASSUME TopTypes PROVE try \in Nat /\ Tries \subseteq Nat
<1>1. try \in 0 .. MaxRetries + 1 /\ MaxRetries \in Nat
    BY Bounds DEF TopTypes
<1>2. try \in Nat
    BY <1>1
<1>3. Tries \subseteq Nat
    BY <1>1 DEF Tries
<1> QED BY <1>2, <1>3

LEMMA Gone ==
    ASSUME ChainTypes, NEW k \in Chains, NEW chain \in AChain, Goes(k, chain)
    PROVE  ChainTypes' /\ chains'[k] = chain /\ \A j \in Chains : j # k => chains'[j] = chains[j]
BY DEF ChainTypes, Goes

(* One attempt changes, the others stand.                                    *)
LEMMA AttemptChanges ==
    ASSUME TopTypes, Attempts, NEW t \in Tries, t <= try, NEW g, NEW after, Agree(g, after), UNCHANGED try,
           fanOuts' = [fanOuts EXCEPT ![t] = g], children' = [children EXCEPT ![t] = after]
    PROVE  /\ Attempts' /\ fanOuts'[t] = g /\ children'[t] = after
           /\ \A u \in Tries : u # t => fanOuts'[u] = fanOuts[u] /\ children'[u] = children[u]
<1>1. g \in AFanOut /\ after \in [Children -> AChild]
    BY DEF Agree
<1>2. /\ fanOuts' \in [Tries -> AFanOut] /\ children' \in [Tries -> [Children -> AChild]]
      /\ fanOuts'[t] = g /\ children'[t] = after
      /\ \A u \in Tries : u # t => fanOuts'[u] = fanOuts[u] /\ children'[u] = children[u]
    BY <1>1 DEF Attempts
<1>3. \A u \in Tries : u <= try' => Agree(fanOuts'[u], children'[u])
    BY <1>2 DEF Attempts
<1>4. \A u \in Tries : u > try' => fanOuts'[u] = NewFanOut /\ children'[u] = Fresh
  <2>1. \A u \in Tries : u > try' => u # t
    BY TryNumbers
  <2> QED BY <1>2, <2>1 DEF Attempts
<1> QED BY <1>2, <1>3, <1>4 DEF Attempts

(* A chain takes a child, lets go of it or keeps it, and nobody else does.   *)
LEMMA HandsChange ==
    ASSUME TopTypes, Attempts, ChainTypes, Hands, Attempts', try <= try', try' \in Nat,
           NEW k \in Chains, NEW chain \in AChain, Goes(k, chain), NEW t \in Tries, NEW c \in Children,
           chain.at # "over" => chain.try <= try',
           chain.depth <= fanOuts'[chain.try].ended,
           Drives(k) => chains[k].try = t /\ chains[k].child = c,
           chain.at = "driving" => chain.try = t /\ chain.child = c,
           ~Drives(k) => children[t][c].at # "running",
           children'[t][c].at = "running" <=> chain.at = "driving",
           \A u \in Tries : fanOuts[u].ended <= fanOuts'[u].ended,
           \A u \in Tries, d \in Children : <<u, d>> # <<t, c>> => children'[u][d].at = children[u][d].at
    PROVE  Hands' /\ ChainTypes'
<1>1. ChainTypes' /\ chains'[k] = chain /\ \A j \in Chains : j # k => chains'[j] = chains[j]
    BY Gone
<1>2. \A j \in Chains : chains[j] \in AChain /\ chains[j].try \in Tries
    BY DEF ChainTypes, AChain
<1>3. \A j \in Chains : chains'[j].at # "over" => chains'[j].try <= try'
  <2>1. ASSUME NEW j \in Chains, j # k, chains'[j].at # "over" PROVE chains'[j].try <= try'
    <3>1. chains[j].try <= try /\ chains'[j] = chains[j]
      BY <1>1, <2>1 DEF Hands
    <3> QED BY <1>2, <2>1, <3>1, TryNumbers
  <2> QED BY <1>1, <2>1
<1>4. \A j \in Chains : chains'[j].depth <= fanOuts'[chains'[j].try].ended
  <2>1. ASSUME NEW j \in Chains, j # k PROVE chains'[j].depth <= fanOuts'[chains'[j].try].ended
    <3> DEFINE u == chains[j].try
    <3>1. u \in Tries /\ chains[j].depth \in Int /\ fanOuts[u].ended \in Int /\ fanOuts'[u].ended \in Int
      <4>1. u \in Tries /\ chains[j].depth \in Int
        <5>1. chains[j] \in AChain /\ chains[j].try \in Tries /\ chains[j].depth \in 0 .. Count
          BY <1>2 DEF AChain
        <5> QED BY <5>1
      <4>2. fanOuts[u] \in AFanOut /\ fanOuts'[u] \in AFanOut
        BY <4>1 DEF Attempts
      <4> QED BY <4>1, <4>2 DEF AFanOut
    <3>2. chains[j].depth <= fanOuts[u].ended /\ fanOuts[u].ended <= fanOuts'[u].ended
      BY <3>1 DEF Hands
    <3> QED BY <1>1, <2>1, <3>1, <3>2
  <2> QED BY <1>1, <2>1
<1>5. \A j \in Chains : j # k /\ Drives(j) => <<chains[j].try, chains[j].child>> # <<t, c>>
  <2>1. CASE Drives(k)
    BY <2>1 DEF Hands, Same
  <2>2. CASE ~Drives(k)
    BY <2>2 DEF Hands
  <2> QED BY <2>1, <2>2
<1>6. \A j \in Chains : Drives(j)' =>
         chains'[j].child \in Children /\ children'[chains'[j].try][chains'[j].child].at = "running"
  <2>1. ASSUME NEW j \in Chains, j # k, Drives(j)'
        PROVE  chains'[j].child \in Children /\ children'[chains'[j].try][chains'[j].child].at = "running"
    <3>1. Drives(j) /\ chains'[j] = chains[j]
      BY <1>1, <2>1 DEF Drives
    <3> QED BY <1>2, <1>5, <2>1, <3>1 DEF Hands
  <2>2. Drives(k)' => chains'[k].child \in Children /\ children'[chains'[k].try][chains'[k].child].at = "running"
    BY <1>1 DEF Drives
  <2> QED BY <2>1, <2>2
<1>7. \A i, j \in Chains : (Drives(i) /\ Drives(j) /\ Same(i, j))' => i = j
  <2>1. ASSUME NEW j \in Chains, j # k, Drives(j)' PROVE ~(Drives(k)' /\ (Same(j, k)' \/ Same(k, j)'))
    BY <1>1, <1>5, <2>1 DEF Drives, Same
  <2>2. ASSUME NEW i \in Chains, NEW j \in Chains, i # k, j # k, (Drives(i) /\ Drives(j) /\ Same(i, j))'
        PROVE  i = j
    BY <1>1, <2>2 DEF Hands, Drives, Same
  <2> QED BY <2>1, <2>2
<1>8. \A u \in Tries, d \in Children : children'[u][d].at = "running" =>
         \E j \in Chains : Drives(j)' /\ chains'[j].try = u /\ chains'[j].child = d
  <2> SUFFICES ASSUME NEW u \in Tries, NEW d \in Children, children'[u][d].at = "running"
               PROVE  \E j \in Chains : Drives(j)' /\ chains'[j].try = u /\ chains'[j].child = d
    OBVIOUS
  <2>1. CASE <<u, d>> = <<t, c>>
    BY <1>1, <2>1 DEF Drives
  <2>2. CASE <<u, d>> # <<t, c>>
    <3>1. PICK j \in Chains : Drives(j) /\ chains[j].try = u /\ chains[j].child = d
      BY <2>2 DEF Hands
    <3>2. j # k
      BY <2>2, <3>1
    <3> QED BY <1>1, <3>1, <3>2 DEF Drives
  <2> QED BY <2>1, <2>2
<1> QED BY <1>1, <1>3, <1>4, <1>6, <1>7, <1>8 DEF Hands

(* A chain that has no child in hand goes on without one.                    *)
LEMMA HandsStand ==
    ASSUME TopTypes, Attempts, ChainTypes, Hands, Attempts', try <= try', try' \in Nat,
           NEW k \in Chains, NEW chain \in AChain, Goes(k, chain),
           chain.at # "over" => chain.try <= try',
           chain.depth <= fanOuts'[chain.try].ended,
           ~Drives(k), chain.at # "driving", UNCHANGED children,
           \A u \in Tries : fanOuts[u].ended <= fanOuts'[u].ended
    PROVE  Hands' /\ ChainTypes'
<1>1. ChainTypes' /\ chains'[k] = chain /\ \A j \in Chains : j # k => chains'[j] = chains[j]
    BY Gone
<1>2. \A j \in Chains : chains[j] \in AChain /\ chains[j].try \in Tries
    BY DEF ChainTypes, AChain
<1>3. \A j \in Chains : chains'[j].at # "over" => chains'[j].try <= try'
  <2>1. ASSUME NEW j \in Chains, j # k, chains'[j].at # "over" PROVE chains'[j].try <= try'
    <3>1. chains[j].try <= try /\ chains'[j] = chains[j]
      BY <1>1, <2>1 DEF Hands
    <3> QED BY <1>2, <2>1, <3>1, TryNumbers
  <2> QED BY <1>1, <2>1
<1>4. \A j \in Chains : chains'[j].depth <= fanOuts'[chains'[j].try].ended
  <2>1. ASSUME NEW j \in Chains, j # k PROVE chains'[j].depth <= fanOuts'[chains'[j].try].ended
    <3> DEFINE u == chains[j].try
    <3>1. u \in Tries /\ chains[j].depth \in Int /\ fanOuts[u].ended \in Int /\ fanOuts'[u].ended \in Int
      <4>1. u \in Tries /\ chains[j].depth \in Int
        <5>1. chains[j] \in AChain /\ chains[j].try \in Tries /\ chains[j].depth \in 0 .. Count
          BY <1>2 DEF AChain
        <5> QED BY <5>1
      <4>2. fanOuts[u] \in AFanOut /\ fanOuts'[u] \in AFanOut
        BY <4>1 DEF Attempts
      <4> QED BY <4>1, <4>2 DEF AFanOut
    <3>2. chains[j].depth <= fanOuts[u].ended /\ fanOuts[u].ended <= fanOuts'[u].ended
      BY <3>1 DEF Hands
    <3> QED BY <1>1, <2>1, <3>1, <3>2
  <2> QED BY <1>1, <2>1
<1>5. \A j \in Chains : Drives(j)' => j # k /\ Drives(j) /\ chains'[j] = chains[j]
    BY <1>1 DEF Drives
<1>6. \A j \in Chains : Drives(j) => j # k /\ Drives(j)' /\ chains'[j] = chains[j]
    BY <1>1 DEF Drives
<1> QED BY <1>1, <1>3, <1>4, <1>5, <1>6 DEF Hands, Same

-----------------------------------------------------------------------------
(* What a chain of calls finds.                                              *)

LEMMA ChainIn ==
    ASSUME FanOutInv, NEW k \in Chains, chains[k].at # "over"
    PROVE  /\ chains[k] \in AChain /\ chains[k].try \in Tries /\ chains[k].try <= try
           /\ Agree(fanOuts[chains[k].try], children[chains[k].try])
           /\ fanOuts[chains[k].try] \in AFanOut
           /\ chains[k].depth \in Nat /\ chains[k].depth <= fanOuts[chains[k].try].ended
<1>1. chains[k] \in AChain /\ chains[k].try \in Tries /\ chains[k].depth \in Nat
  <2>1. chains[k] \in AChain /\ chains[k].try \in Tries /\ chains[k].depth \in 0 .. Count
    BY DEF FanOutInv, Body, ChainTypes, AChain
  <2> QED BY <2>1
<1>2. chains[k].try <= try /\ chains[k].depth <= fanOuts[chains[k].try].ended
    BY DEF FanOutInv, Body, Hands
<1>3. Agree(fanOuts[chains[k].try], children[chains[k].try]) /\ fanOuts[chains[k].try] \in AFanOut
    BY <1>1, <1>2 DEF FanOutInv, Body, Attempts
<1> QED BY <1>1, <1>2, <1>3

LEMMA InHand ==
    ASSUME FanOutInv, NEW k \in Chains, Drives(k)
    PROVE  /\ chains[k].child \in Children /\ Walked(k) \in AChild /\ ChildSound(Walked(k))
           /\ Walked(k).at = "running" /\ Walked(k).status # "NONE"
           /\ children[chains[k].try][chains[k].child] = Walked(k)
<1>1. chains[k].child \in Children /\ Walked(k).at = "running"
    BY DEF FanOutInv, Body, Hands, Walked
<1>2. Walked(k) \in AChild /\ ChildSound(Walked(k))
    BY <1>1, ChainIn DEF Agree, Walked, Drives
<1>3. Walked(k).status # "NONE"
    BY <1>1, <1>2 DEF ChildSound
<1> QED BY <1>1, <1>2, <1>3 DEF Walked

LEMMA NoChainTypes ==
    NoChain \in AChain /\ NoChain.at = "over" /\ NoChain.depth = 0 /\ NoChain.try \in Tries
BY Bounds DEF NoChain, AChain, Tries, None

(* What a call returns to.                                                   *)
LEMMA ReturnedTo ==
    ASSUME NEW chain \in AChain
    PROVE  /\ Returned(chain) \in AChain /\ Returned(chain).at \in {"over", "starting"}
           /\ \/ Returned(chain) = NoChain /\ chain.depth = 0 /\ chain.released
              \/ /\ Returned(chain).at = "starting" /\ Returned(chain).try = chain.try
                 /\ Returned(chain).depth = chain.depth /\ Returned(chain).released = chain.released
                 /\ chain.released => chain.depth # 0
<1>1. NoChain \in AChain /\ NoChain.at = "over"
    BY NoChainTypes
<1>2. CASE chain.depth = 0 /\ chain.released
    BY <1>1, <1>2 DEF Returned
<1>3. CASE ~(chain.depth = 0 /\ chain.released)
  <2>1. Returned(chain) = [chain EXCEPT !.at = "starting", !.child = None]
    BY <1>3 DEF Returned
  <2> QED BY <1>3, <2>1 DEF AChain
<1> QED BY <1>2, <1>3

LEMMA NoChainIs ==
    ASSUME FanOutInv
    PROVE  /\ NoChain \in AChain /\ NoChain.at = "over" /\ NoChain.depth = 0 /\ NoChain.try \in Tries
           /\ \A t \in Tries : fanOuts[t] \in AFanOut /\ fanOuts[t].ended >= 0
<1>1. /\ NoChain \in AChain /\ NoChain.at = "over" /\ NoChain.depth = 0 /\ NoChain.try \in Tries
    BY NoChainTypes
<1>2. \A t \in Tries : fanOuts[t] \in AFanOut
    BY DEF FanOutInv, Body, Attempts
<1>3. \A t \in Tries : fanOuts[t].ended \in 0 .. Count
    BY <1>2 DEF AFanOut
<1> QED BY <1>1, <1>2, <1>3

-----------------------------------------------------------------------------
(* What each step does to the attempts, their children and the chains.       *)

LEMMA RunsBody ==
    ASSUME FanOutInv, NEW k \in Chains, RunsFanOut(k), status' \in {"NONE", "RUNNING", "SUCCEEDED", "FAILED"}
    PROVE  Body' /\ \A t \in Tries : t # try + 1 => fanOuts'[t] = fanOuts[t]
<1> DEFINE new == try + 1
           chain == [NoChain EXCEPT !.at = "starting", !.try = new]
<1>1. /\ try < MaxRetries + 1 /\ try' = new /\ UNCHANGED <<limit, children>> /\ ~Drives(k)
      /\ fanOuts' = [fanOuts EXCEPT ![new] = Begun] /\ top' = "fan out" /\ Goes(k, chain)
    BY DEF RunsFanOut, Begun, Idle, Drives
<1>2. TopTypes /\ Attempts /\ ChainTypes /\ Hands
    BY DEF FanOutInv, Body
<1>13. try \in Nat /\ Tries \subseteq Nat /\ try' = new /\ try < MaxRetries + 1 /\ MaxRetries \in Nat
    BY <1>1, <1>2, TryNumbers, Bounds
<1>3. new \in Tries /\ new > try /\ new \in Nat
    BY <1>13 DEF Tries
<1>4. TopTypes'
  <2>1. try' \in 0 .. MaxRetries + 1
    BY <1>13
  <2> QED BY <1>1, <1>2, <2>1 DEF TopTypes
<1>5. fanOuts[new] = NewFanOut /\ children[new] = Fresh
    BY <1>2, <1>3 DEF Attempts
<1>6. /\ fanOuts' \in [Tries -> AFanOut] /\ fanOuts'[new] = Begun
      /\ \A t \in Tries : t # new => fanOuts'[t] = fanOuts[t]
    BY <1>1, <1>2, <1>3, BegunAgrees DEF Attempts, Agree
<1>7. Attempts'
  <2>1. \A t \in Tries : t # new => ((t <= try' <=> t <= try) /\ (t > try' <=> t > try))
    BY <1>13
  <2>2. ~(new > try') /\ new <= try'
    BY <1>13
  <2> QED BY <1>1, <1>2, <1>5, <1>6, <2>1, <2>2, BegunAgrees DEF Attempts
<1>8. chain \in AChain /\ chain.at = "starting" /\ chain.try = new /\ chain.depth = 0
    BY <1>3, NoChainTypes DEF AChain
<1>9. \A t \in Tries : fanOuts[t].ended <= fanOuts'[t].ended
  <2>1. fanOuts[new].ended = 0 /\ fanOuts'[new].ended = 0
    BY <1>5, <1>6 DEF NewFanOut, Begun
  <2>2. \A t \in Tries : fanOuts[t].ended \in Int
    BY <1>2 DEF Attempts, AFanOut
  <2> QED BY <1>6, <2>1, <2>2
<1>10. chain.depth <= fanOuts'[chain.try].ended
    BY <1>6, <1>8 DEF Begun, NewFanOut
<1>11. try <= try' /\ try' \in Nat /\ (chain.at # "over" => chain.try <= try')
    BY <1>8, <1>13
<1> HIDE DEF chain
<1>12. Hands' /\ ChainTypes'
    BY <1>1, <1>2, <1>7, <1>8, <1>9, <1>10, <1>11, HandsStand
<1> QED BY <1>4, <1>6, <1>7, <1>12 DEF Body

(* The steps in which a chain that has no child in hand changes nothing of   *)
(* the children: what is left is what it does to its fan-out.                *)
OwnStep(k, chain, g) ==
    /\ k \in Chains /\ chains[k].at # "over" /\ ~Drives(k)
    /\ chain \in AChain /\ Goes(k, chain) /\ chain.at # "driving"
    /\ chain.at # "over" => chain.try = chains[k].try
    /\ chain.depth = 0 \/ (chain.try = chains[k].try /\ chain.depth <= chains[k].depth)
    /\ UNCHANGED <<try, children>> /\ TopTypes'
    /\ Agree(g, children[chains[k].try]) /\ g.ended = fanOuts[chains[k].try].ended
    /\ fanOuts' = [fanOuts EXCEPT ![chains[k].try] = g]

LEMMA OwnBody ==
    ASSUME FanOutInv, NEW k, NEW chain, NEW g, OwnStep(k, chain, g)
    PROVE  /\ Body' /\ fanOuts'[chains[k].try] = g
           /\ \A u \in Tries : u # chains[k].try => fanOuts'[u] = fanOuts[u]
<1> USE DEF OwnStep
<1> DEFINE t == chains[k].try
<1>1. TopTypes /\ Attempts /\ ChainTypes /\ Hands /\ try \in Nat /\ Tries \subseteq Nat
    BY TryNumbers DEF FanOutInv, Body
<1>2. t \in Tries /\ t <= try /\ chains[k].depth <= fanOuts[t].ended /\ chains[k].depth \in Nat
    BY ChainIn
<1>3. children' = [children EXCEPT ![t] = children[t]]
    BY <1>1 DEF Attempts
<1>4. /\ Attempts' /\ fanOuts'[t] = g
      /\ \A u \in Tries : u # t => fanOuts'[u] = fanOuts[u]
    BY <1>1, <1>2, <1>3, AttemptChanges, ZenonT(60)
<1>5. \A u \in Tries : fanOuts[u].ended = fanOuts'[u].ended /\ fanOuts[u].ended \in Nat
  <2>1. \A u \in Tries : fanOuts[u].ended \in 0 .. Count
    BY <1>1 DEF Attempts, AFanOut
  <2> QED BY <1>4, <2>1
<1>6. chain.try \in Tries /\ chain.depth \in 0 .. Count
    BY DEF AChain
<1>7. chain.depth <= fanOuts'[chain.try].ended
    BY <1>2, <1>5, <1>6
<1>8. \A u \in Tries : fanOuts[u].ended <= fanOuts'[u].ended
    BY <1>5
<1>9. try <= try' /\ try' \in Nat /\ (chain.at # "over" => chain.try <= try')
    BY <1>1, <1>2
<1>10. Hands' /\ ChainTypes'
    BY <1>1, <1>4, <1>7, <1>8, <1>9, HandsStand
<1> QED BY <1>1, <1>4, <1>10 DEF Body

(* The steps in which a chain takes a child, lets go of it or has it change. *)
ChildStep(k, chain, t, c, g, after) ==
    /\ k \in Chains /\ chain \in AChain /\ Goes(k, chain)
    /\ t \in Tries /\ t <= try /\ c \in Children
    /\ Agree(g, after) /\ fanOuts[t].ended <= g.ended
    /\ fanOuts' = [fanOuts EXCEPT ![t] = g] /\ children' = [children EXCEPT ![t] = after]
    /\ UNCHANGED try /\ TopTypes'
    /\ \A d \in Children : d # c => after[d].at = children[t][d].at
    /\ after[c].at = "running" <=> chain.at = "driving"
    /\ Drives(k) => chains[k].try = t /\ chains[k].child = c
    /\ chain.at = "driving" => chain.child = c
    /\ chain.at # "over" => chain.try = t
    /\ ~Drives(k) => children[t][c].at # "running"
    /\ chain = chains[k] \/ chain.depth = 0 \/ (chain.try = t /\ chain.depth <= g.ended)

LEMMA ChildBody ==
    ASSUME FanOutInv, NEW k, NEW chain, NEW t, NEW c, NEW g, NEW after, ChildStep(k, chain, t, c, g, after)
    PROVE  /\ Body' /\ fanOuts'[t] = g /\ children'[t] = after
           /\ \A u \in Tries : u # t => fanOuts'[u] = fanOuts[u] /\ children'[u] = children[u]
<1> USE DEF ChildStep
<1>1. TopTypes /\ Attempts /\ ChainTypes /\ Hands
    BY DEF FanOutInv, Body
<1>2. try \in Nat /\ try' = try
    BY <1>1, TryNumbers
<1>3. /\ Attempts' /\ fanOuts'[t] = g /\ children'[t] = after
      /\ \A u \in Tries : u # t => fanOuts'[u] = fanOuts[u] /\ children'[u] = children[u]
    BY <1>1, AttemptChanges
<1>4. \A u \in Tries : fanOuts[u].ended \in Nat
  <2>1. \A u \in Tries : fanOuts[u].ended \in 0 .. Count
    BY <1>1 DEF Attempts, AFanOut
  <2> QED BY <2>1
<1>5. \A u \in Tries : fanOuts[u].ended <= fanOuts'[u].ended
    BY <1>3, <1>4
<1>6. chain.try \in Tries /\ chain.depth \in 0 .. Count /\ chains[k].depth <= fanOuts[chains[k].try].ended
    BY <1>1 DEF AChain, Hands
<1>7. fanOuts'[chain.try].ended \in Nat
  <2>1. \A u \in Tries : fanOuts'[u].ended \in 0 .. Count
    BY <1>3 DEF Attempts, AFanOut
  <2> QED BY <1>6, <2>1
<1>8. chain.depth <= fanOuts'[chain.try].ended
    BY <1>3, <1>4, <1>5, <1>6, <1>7
<1>9. try <= try' /\ try' \in Nat /\ (chain.at # "over" => chain.try <= try')
    BY <1>2
<1>10. \A u \in Tries, d \in Children : <<u, d>> # <<t, c>> => children'[u][d].at = children[u][d].at
    BY <1>3
<1>11. children'[t][c].at = "running" <=> chain.at = "driving"
    BY <1>3
<1>12. chain.at = "driving" => chain.try = t /\ chain.child = c
    OBVIOUS
<1>13. Hands' /\ ChainTypes'
    BY <1>1, <1>3, <1>5, <1>8, <1>9, <1>10, <1>11, <1>12, HandsChange
<1> QED BY <1>1, <1>3, <1>13 DEF Body

LEMMA TopsTypesStand == ASSUME FanOutInv, UNCHANGED <<limit, status, top, try>> PROVE TopTypes'
BY DEF FanOutInv, Body, TopTypes

LEMMA StartsBody ==
    ASSUME FanOutInv, NEW k \in Chains, Starts(k)
    PROVE  /\ Body' /\ fanOuts[chains[k].try].answers = fanOuts'[chains[k].try].answers
           /\ fanOuts[chains[k].try].suspended = fanOuts'[chains[k].try].suspended
           /\ fanOuts[chains[k].try].failure = fanOuts'[chains[k].try].failure
           /\ fanOuts[chains[k].try].ended = fanOuts'[chains[k].try].ended
           /\ \A u \in Tries : u # chains[k].try => fanOuts'[u] = fanOuts[u] /\ children'[u] = children[u]
<1> DEFINE t == chains[k].try
           f == fanOuts[t]
           kids == children[t]
           c == Head(f.waiting)
           g == [f EXCEPT !.waiting = Tail(@), !.running = @ + 1]
           child == [kids[c] EXCEPT !.status = "RUNNING", !.at = "running", !.left = @ - 1]
           after == [kids EXCEPT ![c] = child]
           chain == [chains[k] EXCEPT !.at = "driving", !.child = c]
<1>1. /\ chains[k].at = "starting" /\ f.waiting # <<>> /\ UNCHANGED <<limit, status, top, try>>
      /\ fanOuts' = [fanOuts EXCEPT ![t] = g] /\ children' = [children EXCEPT ![t] = after]
      /\ Goes(k, chain) /\ ~Drives(k)
    BY ZenonT(60) DEF Starts, Puts, Drives
<1>2. /\ chains[k] \in AChain /\ t \in Tries /\ t <= try /\ Agree(f, kids) /\ f \in AFanOut
      /\ chains[k].depth <= f.ended
    BY <1>1, ChainIn, ZenonT(60)
<1>3. c \in Children /\ kids[c].status = "NONE" /\ kids \in [Children -> AChild] /\ ChildSound(kids[c])
    BY <1>1, <1>2, NextChild, ZenonT(60) DEF Agree
<1>4. child \in AChild /\ child.at = "running" /\ child.status = "RUNNING" /\ ChildSound(child)
  <2> DEFINE less == kids[c].left - 1
  <2>1. kids[c] \in AChild
    BY <1>3, ZenonT(60)
  <2>2. kids[c].left = MaxAttempts
    BY <1>3 DEF ChildSound
  <2>3. less \in 0 .. MaxAttempts
    BY <2>2, Bounds
  <2> HIDE DEF less
  <2>4. child = [kids[c] EXCEPT !.status = "RUNNING", !.at = "running", !.left = less]
    BY SMTT(30) DEF less
  <2> HIDE DEF child
  <2>5. child \in AChild /\ child.at = "running" /\ child.status = "RUNNING"
    BY <2>1, <2>3, <2>4, ZenonT(60) DEF AChild
  <2> QED BY <2>5 DEF ChildSound
<1> HIDE DEF child
<1>5. Agree(g, after)
    BY <1>1, <1>2, <1>4, StartAgrees, ZenonT(60)
<1>6. chain \in AChain /\ chain.at = "driving" /\ chain.child = c /\ chain.try = t /\ chain.depth = chains[k].depth
    BY <1>2, <1>3, ZenonT(60) DEF AChain
<1>7. after[c].at = "running" /\ \A d \in Children : d # c => after[d].at = kids[d].at
    BY <1>3, <1>4, ZenonT(60)
<1>8. /\ g.ended = f.ended /\ g.answers = f.answers /\ g.suspended = f.suspended /\ g.failure = f.failure
      /\ f.ended \in 0 .. Count
    BY <1>2, SMTT(30) DEF AFanOut
<1>9. kids[c].at # "running"
    BY <1>3 DEF ChildSound
<1>10. TopTypes'
    BY <1>1, TopsTypesStand
<1> HIDE DEF g, after, chain, c, f, kids
<1>11. f.ended <= g.ended
    BY <1>8, Bounds
<1>14. chain.depth <= g.ended
    BY <1>2, <1>6, <1>8
<1>12. /\ Body' /\ fanOuts'[t] = g /\ children'[t] = after
       /\ \A u \in Tries : u # t => fanOuts'[u] = fanOuts[u] /\ children'[u] = children[u]
  <2>1. fanOuts[t].ended <= g.ended
    BY <1>11 DEF f
  <2>2. \A d \in Children : d # c => after[d].at = children[t][d].at
    BY <1>7 DEF kids
  <2>3. children[t][c].at # "running"
    BY <1>9 DEF kids
  <2>4. /\ chain \in AChain /\ Goes(k, chain) /\ t \in Tries /\ t <= try /\ c \in Children /\ Agree(g, after)
        /\ fanOuts' = [fanOuts EXCEPT ![t] = g] /\ children' = [children EXCEPT ![t] = after]
        /\ UNCHANGED try /\ TopTypes'
    BY <1>1, <1>2, <1>3, <1>5, <1>6, <1>10
  <2>5. /\ after[c].at = "running" <=> chain.at = "driving"
        /\ Drives(k) => chains[k].try = t /\ chains[k].child = c
        /\ chain.at = "driving" => chain.child = c
        /\ chain.at # "over" => chain.try = t
        /\ ~Drives(k) => children[t][c].at # "running"
        /\ chain = chains[k] \/ chain.depth = 0 \/ (chain.try = t /\ chain.depth <= g.ended)
    BY <1>1, <1>6, <1>7, <1>14, <2>3
  <2>6. ChildStep(k, chain, t, c, g, after)
    BY <2>1, <2>2, <2>4, <2>5, Zenon DEF ChildStep
  <2> QED BY <2>6, ChildBody
<1> QED BY <1>8, <1>12, SMTT(30) DEF f

(* A child's walk goes on, or leaves the rest to the clock.                  *)
LEMMA WalksBody ==
    ASSUME FanOutInv, NEW k \in Chains, GoesOn(k) \/ Pauses(k)
    PROVE  /\ Body' /\ UNCHANGED fanOuts
           /\ \/ UNCHANGED chains
              \/ Goes(k, Returned(chains[k]))
           /\ \A u \in Tries, d \in Children : children'[u][d].status = children[u][d].status
<1> DEFINE t == chains[k].try
           c == chains[k].child
           f == fanOuts[t]
           kids == children[t]
<1>1. Drives(k) /\ UNCHANGED <<limit, status, top, try, fanOuts>> /\ Walked(k).left > 0
    BY DEF GoesOn, Pauses
<1>2. /\ chains[k] \in AChain /\ t \in Tries /\ t <= try /\ Agree(f, kids) /\ f \in AFanOut
      /\ chains[k].depth <= f.ended /\ chains[k].at = "driving"
    BY <1>1, ChainIn DEF Drives
<1>3. /\ c \in Children /\ kids[c] \in AChild /\ ChildSound(kids[c]) /\ kids[c].at = "running"
      /\ kids[c].status # "NONE" /\ kids[c] = Walked(k) /\ kids \in [Children -> AChild]
    BY <1>1, <1>2, InHand DEF Agree
<1>4. fanOuts' = [fanOuts EXCEPT ![t] = f]
    BY <1>1 DEF FanOutInv, Body, Attempts
<1>5. TopTypes'
    BY <1>1, TopsTypesStand
<1>6. f.ended \in 0 .. Count
    BY <1>2 DEF AFanOut
<1>7. f.ended <= f.ended
    BY <1>6, Bounds
<1>8. ASSUME NEW child \in AChild, child.status = kids[c].status, ChildSound(child),
             NEW chain \in AChain, Goes(k, chain), child.at = "running" <=> chain.at = "driving",
             chain.at = "driving" => chain.child = c, chain.at # "over" => chain.try = t,
             chain = chains[k] \/ chain.depth = 0 \/ (chain.try = t /\ chain.depth <= f.ended),
             Puts(t, c, child)
      PROVE  Body' /\ \A u \in Tries, d \in Children : children'[u][d].status = children[u][d].status
  <2> DEFINE after == [kids EXCEPT ![c] = child]
  <2>1. Agree(f, after)
    BY <1>2, <1>3, <1>8, WalkAgrees
  <2>2. children' = [children EXCEPT ![t] = after]
    BY <1>8 DEF Puts
  <2>3. after[c] = child /\ \A d \in Children : d # c => after[d] = kids[d]
    BY <1>3
  <2> HIDE DEF after
  <2>4. ChildStep(k, chain, t, c, f, after)
    BY <1>1, <1>2, <1>3, <1>4, <1>5, <1>7, <1>8, <2>1, <2>2, <2>3 DEF ChildStep
  <2>5. /\ Body' /\ children'[t] = after
        /\ \A u \in Tries : u # t => children'[u] = children[u]
    BY <2>4, ChildBody
  <2>6. \A d \in Children : after[d].status = kids[d].status
    BY <1>8, <2>3
  <2> QED BY <2>5, <2>6
<1>9. CASE GoesOn(k)
  <2> DEFINE less == kids[c].left - 1
             child == [kids[c] EXCEPT !.left = less]
  <2>1. Goes(k, chains[k]) /\ UNCHANGED chains
    BY <1>9 DEF GoesOn, Goes, FanOutInv, Body, ChainTypes
  <2>2. less \in 0 .. MaxAttempts
    <3>1. kids[c].left \in 0 .. MaxAttempts
      BY <1>3 DEF AChild
    <3>2. kids[c].left > 0
      BY <1>1, <1>3
    <3> QED BY <3>1, <3>2, Bounds
  <2>3. Puts(t, c, child)
    BY <1>3, <1>9 DEF GoesOn
  <2> HIDE DEF less
  <2>4. child \in AChild /\ child.at = "running" /\ child.status = kids[c].status
    BY <1>3, <2>2 DEF AChild
  <2> HIDE DEF child
  <2>5. ChildSound(child)
    BY <1>3, <2>4 DEF ChildSound
  <2> QED BY <1>1, <1>2, <1>8, <2>1, <2>3, <2>4, <2>5
<1>10. CASE Pauses(k)
  <2> DEFINE child == [kids[c] EXCEPT !.at = "paused"]
             chain == Returned(chains[k])
  <2>1. Goes(k, chain) /\ Puts(t, c, child)
    BY <1>3, <1>10 DEF Pauses
  <2>2. /\ chain \in AChain /\ chain.at \in {"over", "starting"}
        /\ chain.at # "over" => chain.try = t
        /\ chain.depth = 0 \/ (chain.try = t /\ chain.depth <= f.ended)
    BY <1>2, ReturnedTo, NoChainTypes
  <2>3. child \in AChild /\ child.at = "paused" /\ child.status = kids[c].status /\ child.left = kids[c].left
    BY <1>3 DEF AChild
  <2> HIDE DEF child, chain
  <2>4. ChildSound(child)
    <3>1. child.left > 0 /\ child.status # "NONE"
      BY <1>1, <1>3, <2>3
    <3> QED BY <2>3, <3>1 DEF ChildSound
  <2> QED BY <1>1, <1>8, <2>1, <2>2, <2>3, <2>4 DEF chain
<1> QED BY <1>1, <1>9, <1>10

(* A child's walk comes to its end, given up or not.                         *)
LEMMA EndsAs ==
    ASSUME FanOutInv, NEW k \in Chains, WalksNoFurther(k) \/ Ends(k)
    PROVE  \E child \in AChild :
              /\ child.at = "over" /\ ChildSound(child) /\ child.status # "RUNNING"
              /\ fanOuts[chains[k].try].failure = None => child.status \in {"SUCCEEDED", "FAILED"}
              /\ Settled(k, With(k, child))
<1> DEFINE child(how) == [Walked(k) EXCEPT !.at = "over", !.left = 0, !.status = how]
<1>1. Walked(k) \in AChild /\ Walked(k).at = "running" /\ Walked(k).status # "NONE"
      /\ chains[k].child \in Children /\ children[chains[k].try][chains[k].child] = Walked(k)
    BY InHand DEF WalksNoFurther, Ends
<1>2. 0 \in 0 .. MaxAttempts
    BY Bounds
<1>3. \A how \in {"RUNNING", "SUCCEEDED", "FAILED", "ABANDONED"} :
         child(how) \in AChild /\ child(how).at = "over" /\ child(how).status = how
    BY <1>1, <1>2 DEF AChild
<1>4. CASE WalksNoFurther(k)
  <2> DEFINE how == Walked(k).status
  <2>1. how # "RUNNING"
    BY <1>1, <1>4 DEF WalksNoFurther, Stopped
  <2>2. how \in {"SUCCEEDED", "FAILED", "ABANDONED"}
    BY <1>1, <2>1 DEF AChild
  <2>3. [Walked(k) EXCEPT !.at = "over", !.left = 0] = child(how)
    BY <1>1 DEF AChild
  <2>4. Settled(k, With(k, child(how)))
    BY <1>4, <2>3 DEF WalksNoFurther
  <2>5. fanOuts[chains[k].try].failure # None
    <3>1. Agree(fanOuts[chains[k].try], children[chains[k].try])
      BY <1>4, ChainIn DEF WalksNoFurther, Drives
    <3> QED BY <1>1, <2>1, <3>1 DEF Agree, Counted
  <2>6. ChildSound(child(how))
    BY <1>3, <2>2 DEF ChildSound
  <2> HIDE DEF child
  <2> QED BY <1>3, <2>1, <2>2, <2>4, <2>5, <2>6
<1>5. CASE Ends(k)
  <2>1. PICK how \in {"SUCCEEDED", "FAILED"} : Settled(k, With(k, child(how)))
    BY <1>5 DEF Ends
  <2>2. ChildSound(child(how))
    BY <1>3 DEF ChildSound
  <2> HIDE DEF child
  <2> QED BY <1>3, <2>1, <2>2
<1> QED BY <1>4, <1>5

(* Whether an end is counted, and who goes on from there.                    *)
SameBegun == \A u \in Tries, d \in Children : children'[u][d].status = "NONE" <=> children[u][d].status = "NONE"

Late(k) ==
    /\ fanOuts[chains[k].try].failure # None /\ UNCHANGED fanOuts /\ Goes(k, Returned(chains[k]))
    /\ \A u \in Tries : u # chains[k].try => children'[u] = children[u]

InTime(k) ==
    /\ fanOuts[chains[k].try].failure = None /\ fanOuts[chains[k].try].answers = 0
    /\ Goes(k, [chains[k] EXCEPT !.at = "starting", !.child = None, !.depth = @ + 1])
    /\ fanOuts'[chains[k].try].answers = 0
    /\ fanOuts'[chains[k].try].suspended = fanOuts[chains[k].try].suspended
    /\ \A u \in Tries : u # chains[k].try => fanOuts'[u] = fanOuts[u] /\ children'[u] = children[u]

(* The child itself: it takes the fan-out with it, or has come through.      *)
CameToEnd(k, t, c) ==
    \/ fanOuts'[t].failure # None
    \/ /\ fanOuts'[t].failure = None /\ children'[t][c].status = "SUCCEEDED"
       /\ \A d \in Children : d # c => children'[t][d] = children[t][d]

LEMMA NotYetAnswered ==
    ASSUME FanOutInv, NEW k \in Chains, Drives(k), fanOuts[chains[k].try].failure = None
    PROVE  fanOuts[chains[k].try].answers = 0
<1> DEFINE t == chains[k].try
<1>1. t \in Tries /\ Agree(fanOuts[t], children[t]) /\ fanOuts[t] \in AFanOut
    BY ChainIn DEF Drives
<1>2. chains[k].child \in Children /\ children[t][chains[k].child].at = "running"
    BY InHand
<1>3. ~HasOutcome(fanOuts[t])
    BY <1>1, <1>2, AllThrough
<1>4. ~(fanOuts[t].answers > 0) /\ fanOuts[t].answers \in 0 .. 1
    BY <1>1, <1>3 DEF FanOutInv, Tops, Outcomes, AFanOut
<1> QED BY <1>4

LEMMA EndsBody ==
    ASSUME FanOutInv, NEW k \in Chains, WalksNoFurther(k) \/ Ends(k)
    PROVE  /\ Body' /\ SameBegun
           /\ Late(k) \/ (InTime(k) /\ CameToEnd(k, chains[k].try, chains[k].child))
<1> DEFINE t == chains[k].try
           c == chains[k].child
           f == fanOuts[t]
           kids == children[t]
<1>1. Drives(k) /\ UNCHANGED <<limit, status, top, try>>
    BY DEF WalksNoFurther, Ends
<1>2. /\ chains[k] \in AChain /\ t \in Tries /\ t <= try /\ Agree(f, kids) /\ f \in AFanOut
      /\ chains[k].depth \in Nat /\ chains[k].depth <= f.ended /\ chains[k].at = "driving"
    BY <1>1, ChainIn DEF Drives
<1>3. c \in Children /\ kids[c].at = "running" /\ kids \in [Children -> AChild]
    BY <1>1, <1>2, InHand DEF Agree
<1>4. PICK child \in AChild :
         /\ child.at = "over" /\ ChildSound(child) /\ child.status # "RUNNING"
         /\ f.failure = None => child.status \in {"SUCCEEDED", "FAILED"}
         /\ Settled(k, With(k, child))
    BY EndsAs
<1> DEFINE runs == [kids EXCEPT ![c] = child]
<1>5. With(k, child) = runs /\ runs[c] = child /\ \A d \in Children : d # c => runs[d] = kids[d]
    BY <1>3 DEF With
<1>6. TopTypes'
    BY <1>1, TopsTypesStand
<1>7. f.ended \in 0 .. Count
    BY <1>2 DEF AFanOut
<1>10. kids[c].status # "NONE" /\ child.status # "NONE"
    BY <1>2, <1>3, <1>4 DEF Agree, ChildSound
<1>8. CASE f.failure # None
  <2>1. UNCHANGED fanOuts /\ Goes(k, Returned(chains[k])) /\ children' = [children EXCEPT ![t] = runs]
    BY <1>4, <1>5, <1>8 DEF Settled
  <2>2. Agree(f, runs)
    BY <1>2, <1>3, <1>4, <1>8, LateAgrees
  <2>3. fanOuts' = [fanOuts EXCEPT ![t] = f]
    BY <2>1 DEF FanOutInv, Body, Attempts
  <2> DEFINE chain == Returned(chains[k])
  <2>4. /\ chain \in AChain /\ chain.at \in {"over", "starting"}
        /\ chain.at # "over" => chain.try = t
        /\ chain.depth = 0 \/ (chain.try = t /\ chain.depth <= f.ended)
    BY <1>2, ReturnedTo, NoChainTypes
  <2>5. f.ended <= f.ended
    BY <1>7, Bounds
  <2> HIDE DEF chain, runs
  <2>6. ChildStep(k, chain, t, c, f, runs)
    BY <1>1, <1>2, <1>3, <1>4, <1>5, <1>6, <2>1, <2>2, <2>3, <2>4, <2>5 DEF ChildStep, chain
  <2>7. Body' /\ children'[t] = runs /\ \A u \in Tries : u # t => children'[u] = children[u]
    BY <2>6, ChildBody
  <2>8. \A d \in Children : runs[d].status = "NONE" <=> kids[d].status = "NONE"
    BY <1>4, <1>5, <1>10
  <2> QED BY <1>8, <2>1, <2>7, <2>8 DEF Late, SameBegun
<1>9. CASE f.failure = None
  <2> DEFINE chain == [chains[k] EXCEPT !.at = "starting", !.child = None, !.depth = @ + 1]
             more == chains[k].depth + 1
             e == [f EXCEPT !.running = @ - 1, !.ended = @ + 1]
             failed == [e EXCEPT !.failure = c, !.waiting = <<>>]
  <2>1. /\ Goes(k, chain)
        /\ \/ /\ child.status = "FAILED"
              /\ fanOuts' = [fanOuts EXCEPT ![t] = failed] /\ children' = [children EXCEPT ![t] = Abandoned(runs)]
           \/ /\ child.status # "FAILED"
              /\ fanOuts' = [fanOuts EXCEPT ![t] = e] /\ children' = [children EXCEPT ![t] = runs]
    BY <1>4, <1>5, <1>9 DEF Settled, Counts
  <2>2. f.running \in 1 .. Count /\ f.ended \in 0 .. Count - 1
    BY <1>2, <1>3, <1>9, EndCounts
  <2>3. /\ e \in AFanOut /\ e.ended = f.ended + 1 /\ e.suspended = f.suspended /\ e.answers = f.answers
        /\ e.failure = f.failure
    BY <1>2, <2>2, EndedFanOut
  <2>4. more \in 0 .. Count /\ more <= f.ended + 1 /\ f.ended <= f.ended + 1
    BY <1>2, <2>2, Bounds
  <2> HIDE DEF e
  <2>5. /\ failed.ended = e.ended /\ failed.suspended = e.suspended /\ failed.answers = e.answers
        /\ failed.failure # None
    BY <1>3, <2>3, Bounds DEF AFanOut, Children, None
  <2>6. chain \in AChain /\ chain.at = "starting" /\ chain.try = t /\ chain.depth = more
    <3> HIDE DEF more
    <3>1. chain = [chains[k] EXCEPT !.at = "starting", !.child = None, !.depth = more]
      BY <1>2 DEF more
    <3> HIDE DEF chain
    <3>2. more \in 0 .. Count
      BY <2>4
    <3> QED BY <1>2, <3>1, <3>2 DEF AChain
  <2> HIDE DEF chain, failed, more
  <2>7. ASSUME NEW g, NEW after, Agree(g, after), g.ended = f.ended + 1, after[c].at = "over",
               \A d \in Children : d # c => after[d].at = kids[d].at,
               fanOuts' = [fanOuts EXCEPT ![t] = g], children' = [children EXCEPT ![t] = after]
        PROVE  /\ Body' /\ fanOuts'[t] = g /\ children'[t] = after
               /\ \A u \in Tries : u # t => fanOuts'[u] = fanOuts[u] /\ children'[u] = children[u]
    <3>1. f.ended <= g.ended /\ chain.depth <= g.ended
      BY <2>4, <2>6, <2>7
    <3>2. ChildStep(k, chain, t, c, g, after)
      BY <1>1, <1>2, <1>3, <1>6, <2>1, <2>6, <2>7, <3>1 DEF ChildStep
    <3> QED BY <3>2, ChildBody
  <2>8. f.answers = 0
    BY <1>1, <1>9, NotYetAnswered
  <2>9. CASE child.status = "FAILED"
    <3>1. Agree(failed, Abandoned(runs))
      BY <1>2, <1>3, <1>4, <1>9, <2>9, FailAgrees DEF failed, e
    <3>2. \A d \in Children : /\ Abandoned(runs)[d].at = runs[d].at
                              /\ Abandoned(runs)[d].status = "NONE" <=> runs[d].status = "NONE"
      <4>1. \A d \in Children : runs[d] \in AChild
        BY <1>3
      <4> HIDE DEF runs
      <4> QED BY <4>1 DEF Abandoned, AChild
    <3> HIDE DEF runs
    <3>3. /\ Body' /\ fanOuts'[t] = failed /\ children'[t] = Abandoned(runs)
          /\ \A u \in Tries : u # t => fanOuts'[u] = fanOuts[u] /\ children'[u] = children[u]
      BY <1>3, <1>4, <1>5, <2>1, <2>3, <2>5, <2>7, <2>9, <3>1, <3>2
    <3>4. SameBegun
      BY <1>5, <1>10, <3>2, <3>3 DEF SameBegun
    <3>5. InTime(k)
      BY <1>9, <2>1, <2>3, <2>5, <2>8, <3>3 DEF InTime, chain
    <3> QED BY <2>5, <3>3, <3>4, <3>5 DEF CameToEnd
  <2>10. CASE child.status # "FAILED"
    <3>1. Agree(e, runs)
      BY <1>2, <1>3, <1>4, <1>9, <2>10, SucceedAgrees DEF e
    <3> HIDE DEF runs
    <3>2. /\ Body' /\ fanOuts'[t] = e /\ children'[t] = runs
          /\ \A u \in Tries : u # t => fanOuts'[u] = fanOuts[u] /\ children'[u] = children[u]
      BY <1>3, <1>4, <1>5, <2>1, <2>3, <2>7, <2>10, <3>1
    <3>3. SameBegun
      BY <1>5, <1>10, <3>2 DEF SameBegun
    <3>4. InTime(k)
      BY <1>9, <2>1, <2>3, <2>8, <3>2 DEF InTime, chain
    <3>5. child.status = "SUCCEEDED"
      BY <1>4, <1>9, <2>10
    <3> QED BY <1>5, <1>9, <2>3, <3>2, <3>3, <3>4, <3>5 DEF CameToEnd
  <2> QED BY <2>9, <2>10
<1> QED BY <1>8, <1>9

(* The clock gets to what a child waits for.                                 *)
LEMMA ReleasesBody ==
    ASSUME FanOutInv, NEW k \in Chains, Releases(k)
    PROVE  /\ Body' /\ UNCHANGED fanOuts /\ chains[k].at = "over"
           /\ \A u \in Tries, d \in Children : children'[u][d].status = children[u][d].status
           /\ \/ UNCHANGED chains
              \/ \E chain \in AChain : /\ Goes(k, chain) /\ chain.at = "driving" /\ chain.released
                                       /\ chain.depth = 0
<1>1. PICK t \in Tries, c \in Children :
         /\ children[t][c].at = "paused"
         /\ Idle(k)
         /\ UNCHANGED <<limit, status, top, try, fanOuts>>
         /\ \/ /\ Stopped(t, c)
               /\ Puts(t, c, [children[t][c] EXCEPT !.at = "over", !.left = 0])
               /\ UNCHANGED chains
            \/ /\ ~Stopped(t, c)
               /\ Puts(t, c, [children[t][c] EXCEPT !.at = "running", !.left = @ - 1])
               /\ Goes(k, [at |-> "driving", try |-> t, child |-> c, depth |-> 0, released |-> TRUE])
    BY DEF Releases
<1> DEFINE f == fanOuts[t]
           kids == children[t]
<1>2. /\ TopTypes /\ Attempts /\ ChainTypes /\ chains[k].at = "over" /\ ~Drives(k)
      /\ chains[k] \in AChain
    BY <1>1 DEF FanOutInv, Body, Idle, Drives, ChainTypes
<1>3. t <= try
  <2>1. kids # Fresh
    BY <1>1 DEF Fresh, NewChild
  <2>2. ~(t > try)
    BY <1>2, <2>1 DEF Attempts
  <2>3. t \in Nat /\ try \in Nat
    BY <1>2, TryNumbers
  <2> QED BY <2>2, <2>3
<1>4. Agree(f, kids) /\ f \in AFanOut /\ kids \in [Children -> AChild] /\ kids[c] \in AChild /\ ChildSound(kids[c])
    BY <1>2, <1>3 DEF Attempts, Agree
<1>5. TopTypes'
    BY <1>1, TopsTypesStand
<1>6. fanOuts' = [fanOuts EXCEPT ![t] = f]
    BY <1>1, <1>2 DEF Attempts
<1>7. f.ended <= f.ended /\ 0 <= f.ended
  <2>1. f.ended \in 0 .. Count
    BY <1>4 DEF AFanOut
  <2> QED BY <2>1, Bounds
<1>8. ASSUME NEW child \in AChild, child.status = kids[c].status, ChildSound(child), Puts(t, c, child),
             NEW chain \in AChain, Goes(k, chain), child.at = "running" <=> chain.at = "driving",
             chain.at = "driving" => chain.child = c, chain.at # "over" => chain.try = t,
             chain = chains[k] \/ chain.depth = 0
      PROVE  Body' /\ \A u \in Tries, d \in Children : children'[u][d].status = children[u][d].status
  <2> DEFINE after == [kids EXCEPT ![c] = child]
  <2>1. Agree(f, after)
    BY <1>1, <1>4, <1>8, WalkAgrees
  <2>2. children' = [children EXCEPT ![t] = after]
    BY <1>8 DEF Puts
  <2>3. after[c] = child /\ \A d \in Children : d # c => after[d] = kids[d]
    BY <1>4
  <2> HIDE DEF after
  <2>4. ChildStep(k, chain, t, c, f, after)
    BY <1>1, <1>2, <1>3, <1>5, <1>6, <1>7, <1>8, <2>1, <2>2, <2>3 DEF ChildStep
  <2>5. Body' /\ children'[t] = after /\ \A u \in Tries : u # t => children'[u] = children[u]
    BY <2>4, ChildBody
  <2>6. \A d \in Children : after[d].status = kids[d].status
    BY <1>8, <2>3
  <2> QED BY <2>5, <2>6
<1>9. CASE Stopped(t, c)
  <2> DEFINE child == [kids[c] EXCEPT !.at = "over", !.left = 0]
  <2>1. Puts(t, c, child) /\ UNCHANGED chains
    BY <1>1, <1>9
  <2>2. Goes(k, chains[k])
    BY <1>2, <2>1 DEF Goes, ChainTypes
  <2>3. 0 \in 0 .. MaxAttempts
    BY Bounds
  <2>4. child \in AChild /\ child.at = "over" /\ child.status = kids[c].status
    BY <1>4, <2>3 DEF AChild
  <2> HIDE DEF child
  <2>5. child.status # "NONE" /\ child.status # "RUNNING"
    BY <1>1, <1>4, <1>9, <2>4 DEF ChildSound, Stopped
  <2>6. ChildSound(child)
    BY <2>4, <2>5 DEF ChildSound
  <2> QED BY <1>1, <1>2, <1>8, <2>1, <2>2, <2>4, <2>6
<1>10. CASE ~Stopped(t, c)
  <2> DEFINE less == kids[c].left - 1
             child == [kids[c] EXCEPT !.at = "running", !.left = less]
             chain == [at |-> "driving", try |-> t, child |-> c, depth |-> 0, released |-> TRUE]
  <2>1. Puts(t, c, child) /\ Goes(k, chain)
    BY <1>1, <1>10
  <2>2. less \in 0 .. MaxAttempts
    <3>1. kids[c].left \in 0 .. MaxAttempts
      BY <1>4 DEF AChild
    <3>2. kids[c].left > 0
      BY <1>1, <1>4 DEF ChildSound
    <3> QED BY <3>1, <3>2, Bounds
  <2>3. 0 \in 0 .. Count
    BY Bounds
  <2>4. chain \in AChain
    BY <2>3 DEF AChain
  <2> HIDE DEF less
  <2>5. child \in AChild /\ child.at = "running" /\ child.status = kids[c].status
    BY <1>4, <2>2 DEF AChild
  <2> HIDE DEF child
  <2>6. child.status = "RUNNING"
    BY <1>10, <2>5 DEF Stopped
  <2>7. ChildSound(child)
    BY <2>5, <2>6 DEF ChildSound
  <2>8. chain.at = "driving" /\ chain.child = c /\ chain.try = t /\ chain.depth = 0 /\ chain.released
    OBVIOUS
  <2> HIDE DEF chain
  <2> QED BY <1>1, <1>2, <1>8, <2>1, <2>4, <2>5, <2>7, <2>8
<1> QED BY <1>1, <1>2, <1>9, <1>10

LEMMA RestAgrees ==
    ASSUME NEW f, NEW kids, Agree(f, kids), NEW g \in AFanOut, g.waiting = f.waiting, g.running = f.running,
           g.ended = f.ended, g.failure = f.failure
    PROVE  Agree(g, kids) /\ (HasOutcome(f) <=> HasOutcome(g))
BY DEF Agree, Counted, GivenUp, HasOutcome, Finished

(* Which chain is at the end of starting children, and for what.             *)
LEMMA OwnWalk ==
    ASSUME FanOutInv, NEW k \in Chains, HasStarted(k), chains[k].depth = 0
    PROVE  Main(k) /\ chains[k].try = try /\ top = "fan out" /\ fanOuts[try].answers = 0
           /\ ~fanOuts[try].suspended
<1>1. chains[k].at = "starting"
    BY DEF HasStarted
<1>2. Main(k) /\ chains[k].try = try /\ top = "fan out"
    BY <1>1 DEF FanOutInv, Tops, Walks, Main
<1>3. try \in Tries
    BY <1>1, <1>2, ChainIn
<1> QED BY <1>2, <1>3 DEF FanOutInv, Tops, AnswersOnce, Suspensions

LEMMA HeldBack ==
    ASSUME FanOutInv, NEW t \in Tries, fanOuts[t].suspended
    PROVE  t = try /\ top = "pending" /\ fanOuts[t].answers = 0 /\ \A j \in Chains : ~Main(j)
BY DEF FanOutInv, Tops, AnswersOnce, Suspensions, Walks

(* The one answer: where it is given, and by whom.                           *)
Answering(k) ==
    LET t == chains[k].try
    IN  /\ chains[k].at = "starting" /\ t = try /\ top \in {"fan out", "pending"}
        /\ \A j \in Chains : Main(j) => j = k
        /\ ~chains[k].released => chains[k].depth = 0
        /\ HasOutcome(fanOuts[t]) /\ fanOuts[t].answers = 0 /\ Answers(k, t)
        /\ fanOuts' = [fanOuts EXCEPT ![t] = [fanOuts[t] EXCEPT !.suspended = FALSE, !.answers = 1]]
        /\ UNCHANGED <<limit, try, children>>

LEMMA BothAnswer == ASSUME FanOutInv, NEW k \in Chains, AnswersAtOnce(k) \/ Resumes(k) PROVE Answering(k)
<1> DEFINE t == chains[k].try
           f == fanOuts[t]
<1>1. /\ HasStarted(k) /\ HasOutcome(f) /\ Answers(k, t) /\ chains[k].at = "starting"
      /\ UNCHANGED <<limit, try, children>>
    BY DEF AnswersAtOnce, Resumes, HasStarted
<1>2. t \in Tries /\ f \in AFanOut
    BY <1>1, ChainIn
<1>3. CASE AnswersAtOnce(k)
  <2>1. Main(k) /\ t = try /\ top = "fan out" /\ f.answers = 0 /\ ~f.suspended /\ chains[k].depth = 0
    BY <1>3, OwnWalk DEF AnswersAtOnce
  <2> DEFINE one == f.answers + 1
  <2>8. f.answers = 0
    BY <2>1
  <2>4. one = 1
    BY <2>8
  <2>6. f.suspended = FALSE
    BY <1>2, <2>1 DEF AFanOut
  <2> HIDE DEF one, f
  <2>5. [f EXCEPT !.answers = one] = [f EXCEPT !.suspended = FALSE, !.answers = 1]
    BY <1>2, <2>4, <2>6 DEF AFanOut
  <2>2. [f EXCEPT !.answers = @ + 1] = [f EXCEPT !.suspended = FALSE, !.answers = 1]
    BY <2>5 DEF one
  <2>3. \A j \in Chains : Main(j) => j = k
    BY <2>1 DEF FanOutInv, Tops, Walks
  <2>7. fanOuts' = [fanOuts EXCEPT ![t] = [f EXCEPT !.suspended = FALSE, !.answers = 1]]
    BY <1>3, <2>2 DEF AnswersAtOnce, f
  <2> QED BY <1>1, <2>1, <2>3, <2>7 DEF Answering, f
<1>4. CASE Resumes(k)
  <2>1. t = try /\ top = "pending" /\ f.answers = 0 /\ \A j \in Chains : ~Main(j)
    BY <1>2, <1>4, HeldBack DEF Resumes
  <2>2. [f EXCEPT !.suspended = FALSE, !.answers = @ + 1] = [f EXCEPT !.suspended = FALSE, !.answers = 1]
    BY <1>2, <2>1 DEF AFanOut
  <2>3. chains[k].released
    BY <1>1, <2>1 DEF Main
  <2> QED BY <1>1, <1>4, <2>1, <2>2, <2>3 DEF Resumes, Answering
<1> QED BY <1>3, <1>4

LEMMA AnsweringBody ==
    ASSUME FanOutInv, NEW k \in Chains, Answering(k)
    PROVE  /\ Body' /\ fanOuts'[try].answers = 1 /\ ~fanOuts'[try].suspended /\ HasOutcome(fanOuts'[try])
           /\ try \in Tries /\ \A u \in Tries : u # try => fanOuts'[u] = fanOuts[u]
<1> DEFINE t == chains[k].try
           f == fanOuts[t]
           g == [f EXCEPT !.suspended = FALSE, !.answers = 1]
           chain(how) == [chains[k] EXCEPT !.at = how]
<1>1. /\ chains[k].at = "starting" /\ t = try /\ UNCHANGED <<limit, try, children>> /\ Answers(k, t)
      /\ fanOuts' = [fanOuts EXCEPT ![t] = g] /\ HasOutcome(f)
    BY DEF Answering
<1>2. /\ chains[k] \in AChain /\ t \in Tries /\ Agree(f, children[t]) /\ f \in AFanOut
      /\ chains[k].depth \in Nat
    BY <1>1, ChainIn
<1>3. /\ g \in AFanOut /\ g.waiting = f.waiting /\ g.running = f.running /\ g.ended = f.ended
      /\ g.failure = f.failure /\ g.answers = 1 /\ ~g.suspended
  <2>1. 1 \in 0 .. 1
    OBVIOUS
  <2> QED BY <1>2, <2>1 DEF AFanOut
<1> HIDE DEF g
<1>4. Agree(g, children[t]) /\ HasOutcome(g)
    BY <1>1, <1>2, <1>3, RestAgrees
<1>5. TopTypes'
    BY <1>1 DEF Answers, FanOutInv, Body, TopTypes
<1>8. chains[k].depth <= chains[k].depth
    BY <1>2
<1>6. PICK to \in {"answered", "moving on"} : Goes(k, chain(to))
    BY <1>1 DEF Answers
<1>7. chain(to) \in AChain /\ chain(to).try = t /\ chain(to).depth = chains[k].depth /\ chain(to).at = to
    BY <1>2 DEF AChain
<1> HIDE DEF chain
<1>9. OwnStep(k, chain(to), g)
    BY <1>1, <1>2, <1>3, <1>4, <1>5, <1>6, <1>7, <1>8 DEF OwnStep, Drives
<1>10. Body' /\ fanOuts'[t] = g /\ \A u \in Tries : u # t => fanOuts'[u] = fanOuts[u]
    BY <1>9, OwnBody
<1> QED BY <1>1, <1>2, <1>3, <1>4, <1>10

LEMMA SuspendsBody ==
    ASSUME FanOutInv, NEW k \in Chains, Suspends(k)
    PROVE  /\ Body' /\ fanOuts'[try].answers = 0 /\ Quiet(fanOuts[try])'
           /\ try \in Tries /\ \A u \in Tries : u # try => fanOuts'[u] = fanOuts[u]
<1> DEFINE f == fanOuts[try]
           g == [f EXCEPT !.suspended = TRUE]
<1>1. Main(k) /\ chains[k].try = try /\ f.answers = 0 /\ chains[k].at = "starting"
    BY OwnWalk DEF Suspends, HasStarted
<1>2. /\ UNCHANGED <<limit, status, try, children>> /\ top' = "pending" /\ Goes(k, NoChain) /\ ~HasOutcome(f)
      /\ fanOuts' = [fanOuts EXCEPT ![try] = g] /\ (f.waiting = <<>> \/ ~HasRoom(f))
    BY <1>1 DEF Suspends, HasStarted
<1>3. /\ chains[k] \in AChain /\ try \in Tries /\ Agree(f, children[try]) /\ f \in AFanOut
    BY <1>1, ChainIn
<1>4. /\ g \in AFanOut /\ g.waiting = f.waiting /\ g.running = f.running /\ g.ended = f.ended
      /\ g.failure = f.failure /\ g.answers = 0
    BY <1>1, <1>3 DEF AFanOut
<1> HIDE DEF g
<1>5. Agree(g, children[try]) /\ ~HasOutcome(g)
    BY <1>2, <1>3, <1>4, RestAgrees
<1>6. TopTypes'
    BY <1>2 DEF FanOutInv, Body, TopTypes
<1>7. NoChain \in AChain /\ NoChain.at = "over" /\ NoChain.depth = 0
    BY NoChainTypes
<1>8. OwnStep(k, NoChain, g)
    BY <1>1, <1>2, <1>3, <1>4, <1>5, <1>6, <1>7 DEF OwnStep, Drives
<1>9. Body' /\ fanOuts'[try] = g /\ \A u \in Tries : u # try => fanOuts'[u] = fanOuts[u]
    BY <1>1, <1>8, OwnBody
<1>10. g.waiting = <<>> \/ ~(g.running < limit')
    BY <1>2, <1>4 DEF HasRoom
<1>11. ~(fanOuts'[try].failure # None \/ fanOuts'[try].ended >= Count)
    BY <1>5, <1>9 DEF HasOutcome, Finished
<1>12. Quiet(fanOuts[try])'
    BY <1>2, <1>9, <1>10, <1>11 DEF Quiet, HasOutcome, Finished, HasRoom
<1> QED BY <1>3, <1>4, <1>9, <1>12

(* The calls that only go back to where they came from.                      *)
GoesBack(k, chain) ==
    \/ NothingToResume(k) /\ chain = Returned([chains[k] EXCEPT !.depth = @ - 1])
    \/ AnswerReturns(k) /\ chain = IF chains[k].depth = 0 THEN NoChain
                                   ELSE Returned([chains[k] EXCEPT !.depth = @ - 1])

LEMMA OneLess ==
    ASSUME NEW chain \in AChain, chain.depth # 0
    PROVE  LET less == [chain EXCEPT !.depth = @ - 1]
           IN  /\ less \in AChain /\ less.try = chain.try /\ less.released = chain.released
               /\ less.depth = chain.depth - 1 /\ less.depth <= chain.depth
<1> DEFINE n == chain.depth - 1
<1>1. chain.depth \in 0 .. Count
    BY DEF AChain
<1>2. n \in 0 .. Count /\ n <= chain.depth
    BY <1>1, Bounds
<1> HIDE DEF n
<1>3. LET less == [chain EXCEPT !.depth = n]
      IN  less \in AChain /\ less.try = chain.try /\ less.released = chain.released /\ less.depth = n
    BY <1>2 DEF AChain
<1> QED BY <1>2, <1>3 DEF n

LEMMA GoesBackBody ==
    ASSUME FanOutInv, NEW k \in Chains, NEW chain, GoesBack(k, chain)
    PROVE  /\ Body' /\ UNCHANGED <<limit, status, top, try, fanOuts, children>> /\ Goes(k, chain)
           /\ chain \in AChain
           /\ \/ chain.at = "over" /\ (chains[k].at = "answered" \/ chains[k].released)
              \/ /\ chain.at = "starting" /\ chain.try = chains[k].try
                 /\ chain.released = chains[k].released /\ chains[k].depth # 0
                 /\ chain.released => chain.depth # 0
<1> DEFINE t == chains[k].try
           f == fanOuts[t]
           less == [chains[k] EXCEPT !.depth = @ - 1]
<1>1. /\ UNCHANGED <<limit, status, top, try, fanOuts, children>> /\ Goes(k, chain)
      /\ chains[k].at \in {"starting", "answered"}
    BY DEF GoesBack, NothingToResume, AnswerReturns, HasStarted
<1>2. /\ chains[k] \in AChain /\ t \in Tries /\ Agree(f, children[t]) /\ f \in AFanOut
      /\ chains[k].depth \in Nat
    BY <1>1, ChainIn
<1>3. /\ \/ chain = NoChain /\ chains[k].at = "answered"
         \/ chain = Returned(less) /\ chains[k].depth # 0
    BY <1>2 DEF GoesBack, NothingToResume, AnswerReturns
<1>4. chains[k].depth # 0 =>
         less \in AChain /\ less.try = t /\ less.released = chains[k].released /\ less.depth <= chains[k].depth
    BY <1>2, OneLess
<1> HIDE DEF less
<1>5. /\ chain \in AChain
      /\ \/ chain.at = "over" /\ chain.depth = 0 /\ (chains[k].at = "answered" \/ chains[k].released)
         \/ /\ chain.at = "starting" /\ chain.try = chains[k].try /\ chain.depth <= chains[k].depth
            /\ chain.released = chains[k].released /\ chains[k].depth # 0
            /\ chain.released => chain.depth # 0
  <2>1. CASE chain = NoChain /\ chains[k].at = "answered"
    BY <2>1, NoChainTypes
  <2>2. CASE chain = Returned(less) /\ chains[k].depth # 0
    <3>1. \/ Returned(less) = NoChain /\ less.released
          \/ /\ Returned(less).at = "starting" /\ Returned(less).try = less.try
             /\ Returned(less).depth = less.depth /\ Returned(less).released = less.released
             /\ less.released => less.depth # 0
      BY <1>4, <2>2, ReturnedTo
    <3> QED BY <1>4, <2>2, <3>1, ReturnedTo, NoChainTypes
  <2> QED BY <1>3, <2>1, <2>2
<1>6. TopTypes'
    BY <1>1, TopsTypesStand
<1>7. fanOuts' = [fanOuts EXCEPT ![t] = f]
    BY <1>1 DEF FanOutInv, Body, Attempts
<1>8. OwnStep(k, chain, f)
    BY <1>1, <1>2, <1>5, <1>6, <1>7 DEF OwnStep, Drives
<1>9. Body'
    BY <1>8, OwnBody
<1> QED BY <1>1, <1>5, <1>9

LEMMA MovesOnBody ==
    ASSUME FanOutInv, NEW k \in Chains, MovesOn(k)
    PROVE  Body' /\ UNCHANGED fanOuts
<1> DEFINE t == chains[k].try
           f == fanOuts[t]
           chain == [chains[k] EXCEPT !.at = "answered"]
<1>1. /\ UNCHANGED <<limit, try, fanOuts, children>> /\ Goes(k, chain) /\ top' = "over"
      /\ chains[k].at = "moving on" /\ status' \in {"SUCCEEDED", "FAILED"}
    BY DEF MovesOn
<1>2. /\ chains[k] \in AChain /\ t \in Tries /\ Agree(f, children[t]) /\ f \in AFanOut
      /\ chains[k].depth \in Nat
    BY <1>1, ChainIn
<1>3. chain \in AChain /\ chain.at = "answered" /\ chain.try = t /\ chain.depth = chains[k].depth
    BY <1>2 DEF AChain
<1>4. TopTypes'
    BY <1>1 DEF FanOutInv, Body, TopTypes
<1> HIDE DEF chain
<1>5. chain.depth <= chains[k].depth
    BY <1>2, <1>3
<1>8. fanOuts' = [fanOuts EXCEPT ![t] = f]
    BY <1>1 DEF FanOutInv, Body, Attempts
<1>6. OwnStep(k, chain, f)
    BY <1>1, <1>2, <1>3, <1>4, <1>5, <1>8 DEF OwnStep, Drives
<1>7. Body'
    BY <1>6, OwnBody
<1> QED BY <1>1, <1>7

-----------------------------------------------------------------------------
(* What each step does to the execution's own walk.                          *)

(* The steps that leave the execution where it is: what the chain becomes,   *)
(* and what is left of who owes what.                                        *)
Moves(k, chain) ==
    /\ k \in Chains /\ chain \in AChain /\ Goes(k, chain)
    /\ UNCHANGED <<limit, status, top, try>>
    /\ chain.at \in {"over", "starting", "driving"} /\ chains[k].at # "moving on"
    /\ chain.at # "over" /\ ~chain.released => Main(k) /\ chain.try = chains[k].try
    /\ Main(k) => chain.at # "over" /\ ~chain.released
    /\ chain.at = "starting" /\ chain.released => chain.depth # 0

Keeps(t) ==
    /\ fanOuts'[t].answers = fanOuts[t].answers /\ fanOuts'[t].suspended = fanOuts[t].suspended
    /\ fanOuts[t].answers > 0 => HasOutcome(fanOuts'[t])

StillOwed(k, chain, t) ==
    \/ chain.try = t /\ (chain.at = "starting" \/ (chain.at = "driving" /\ chain.depth # 0))
    \/ fanOuts'[t] = fanOuts[t] /\ (ComesBack(k, t) => Quiet(fanOuts[t]))

LEMMA TopsStand ==
    ASSUME FanOutInv, NEW k, NEW chain, Moves(k, chain), \A t \in Tries : Keeps(t),
           \A t \in Tries : fanOuts[t].suspended => StillOwed(k, chain, t)
    PROVE  Tops'
<1> USE DEF Moves
<1>1. /\ Outcomes /\ Suspensions /\ AnswersOnce /\ Stages /\ Walks /\ Owed /\ ChainTypes
      /\ UNCHANGED <<limit, status, top, try>>
    BY DEF FanOutInv, Tops, Body
<1>2. chains'[k] = chain /\ \A j \in Chains : j # k => chains'[j] = chains[j]
    BY <1>1, Gone
<1>3. Outcomes' /\ Suspensions' /\ AnswersOnce'
  <2>1. Outcomes'
    BY <1>1 DEF Keeps, Outcomes, HasOutcome, Finished
  <2>2. Suspensions' /\ AnswersOnce'
    BY <1>1 DEF Keeps, Suspensions, AnswersOnce
  <2> QED BY <2>1, <2>2
<1>4. Stages'
    BY <1>1 DEF Stages
<1>5. \A j \in Chains : Main(j)' <=> Main(j)
    BY <1>2 DEF Main
<1>6. Walks'
  <2>1. \A j \in Chains : Main(j)' => top' = "fan out" /\ chains'[j].try = try'
    <3>1. \A j \in Chains : Main(j)' => top = "fan out" /\ chains[j].try = try
      BY <1>1, <1>5 DEF Walks
    <3>2. Main(k)' => chains'[k].try = chains[k].try
      BY <1>2 DEF Main
    <3> QED BY <1>1, <1>2, <3>1, <3>2
  <2>2. \A i, j \in Chains : Main(i)' /\ Main(j)' => i = j
    BY <1>1, <1>5 DEF Walks
  <2>3. /\ \A j \in Chains : chains'[j].at = "starting" /\ chains'[j].released => chains'[j].depth # 0
        /\ \A j \in Chains : chains'[j].at \in {"moving on", "answered"} /\ ~chains'[j].released
              => chains'[j].depth = 0
        /\ \A j \in Chains : chains'[j].at = "moving on" => chains[j].at = "moving on" /\ top' = "next"
    BY <1>1, <1>2 DEF Walks
  <2>4. \A i, j \in Chains : chains'[i].at = "moving on" /\ chains'[j].at = "moving on" => i = j
    BY <1>1, <2>3 DEF Walks
  <2> QED BY <2>1, <2>2, <2>3, <2>4 DEF Walks
<1>7. Owed'
  <2>1. top' = "fan out" => \E j \in Chains : Main(j)'
    BY <1>1, <1>5 DEF Owed
  <2>2. top' = "next" => \E j \in Chains : chains'[j].at = "moving on"
    BY <1>1, <1>2 DEF Owed
  <2>3. top' = "pending" => \E t \in Tries : t = try' /\ fanOuts'[t].suspended
    BY <1>1 DEF Owed, Keeps
  <2>4. ASSUME NEW t \in Tries, fanOuts'[t].suspended
        PROVE  Quiet(fanOuts[t])' \/ \E j \in Chains : ComesBack(j, t)'
    <3>1. fanOuts[t].suspended
      BY <2>4 DEF Keeps
    <3>2. CASE chain.try = t /\ (chain.at = "starting" \/ (chain.at = "driving" /\ chain.depth # 0))
      BY <1>2, <3>2 DEF ComesBack
    <3>3. CASE fanOuts'[t] = fanOuts[t] /\ (ComesBack(k, t) => Quiet(fanOuts[t]))
      <4>1. Quiet(fanOuts[t]) => Quiet(fanOuts[t])'
        BY <1>1, <3>3 DEF Quiet, HasOutcome, Finished, HasRoom
      <4>2. \A j \in Chains : ComesBack(j, t) /\ j # k => ComesBack(j, t)'
        BY <1>2 DEF ComesBack
      <4>3. Quiet(fanOuts[t]) \/ \E j \in Chains : ComesBack(j, t)
        BY <1>1, <3>1 DEF Owed
      <4> QED BY <3>3, <4>1, <4>2, <4>3
    <3> QED BY <3>1, <3>2, <3>3 DEF StillOwed
  <2> QED BY <2>1, <2>2, <2>3, <2>4 DEF Owed
<1> QED BY <1>3, <1>4, <1>6, <1>7 DEF Tops

LEMMA AllKept == ASSUME FanOutInv, UNCHANGED fanOuts PROVE \A t \in Tries : Keeps(t)
BY DEF FanOutInv, Tops, Outcomes, Keeps

LEMMA StartsTops == ASSUME FanOutInv, NEW k \in Chains, Starts(k) PROVE Tops'
<1> DEFINE t == chains[k].try
           c == Head(fanOuts[t].waiting)
           chain == [chains[k] EXCEPT !.at = "driving", !.child = c]
<1>1. /\ chains[k].at = "starting" /\ Goes(k, chain) /\ UNCHANGED <<limit, status, top, try>>
      /\ fanOuts[t].waiting # <<>>
    BY DEF Starts
<1>2. /\ fanOuts'[t].answers = fanOuts[t].answers /\ fanOuts'[t].suspended = fanOuts[t].suspended
      /\ fanOuts'[t].failure = fanOuts[t].failure /\ fanOuts'[t].ended = fanOuts[t].ended
      /\ \A u \in Tries : u # t => fanOuts'[u] = fanOuts[u]
    BY StartsBody
<1>3. chains[k] \in AChain /\ t \in Tries /\ Agree(fanOuts[t], children[t])
    BY <1>1, ChainIn
<1>4. c \in Children
    BY <1>1, <1>3, NextChild
<1> HIDE DEF c
<1>5. /\ chain \in AChain /\ chain.at = "driving" /\ chain.try = t /\ chain.depth = chains[k].depth
      /\ chain.released = chains[k].released
    BY <1>3, <1>4 DEF AChain
<1> HIDE DEF chain
<1>6. Moves(k, chain)
    BY <1>1, <1>5 DEF Moves, Main
<1>7. \A u \in Tries : Keeps(u)
    BY <1>2 DEF FanOutInv, Tops, Outcomes, HasOutcome, Finished, Keeps
<1>8. ASSUME NEW u \in Tries, fanOuts[u].suspended PROVE StillOwed(k, chain, u)
  <2>1. CASE u = t
    <3>1. ~Main(k)
      BY <1>8, HeldBack
    <3>2. chains[k].depth # 0
      BY <1>1, <3>1 DEF FanOutInv, Tops, Walks, Main
    <3> QED BY <1>5, <2>1, <3>2 DEF StillOwed
  <2>2. CASE u # t
    BY <1>2, <2>2 DEF StillOwed, ComesBack
  <2> QED BY <2>1, <2>2
<1> QED BY <1>6, <1>7, <1>8, TopsStand, SMTT(30)

(* A walk that pauses, or whose end comes late, lets go of its chain.        *)
LEMMA ReturnsTops ==
    ASSUME FanOutInv, NEW k \in Chains, Drives(k), UNCHANGED <<limit, status, top, try, fanOuts>>,
           Goes(k, Returned(chains[k]))
    PROVE  Tops'
<1> DEFINE chain == Returned(chains[k])
<1>1. chains[k].at = "driving" /\ chains[k] \in AChain
    BY ChainIn DEF Drives
<1>2. /\ chain \in AChain
      /\ \/ chain.at = "over" /\ chains[k].depth = 0 /\ chains[k].released
         \/ /\ chain.at = "starting" /\ chain.try = chains[k].try /\ chain.depth = chains[k].depth
            /\ chain.released = chains[k].released /\ (chains[k].released => chains[k].depth # 0)
    BY <1>1, ReturnedTo, NoChainTypes
<1> HIDE DEF chain
<1>3. Moves(k, chain)
    BY <1>1, <1>2 DEF Moves, Main, chain
<1>4. \A t \in Tries : StillOwed(k, chain, t)
    BY <1>1, <1>2 DEF StillOwed, ComesBack
<1> QED BY <1>3, <1>4, AllKept, TopsStand

LEMMA WalksTops == ASSUME FanOutInv, NEW k \in Chains, GoesOn(k) \/ Pauses(k) PROVE Tops'
<1>1. CASE GoesOn(k)
  <2>1. Drives(k) /\ UNCHANGED <<limit, status, top, try, fanOuts, chains>>
    BY <1>1 DEF GoesOn
  <2>2. chains[k].at = "driving" /\ chains[k] \in AChain /\ chains \in [Chains -> AChain]
    BY <2>1, ChainIn DEF Drives, FanOutInv, Body, ChainTypes
  <2>3. Goes(k, chains[k])
    BY <2>1, <2>2 DEF Goes
  <2>4. Moves(k, chains[k])
    BY <2>1, <2>2, <2>3 DEF Moves, Main
  <2>5. \A t \in Tries : StillOwed(k, chains[k], t)
    BY <2>1, <2>2 DEF StillOwed, ComesBack
  <2> QED BY <2>1, <2>4, <2>5, AllKept, TopsStand
<1>2. CASE Pauses(k)
    BY <1>2, ReturnsTops DEF Pauses
<1> QED BY <1>1, <1>2

LEMMA EndsTops == ASSUME FanOutInv, NEW k \in Chains, WalksNoFurther(k) \/ Ends(k) PROVE Tops'
<1> DEFINE t == chains[k].try
           chain == [chains[k] EXCEPT !.at = "starting", !.child = None, !.depth = @ + 1]
<1>1. Drives(k) /\ UNCHANGED <<limit, status, top, try>>
    BY DEF WalksNoFurther, Ends
<1>2. CASE Late(k)
    BY <1>1, <1>2, ReturnsTops DEF Late
<1>3. CASE InTime(k)
  <2>1. /\ Goes(k, chain) /\ fanOuts[t].answers = 0 /\ fanOuts'[t].answers = 0
        /\ fanOuts'[t].suspended = fanOuts[t].suspended
        /\ \A u \in Tries : u # t => fanOuts'[u] = fanOuts[u]
    BY <1>3 DEF InTime
  <2>2. chains[k].at = "driving" /\ chains[k] \in AChain /\ chains[k].depth \in Nat
    BY <1>1, ChainIn DEF Drives
  <2>3. chain = chains'[k] /\ chains' \in [Chains -> AChain]
    BY <2>1, EndsBody, Gone DEF FanOutInv, Body, ChainTypes, Goes
  <2>4. chain \in AChain
    BY <2>3
  <2>5. chain.at = "starting" /\ chain.try = t /\ chain.released = chains[k].released
    BY <2>2 DEF AChain
  <2>6. chain.depth # 0
    <3> DEFINE more == chains[k].depth + 1
    <3>1. more # 0
      BY <2>2
    <3> HIDE DEF more
    <3>2. [chains[k] EXCEPT !.at = "starting", !.child = None, !.depth = more].depth = more
      BY <2>2 DEF AChain
    <3> QED BY <3>1, <3>2 DEF more
  <2> HIDE DEF chain
  <2>7. Moves(k, chain)
    BY <1>1, <2>1, <2>2, <2>4, <2>5, <2>6 DEF Moves, Main
  <2>8. ~(0 > 0)
    OBVIOUS
  <2>9. \A u \in Tries : Keeps(u)
    BY <2>1, <2>8 DEF FanOutInv, Tops, Outcomes, Keeps
  <2>10. \A u \in Tries : StillOwed(k, chain, u)
    BY <2>1, <2>5 DEF StillOwed, ComesBack
  <2> QED BY <2>7, <2>9, <2>10, TopsStand
<1> QED BY <1>2, <1>3, EndsBody

LEMMA ReleasesTops == ASSUME FanOutInv, NEW k \in Chains, Releases(k) PROVE Tops'
<1>1. UNCHANGED <<limit, status, top, try>>
    BY DEF Releases
<1>2. UNCHANGED fanOuts /\ chains[k].at = "over"
    BY ReleasesBody
<1>3. PICK chain \in AChain :
         /\ Goes(k, chain)
         /\ \/ chain = chains[k]
            \/ chain.at = "driving" /\ chain.released /\ chain.depth = 0
  <2>1. chains \in [Chains -> AChain]
    BY DEF FanOutInv, Body, ChainTypes
  <2>2. UNCHANGED chains => Goes(k, chains[k])
    BY <2>1 DEF Goes
  <2> QED BY <2>1, <2>2, ReleasesBody
<1>4. Moves(k, chain)
    BY <1>1, <1>2, <1>3 DEF Moves, Main
<1>5. \A t \in Tries : StillOwed(k, chain, t)
    BY <1>2 DEF StillOwed, ComesBack
<1> QED BY <1>2, <1>4, <1>5, AllKept, TopsStand

LEMMA GoesBackTops == ASSUME FanOutInv, NEW k \in Chains, NEW chain, GoesBack(k, chain) PROVE Tops'
<1>1. /\ UNCHANGED <<limit, status, top, try, fanOuts>> /\ Goes(k, chain) /\ chain \in AChain
      /\ \/ chain.at = "over" /\ (chains[k].at = "answered" \/ chains[k].released)
         \/ /\ chain.at = "starting" /\ chain.try = chains[k].try
            /\ chain.released = chains[k].released /\ chains[k].depth # 0
            /\ chain.released => chain.depth # 0
    BY GoesBackBody
<1>2. \/ chains[k].at = "starting" /\ NothingToResume(k)
      \/ chains[k].at = "answered"
    BY DEF GoesBack, NothingToResume, AnswerReturns, HasStarted
<1>3. chains[k].at = "answered" /\ ~chains[k].released => chains[k].depth = 0
    BY DEF FanOutInv, Tops, Walks
<1>4. Moves(k, chain)
    BY <1>1, <1>2, <1>3 DEF Moves, Main
<1>5. ASSUME NEW t \in Tries, fanOuts[t].suspended PROVE StillOwed(k, chain, t)
  <2>1. CASE chains[k].at = "answered"
    BY <1>1, <2>1 DEF StillOwed, ComesBack
  <2>2. CASE NothingToResume(k)
    BY <1>1, <1>5, <2>2 DEF StillOwed, ComesBack, NothingToResume, HasStarted, Quiet
  <2> QED BY <1>2, <2>1, <2>2
<1> QED BY <1>1, <1>4, <1>5, AllKept, TopsStand

(* The steps that take the execution on.                                     *)
LEMMA AnsweringTops == ASSUME FanOutInv, NEW k \in Chains, Answering(k) PROVE Tops'
<1>1. /\ Outcomes /\ Suspensions /\ AnswersOnce /\ Stages /\ Walks /\ Owed /\ ChainTypes
    BY DEF FanOutInv, Tops, Body
<1>2. /\ chains[k].at = "starting" /\ chains[k].try = try /\ top \in {"fan out", "pending"}
      /\ \A j \in Chains : Main(j) => j = k
      /\ ~chains[k].released => chains[k].depth = 0
      /\ Answers(k, chains[k].try) /\ UNCHANGED <<limit, try, children>>
    BY DEF Answering
<1>3. /\ fanOuts'[try].answers = 1 /\ ~fanOuts'[try].suspended /\ HasOutcome(fanOuts'[try])
      /\ try \in Tries /\ \A u \in Tries : u # try => fanOuts'[u] = fanOuts[u]
    BY AnsweringBody
<1>4. PICK at \in {"answered", "moving on"} :
         /\ Goes(k, [chains[k] EXCEPT !.at = at])
         /\ top' \in {"paused", "next", "over"}
         /\ at = "moving on" <=> top' = "next"
         /\ IF top' = "over" THEN status' \in {"SUCCEEDED", "FAILED"} ELSE status' = status
    BY <1>2 DEF Answers
<1>5. chains[k] \in AChain
    BY <1>1 DEF ChainTypes
<1>6. /\ chains'[k].at = at /\ chains'[k].released = chains[k].released /\ chains'[k].depth = chains[k].depth
      /\ \A j \in Chains : j # k => chains'[j] = chains[j]
    BY <1>1, <1>4, <1>5 DEF Goes, ChainTypes, AChain
<1>7. Outcomes'
    BY <1>1, <1>3 DEF Outcomes, HasOutcome, Finished
<1>8. \A t \in Tries : ~fanOuts'[t].suspended
    BY <1>1, <1>3 DEF Suspensions
<1>9. AnswersOnce' /\ Suspensions'
    BY <1>2, <1>3, <1>4, <1>8 DEF AnswersOnce, Suspensions
<1>10. Stages'
    BY <1>1, <1>2, <1>4 DEF Stages, FanOutInv, Body, TopTypes
<1>11. \A j \in Chains : ~Main(j)' /\ (chains'[j].at = "moving on" => j = k)
    BY <1>1, <1>2, <1>4, <1>6 DEF Main, Walks
<1>12. Walks'
    BY <1>1, <1>2, <1>4, <1>6, <1>11 DEF Walks
<1>13. Owed'
    BY <1>4, <1>6, <1>8 DEF Owed
<1> QED BY <1>7, <1>9, <1>10, <1>12, <1>13 DEF Tops

LEMMA SuspendsTops == ASSUME FanOutInv, NEW k \in Chains, Suspends(k) PROVE Tops'
<1>1. /\ Outcomes /\ Suspensions /\ AnswersOnce /\ Stages /\ Walks /\ Owed /\ ChainTypes
    BY DEF FanOutInv, Tops, Body
<1>2. Main(k) /\ chains[k].try = try /\ top = "fan out"
    BY OwnWalk DEF Suspends, HasStarted
<1>3. /\ fanOuts'[try].answers = 0 /\ Quiet(fanOuts[try])'
      /\ try \in Tries /\ \A u \in Tries : u # try => fanOuts'[u] = fanOuts[u]
    BY SuspendsBody
<1>4. UNCHANGED <<limit, status, try>> /\ top' = "pending" /\ Goes(k, NoChain)
    BY DEF Suspends, HasStarted
<1>5. /\ chains'[k] = NoChain /\ NoChain.at = "over" /\ \A j \in Chains : j # k => chains'[j] = chains[j]
    BY <1>1, <1>4, Gone, NoChainTypes
<1>6. ~(0 > 0)
    OBVIOUS
<1>7. Outcomes'
    BY <1>1, <1>3, <1>6 DEF Outcomes, HasOutcome, Finished
<1>8. \A t \in Tries : fanOuts'[t].suspended => t = try
    BY <1>1, <1>2, <1>3 DEF Suspensions
<1>9. AnswersOnce' /\ Suspensions' /\ Stages'
    BY <1>1, <1>2, <1>3, <1>4, <1>8 DEF AnswersOnce, Suspensions, Stages
<1>10. \A j \in Chains : ~Main(j)' /\ chains'[j].at # "moving on"
    BY <1>1, <1>2, <1>5 DEF Main, Walks
<1>11. Walks'
    BY <1>1, <1>5, <1>10 DEF Walks
<1>12. fanOuts'[try].suspended
  <2>1. fanOuts \in [Tries -> AFanOut]
    BY DEF FanOutInv, Body, Attempts
  <2>2. fanOuts' = [fanOuts EXCEPT ![try] = [fanOuts[try] EXCEPT !.suspended = TRUE]]
    BY <1>2 DEF Suspends
  <2> QED BY <1>3, <2>1, <2>2 DEF AFanOut
<1>13. Owed'
  <2>1. \A t \in Tries : fanOuts'[t].suspended => Quiet(fanOuts[t])'
    BY <1>3, <1>4, <1>8 DEF Quiet, HasOutcome, Finished, HasRoom
  <2> QED BY <1>3, <1>4, <1>12, <2>1 DEF Owed
<1> QED BY <1>7, <1>9, <1>11, <1>13 DEF Tops

LEMMA MovesOnTops == ASSUME FanOutInv, NEW k \in Chains, MovesOn(k) PROVE Tops'
<1>1. /\ Outcomes /\ Suspensions /\ AnswersOnce /\ Stages /\ Walks /\ Owed /\ ChainTypes
    BY DEF FanOutInv, Tops, Body
<1>2. /\ UNCHANGED <<limit, try, fanOuts>> /\ top' = "over" /\ status' \in {"SUCCEEDED", "FAILED"}
      /\ Goes(k, [chains[k] EXCEPT !.at = "answered"]) /\ chains[k].at = "moving on" /\ top = "next"
    BY <1>1 DEF MovesOn, Walks
<1>3. /\ chains'[k].at = "answered" /\ chains'[k].released = chains[k].released
      /\ chains'[k].depth = chains[k].depth /\ \A j \in Chains : j # k => chains'[j] = chains[j]
    BY <1>1, <1>2 DEF Goes, ChainTypes, AChain
<1>4. Outcomes'
    BY <1>1, <1>2 DEF Outcomes, HasOutcome, Finished
<1>5. Suspensions' /\ AnswersOnce'
    BY <1>1, <1>2 DEF Suspensions, AnswersOnce
<1>6. Stages'
    BY <1>1, <1>2 DEF Stages
<1>7. \A j \in Chains : ~Main(j)' /\ chains'[j].at # "moving on"
    BY <1>1, <1>2, <1>3 DEF Main, Walks
<1>8. Walks'
    BY <1>1, <1>2, <1>3, <1>7 DEF Walks
<1>9. Owed'
    BY <1>1, <1>2 DEF Owed, Suspensions
<1> QED BY <1>4, <1>5, <1>6, <1>8, <1>9 DEF Tops

LEMMA RunsTops ==
    ASSUME FanOutInv, NEW k \in Chains, RunsFanOut(k), status' = "RUNNING", top \in {"out", "paused"}
    PROVE  Tops'
<1> DEFINE new == try + 1
           chain == [NoChain EXCEPT !.at = "starting", !.try = new]
<1>1. /\ Outcomes /\ Suspensions /\ AnswersOnce /\ Stages /\ Walks /\ Owed /\ ChainTypes /\ TopTypes
    BY DEF FanOutInv, Tops, Body
<1>2. try' = new /\ top' = "fan out" /\ Goes(k, chain) /\ fanOuts' = [fanOuts EXCEPT ![new] = Begun]
    BY DEF RunsFanOut, Begun
<1>3. new \in Tries /\ new # 0 /\ new # try
  <2>1. try \in 0 .. MaxRetries + 1 /\ try < MaxRetries + 1 /\ MaxRetries \in Nat
    BY <1>1, Bounds DEF TopTypes, RunsFanOut
  <2> QED BY <2>1 DEF Tries
<1>4. \A t \in Tries : t # new => fanOuts'[t] = fanOuts[t]
    BY RunsBody
<1>5. fanOuts'[new] = Begun
    BY <1>2, <1>3 DEF FanOutInv, Body, Attempts
<1>6. Begun.answers = 0 /\ Begun.suspended = FALSE
    BY DEF Begun, NewFanOut
<1>7. /\ chain.at = "starting" /\ chain.try = new /\ ~chain.released
    BY DEF NoChain
<1> HIDE DEF new, chain
<1>8. chains'[k] = chain /\ \A j \in Chains : j # k => chains'[j] = chains[j]
    BY <1>1, <1>2 DEF Goes, ChainTypes
<1>9. ~(0 > 0)
    OBVIOUS
<1>10. Outcomes'
    BY <1>1, <1>4, <1>5, <1>6, <1>9 DEF Outcomes, HasOutcome, Finished
<1>11. \A t \in Tries : ~fanOuts'[t].suspended
    BY <1>1, <1>4, <1>5, <1>6 DEF Suspensions
<1>12. Suspensions' /\ AnswersOnce'
    BY <1>2, <1>5, <1>6, <1>11 DEF Suspensions, AnswersOnce
<1>13. Stages'
    BY <1>2, <1>3 DEF Stages
<1>14. \A j \in Chains : (Main(j)' <=> j = k) /\ chains'[j].at # "moving on"
    BY <1>1, <1>7, <1>8 DEF Main, Walks
<1>15. Walks'
    BY <1>1, <1>2, <1>7, <1>8, <1>14 DEF Walks
<1>16. Owed'
    BY <1>2, <1>11, <1>14 DEF Owed
<1> QED BY <1>10, <1>12, <1>13, <1>15, <1>16 DEF Tops

-----------------------------------------------------------------------------
(* Every step keeps it, and what follows from it.                            *)

LEMMA CallsKeepInv == ASSUME FanOutInv, NEW k \in Chains, Calls(k) PROVE FanOutInv'
<1>1. CASE Starts(k)
    BY <1>1, StartsBody, StartsTops DEF FanOutInv
<1>2. CASE GoesOn(k) \/ Pauses(k)
    BY <1>2, WalksBody, WalksTops DEF FanOutInv
<1>3. CASE WalksNoFurther(k) \/ Ends(k)
    BY <1>3, EndsBody, EndsTops DEF FanOutInv
<1>4. CASE AnswersAtOnce(k) \/ Resumes(k)
    BY <1>4, BothAnswer, AnsweringBody, AnsweringTops DEF FanOutInv
<1>5. CASE Suspends(k)
    BY <1>5, SuspendsBody, SuspendsTops DEF FanOutInv
<1>6. CASE NothingToResume(k) \/ AnswerReturns(k)
  <2>1. \E chain : GoesBack(k, chain)
    BY <1>6 DEF GoesBack
  <2> QED BY <2>1, GoesBackBody, GoesBackTops DEF FanOutInv
<1>7. CASE MovesOn(k)
    BY <1>7, MovesOnBody, MovesOnTops DEF FanOutInv
<1> QED BY <1>1, <1>2, <1>3, <1>4, <1>5, <1>6, <1>7 DEF Calls

LEMMA StepKeepsInv == ASSUME FanOutInv, [Next]_vars PROVE FanOutInv'
<1>1. ASSUME NEW k \in Chains, StartExecution(k) \/ Retries(k) PROVE FanOutInv'
  <2>1. RunsFanOut(k) /\ status' = "RUNNING" /\ top \in {"out", "paused"}
    BY <1>1 DEF StartExecution, Retries, FanOutInv, Tops, Stages
  <2> QED BY <2>1, RunsBody, RunsTops DEF FanOutInv
<1>2. ASSUME NEW k \in Chains, Releases(k) PROVE FanOutInv'
    BY <1>2, ReleasesBody, ReleasesTops DEF FanOutInv
<1>3. CASE UNCHANGED vars
  <2>1. /\ limit' = limit /\ status' = status /\ top' = top /\ try' = try
        /\ fanOuts' = fanOuts /\ children' = children /\ chains' = chains
    BY <1>3 DEF vars
  <2>2. TopTypes' /\ Attempts' /\ ChainTypes'
    BY <2>1 DEF FanOutInv, Body, TopTypes, Attempts, ChainTypes
  <2>3. Hands'
    BY <2>1 DEF FanOutInv, Body, Hands, Drives, Same
  <2>4. Outcomes'
    BY <2>1 DEF FanOutInv, Tops, Outcomes, HasOutcome, Finished
  <2>5. Suspensions' /\ AnswersOnce' /\ Stages'
    BY <2>1 DEF FanOutInv, Tops, Suspensions, AnswersOnce, Stages
  <2>6. Walks'
    BY <2>1 DEF FanOutInv, Tops, Walks, Main
  <2>7. Owed'
    BY <2>1 DEF FanOutInv, Tops, Owed, Main, Quiet, ComesBack, HasOutcome, Finished, HasRoom
  <2> QED BY <2>2, <2>3, <2>4, <2>5, <2>6, <2>7 DEF FanOutInv, Body, Tops
<1> QED BY <1>1, <1>2, <1>3, CallsKeepInv DEF Next, ClockReleases

(* The invariant the others are read off holds in every state.               *)
THEOREM FanOutInvHolds == Spec => []FanOutInv
<1>1. Init => FanOutInv
    BY FanOutInitial
<1>2. FanOutInv /\ [Next]_vars => FanOutInv'
    BY StepKeepsInv
<1> QED BY <1>1, <1>2, PTL DEF Spec

(* Every state is one of the types of the code's fields: the counts of a     *)
(* fan-out never pass the number of its children, nor its answers one.       *)
THEOREM FanOutTypesHold == Spec => []FanOutTypeOK
BY FanOutInvHolds, FanOutInvTypes, PTL

LEMMA Numbers == ASSUME FanOutInv, NEW t \in 1 .. try PROVE t \in Tries /\ t <= try
<1>1. try \in 0 .. MaxRetries + 1
    BY DEF FanOutInv, Body, TopTypes
<1> QED BY <1>1, Bounds DEF Tries

LEMMA ToStart ==
    ASSUME NEW f, NEW kids, Agree(f, kids), f.failure = None
    PROVE  Cardinality(Those(kids, "NONE")) = Len(f.waiting)
<1>1. Counted(f, kids) /\ f.waiting \in Seq(Children)
    BY DEF Agree, AFanOut
<1>2. PICK n \in 0 .. Count : n = Len(f.waiting)
    BY <1>1, Bounds DEF Counted
<1>3. Those(kids, "NONE") = {c \in Children : c > Count - n}
    BY <1>1, <1>2 DEF Counted, Those
<1> DEFINE first == Count - n + 1
<1>4. n \in Nat /\ Count \in Nat /\ n <= Count /\ first \in Int
    BY <1>2, Bounds
<1>5. {c \in Children : c > Count - n} = first .. Count
  <2>1. ASSUME NEW c \in Int PROVE (c \in 1 .. Count /\ c > Count - n) <=> c \in first .. Count
    BY <1>4
  <2>2. (first .. Count) \subseteq Int /\ Children \subseteq Int
    BY <1>4 DEF Children
  <2> HIDE DEF first
  <2> QED BY <2>1, <2>2 DEF Children
<1>6. (first > Count => n = 0) /\ (~(first > Count) => Count - first + 1 = n)
    BY <1>4
<1> HIDE DEF first
<1>7. Cardinality(first .. Count) = IF first > Count THEN 0 ELSE Count - first + 1
    BY <1>4, FS_Interval
<1>8. Cardinality(first .. Count) = n
    BY <1>6, <1>7
<1> QED BY <1>2, <1>3, <1>5, <1>8

(* The counts the bound and the end are read off are those of the children,  *)
(* in every state (child-runs.ts, fan-out.ts).                               *)
THEOREM CountsHold == Spec => []CountsItsChildren
<1>1. FanOutInv => CountsItsChildren
  <2> SUFFICES ASSUME FanOutInv, NEW t \in 1 .. try, fanOuts[t].failure = None
               PROVE  /\ fanOuts[t].running = Cardinality(Status(t, "RUNNING"))
                      /\ fanOuts[t].ended = Cardinality(Status(t, "SUCCEEDED"))
                      /\ fanOuts[t].waiting = [i \in 1 .. Cardinality(Status(t, "NONE")) |->
                                                 i + Count - Cardinality(Status(t, "NONE"))]
    BY DEF CountsItsChildren
  <2>1. Agree(fanOuts[t], children[t])
    BY Numbers DEF FanOutInv, Body, Attempts
  <2>2. Counted(fanOuts[t], children[t])
    BY <2>1 DEF Agree
  <2>3. \A how : Status(t, how) = Those(children[t], how)
    BY DEF Status, Those
  <2> QED BY <2>1, <2>2, <2>3, ToStart DEF Counted
<1> QED BY <1>1, FanOutInvHolds, PTL

(* However the chains overlap, a child is never in the hands of two, and one *)
(* that is at work is in somebody's.                                         *)
THEOREM OneChainHolds == Spec => []OneChainPerChild
<1>1. FanOutInv => OneChainPerChild
  <2> SUFFICES ASSUME FanOutInv, NEW t \in Tries, NEW c \in Children
               PROVE  LET driving == {k \in Chains : Drives(k) /\ chains[k].try = t /\ chains[k].child = c}
                      IN  /\ children[t][c].at = "running" <=> driving # {}
                          /\ \A j, k \in driving : j = k
    BY DEF OneChainPerChild
  <2> DEFINE driving == {k \in Chains : Drives(k) /\ chains[k].try = t /\ chains[k].child = c}
  <2>1. Hands
    BY DEF FanOutInv, Body
  <2>2. \A j, k \in driving : j = k
    BY <2>1 DEF Hands, Same
  <2>3. driving # {} => children[t][c].at = "running"
    BY <2>1 DEF Hands
  <2>4. children[t][c].at = "running" => driving # {}
    BY <2>1 DEF Hands
  <2> QED BY <2>2, <2>3, <2>4
<1> QED BY <1>1, FanOutInvHolds, PTL

(* Something always carries an execution on that has not ended: the argument *)
(* fan-out.ts makes for suspending, with the bound, the failures and the     *)
(* calls of calls taken into account.                                        *)
THEOREM NeverStuckHolds == Spec => []NeverStuck
<1>1. FanOutInv => NeverStuck
  <2> SUFFICES ASSUME FanOutInv, status = "RUNNING", \A k \in Chains : chains[k].at = "over", top # "paused"
               PROVE  top = "pending" /\ \E c \in Status(try, "RUNNING") : children[try][c].at = "paused"
    BY DEF NeverStuck
  <2>1. TopTypes /\ Attempts /\ Hands /\ Stages /\ Owed
    BY DEF FanOutInv, Body, Tops
  <2>2. \A k \in Chains : ~Main(k) /\ chains[k].at # "moving on" /\ ~Drives(k) /\ \A t \in Tries : ~ComesBack(k, t)
    BY DEF Main, Drives, ComesBack
  <2>3. top = "pending"
    BY <2>1, <2>2 DEF TopTypes, Stages, Owed
  <2>4. try \in Tries /\ fanOuts[try].suspended
    BY <2>1, <2>3 DEF Owed
  <2> DEFINE f == fanOuts[try]
             kids == children[try]
  <2>5. Quiet(f)
    BY <2>1, <2>2, <2>4 DEF Owed
  <2>6. try <= try
    <3>1. try \in Nat
      BY <2>1, TryNumbers
    <3> QED BY <3>1
  <2>7. Agree(f, kids) /\ f.failure = None /\ Counted(f, kids) /\ f \in AFanOut
    BY <2>1, <2>4, <2>5, <2>6 DEF Attempts, Quiet, HasOutcome, Agree
  <2>8. \E c \in Children : kids[c].status = "RUNNING"
    <3> SUFFICES ASSUME \A c \in Children : kids[c].status # "RUNNING"
                 PROVE  FALSE
      OBVIOUS
    <3>1. Those(kids, "RUNNING") = {}
      BY DEF Those
    <3>2. f.running = 0
      BY <2>7, <3>1, FS_EmptySet DEF Counted
    <3>3. limit \in Nat /\ limit # 0
      BY <2>1, Bounds DEF TopTypes
    <3>4. HasRoom(f)
      BY <3>2, <3>3 DEF HasRoom
    <3>5. f.waiting = <<>>
      BY <2>5, <3>4 DEF Quiet
    <3>6. \A c \in Children : ~(c > Count - Len(f.waiting))
      BY <3>5, Bounds DEF Children
    <3>7. \A c \in Children : kids[c].status = "SUCCEEDED"
      BY <2>7, <3>6 DEF Counted
    <3>8. Those(kids, "SUCCEEDED") = Children
      BY <3>7 DEF Those
    <3>9. Cardinality(Children) = Count
      BY Bounds, FS_Interval DEF Children
    <3>10. f.ended = Count
      BY <2>7, <3>8, <3>9 DEF Counted
    <3>11. f.ended >= Count
      BY <3>10, Bounds
    <3> QED BY <2>5, <3>11 DEF Quiet, HasOutcome, Finished
  <2>9. PICK c \in Children : kids[c].status = "RUNNING"
    BY <2>8
  <2>10. kids[c].at \in {"running", "paused"}
    BY <2>7, <2>9 DEF Agree, ChildSound
  <2>11. kids[c].at # "running"
    BY <2>1, <2>2, <2>4 DEF Hands
  <2> QED BY <2>3, <2>9, <2>10, <2>11 DEF Status
<1> QED BY <1>1, FanOutInvHolds, PTL

(* What each kind of step leaves alone of what has ended or answered.        *)
Final(t) == fanOuts[t].answers > 0 => fanOuts'[t] = fanOuts[t]

OverIsOver == status \in {"SUCCEEDED", "FAILED"} => status' = status /\ top' = top

LEMMA StepsLeaveAlone ==
    ASSUME FanOutInv, [Next]_vars
    PROVE  OverIsOver /\ \A t \in Tries : Final(t)
<1>1. ~(0 > 0)
    OBVIOUS
<1>2. status \in {"SUCCEEDED", "FAILED"} => top = "over"
    BY DEF FanOutInv, Tops, Stages
<1>3. ASSUME NEW k \in Chains, StartExecution(k) \/ Retries(k) PROVE OverIsOver /\ \A t \in Tries : Final(t)
  <2>1. RunsFanOut(k) /\ (status = "NONE" \/ top = "paused") /\ status' \in {"NONE", "RUNNING", "SUCCEEDED", "FAILED"}
    BY <1>3 DEF StartExecution, Retries
  <2>2. \A t \in Tries : t # try + 1 => fanOuts'[t] = fanOuts[t]
    BY <2>1, RunsBody
  <2>3. try + 1 > try
    BY TryNumbers DEF FanOutInv, Body
  <2>4. try + 1 \in Tries => fanOuts[try + 1].answers = 0
    BY <2>3 DEF FanOutInv, Body, Attempts, NewFanOut
  <2> QED BY <1>1, <1>2, <2>1, <2>2, <2>4 DEF OverIsOver, Final
<1>4. ASSUME NEW k \in Chains, Starts(k) PROVE OverIsOver /\ \A t \in Tries : Final(t)
  <2>1. /\ chains[k].at = "starting" /\ fanOuts[chains[k].try].waiting # <<>> /\ UNCHANGED <<status, top>>
    BY <1>4 DEF Starts
  <2>2. chains[k].try \in Tries /\ ~HasOutcome(fanOuts[chains[k].try])
    BY <2>1, ChainIn, AllThrough
  <2>3. ~(fanOuts[chains[k].try].answers > 0)
    BY <2>2 DEF FanOutInv, Tops, Outcomes
  <2> QED BY <1>4, <2>1, <2>3, StartsBody, SMTT(30) DEF OverIsOver, Final
<1>5. ASSUME NEW k \in Chains, WalksNoFurther(k) \/ Ends(k) PROVE OverIsOver /\ \A t \in Tries : Final(t)
  <2>1. UNCHANGED <<status, top>> /\ (Late(k) \/ InTime(k))
    BY <1>5, EndsBody DEF WalksNoFurther, Ends
  <2> QED BY <1>1, <2>1, SMTT(30) DEF OverIsOver, Final, Late, InTime
<1>6. ASSUME NEW k \in Chains, AnswersAtOnce(k) \/ Resumes(k) PROVE OverIsOver /\ \A t \in Tries : Final(t)
  <2>1. Answering(k)
    BY <1>6, BothAnswer
  <2>2. top \in {"fan out", "pending"} /\ fanOuts[try].answers = 0
    BY <2>1 DEF Answering
  <2>3. \A u \in Tries : u # try => fanOuts'[u] = fanOuts[u]
    BY <2>1, AnsweringBody
  <2> QED BY <1>1, <1>2, <2>2, <2>3 DEF OverIsOver, Final
<1>7. ASSUME NEW k \in Chains, Suspends(k) PROVE OverIsOver /\ \A t \in Tries : Final(t)
  <2>1. top = "fan out" /\ fanOuts[try].answers = 0
    BY <1>7, OwnWalk DEF Suspends
  <2> QED BY <1>1, <1>2, <1>7, <2>1, SuspendsBody DEF OverIsOver, Final
<1>8. ASSUME NEW k \in Chains, MovesOn(k) PROVE OverIsOver /\ \A t \in Tries : Final(t)
  <2>1. top = "next" /\ UNCHANGED fanOuts
    BY <1>8 DEF MovesOn, FanOutInv, Tops, Walks
  <2> QED BY <1>2, <2>1 DEF OverIsOver, Final
<1>9. ASSUME UNCHANGED <<status, top, fanOuts>> PROVE OverIsOver /\ \A t \in Tries : Final(t)
    BY <1>9 DEF OverIsOver, Final
<1>10. ASSUME NEW k \in Chains, Calls(k) PROVE OverIsOver /\ \A t \in Tries : Final(t)
  <2>1. GoesOn(k) \/ Pauses(k) \/ NothingToResume(k) \/ AnswerReturns(k) => UNCHANGED <<status, top, fanOuts>>
    BY DEF GoesOn, Pauses, NothingToResume, AnswerReturns
  <2> QED BY <1>4, <1>5, <1>6, <1>7, <1>8, <1>9, <1>10, <2>1 DEF Calls
<1>11. \A k \in Chains : Releases(k) => UNCHANGED <<status, top, fanOuts>>
    BY DEF Releases
<1>12. UNCHANGED vars => UNCHANGED <<status, top, fanOuts>>
    BY DEF vars
<1> QED BY <1>3, <1>9, <1>10, <1>11, <1>12 DEF Next, ClockReleases

(* A child that comes back late changes nothing of a fan-out that has        *)
(* answered (fan-out.ts, settled).                                           *)
THEOREM AnswerStandsHolds == Spec => AnswerStands
<1>1. FanOutInv /\ [Next]_vars =>
        [\A t \in Tries : fanOuts[t].answers > 0 => fanOuts'[t] = fanOuts[t]]_vars
    BY StepsLeaveAlone DEF Final
<1> QED BY <1>1, FanOutInvHolds, PTL DEF Spec, AnswerStands

(* An execution that has ended stays as it ended.                            *)
THEOREM EndsOnceHolds == Spec => ExecutionEndsOnce
<1>1. FanOutInv /\ [Next]_vars =>
        [status = "SUCCEEDED" \/ status = "FAILED" => status' = status /\ top' = top]_vars
    BY StepsLeaveAlone DEF OverIsOver
<1> QED BY <1>1, FanOutInvHolds, PTL DEF Spec, ExecutionEndsOnce

-----------------------------------------------------------------------------
(* The latest attempt, seen as BoundedFanOut.                                *)

LEMMA LatestIs ==
    ASSUME FanOutInv
    PROVE  Latest \in Tries /\ (try # 0 => Latest = try)
           /\ fanOuts \in [Tries -> AFanOut] /\ children \in [Tries -> [Children -> AChild]]
<1>1. try \in 0 .. MaxRetries + 1 /\ MaxRetries \in Nat
    BY Bounds DEF FanOutInv, Body, TopTypes
<1>2. Latest \in Tries /\ (try # 0 => Latest = try)
    BY <1>1 DEF Latest, Tries
<1> QED BY <1>2 DEF FanOutInv, Body, Attempts

LEMMA TakesPart ==
    ASSUME FanOutInv, NEW k \in Chains, chains[k].at # "over"
    PROVE  Latest = try /\ try \in Tries /\ Agree(fanOuts[try], children[try])
<1>1. chains[k].try \in Tries /\ chains[k].try <= try
    BY ChainIn
<1>2. try # 0 /\ try <= try
  <2>1. try \in Nat /\ chains[k].try \in Nat /\ chains[k].try # 0
    BY <1>1, TryNumbers, Bounds DEF FanOutInv, Body, Tries
  <2> QED BY <1>1, <2>1
<1>3. Latest = try /\ try \in Tries
    BY <1>2, LatestIs
<1> QED BY <1>2, <1>3 DEF FanOutInv, Body, Attempts

LEMMA PromiseStands ==
    ASSUME FanOutInv, Latest' = Latest, limit' = limit,
           \A c \in Children : children'[Latest][c].status = "NONE" <=> children[Latest][c].status = "NONE",
           fanOuts'[Latest].failure = fanOuts[Latest].failure,
           fanOuts'[Latest].answers = fanOuts[Latest].answers,
           fanOuts[Latest].failure = None =>
             \A c \in Children : children'[Latest][c].status = children[Latest][c].status
    PROVE  UNCHANGED Promise!vars
<1>1. Status(Latest, "NONE")' = Status(Latest, "NONE")
    BY DEF Status
<1>2. Going' = Going /\ Answered' = Answered
    BY DEF Going, Answered
<1>3. Going => Status(Latest, "RUNNING")' = Status(Latest, "RUNNING")
               /\ Status(Latest, "SUCCEEDED")' = Status(Latest, "SUCCEEDED")
    BY DEF Going, Status
<1>4. BegunSoFar' = BegunSoFar
    BY <1>1 DEF BegunSoFar
<1>5. Underway' = Underway /\ Through' = Through
    BY <1>2, <1>3 DEF Underway, Through
<1> QED BY <1>2, <1>4, <1>5 DEF Promise!vars

LEMMA BegunIs ==
    ASSUME NEW f, NEW kids, Agree(f, kids), f.failure = None
    PROVE  Cardinality(Children \ Those(kids, "NONE")) = Count - Len(f.waiting)
<1>1. Counted(f, kids) /\ f.waiting \in Seq(Children)
    BY DEF Agree, AFanOut
<1>2. PICK n \in 0 .. Count : n = Len(f.waiting)
    BY <1>1, Bounds DEF Counted
<1>3. Children \ Those(kids, "NONE") = {c \in Children : ~(c > Count - n)}
    BY <1>1, <1>2 DEF Counted, Those
<1>4. {c \in Children : ~(c > Count - n)} = 1 .. Count - n
    BY <1>2, Bounds DEF Children
<1>5. Cardinality(1 .. Count - n) = Count - n
    BY <1>2, Bounds, FS_Interval
<1> QED BY <1>2, <1>3, <1>4, <1>5

LEMMA StartsPromise ==
    ASSUME FanOutInv, NEW k \in Chains, Starts(k), chains[k].try = try
    PROVE  Promise!Begin
<1> DEFINE f == fanOuts[try]
           kids == children[try]
           c == Head(f.waiting)
<1>1. /\ chains[k].at = "starting" /\ f.waiting # <<>> /\ HasRoom(f) /\ UNCHANGED <<limit, try>>
      /\ Puts(try, c, [kids[c] EXCEPT !.status = "RUNNING", !.at = "running", !.left = @ - 1])
    BY DEF Starts
<1>2. Latest = try /\ try \in Tries /\ Agree(f, kids) /\ kids \in [Children -> AChild]
      /\ children \in [Tries -> [Children -> AChild]]
    BY <1>1, TakesPart, LatestIs DEF Agree
<1>3. /\ f.failure = None /\ c = Count - Len(f.waiting) + 1 /\ c \in Children /\ kids[c].status = "NONE"
      /\ Len(f.waiting) \in 1 .. Count
    BY <1>1, <1>2, NextChild
<1>4. Counted(f, kids)
    BY <1>2, <1>3 DEF Agree
<1>5. Latest' = try
    BY <1>1, <1>2 DEF Latest
<1>6. children'[try][c].status = "RUNNING" /\ \A d \in Children : d # c => children'[try][d] = kids[d]
    BY <1>1, <1>2, <1>3 DEF Puts, AChild
<1>7. fanOuts'[try].answers = f.answers /\ fanOuts'[try].failure = None
    BY <1>1, <1>3, StartsBody
<1>8. Going /\ Going'
    BY <1>2, <1>3, <1>5, <1>7 DEF Going
<1>9. ~Answered /\ ~Answered'
  <2>1. ~HasOutcome(f)
    BY <1>1, <1>2, AllThrough
  <2>2. ~(f.answers > 0)
    BY <1>2, <2>1 DEF FanOutInv, Tops, Outcomes
  <2> QED BY <1>2, <1>5, <1>7, <2>2 DEF Answered
<1>10. /\ Status(Latest, "NONE") = Those(kids, "NONE") /\ Status(Latest, "NONE")' = Those(kids, "NONE") \ {c}
       /\ Underway = Those(kids, "RUNNING") /\ Underway' = Those(kids, "RUNNING") \cup {c}
       /\ Through' = Through
    BY <1>2, <1>3, <1>5, <1>6, <1>8 DEF Status, Those, Underway, Through
<1>11. BegunSoFar = Count - Len(f.waiting)
    BY <1>2, <1>3, <1>10, BegunIs DEF BegunSoFar
<1>12. BegunSoFar' = BegunSoFar + 1
  <2> DEFINE sofar == Children \ Those(kids, "NONE")
  <2>1. IsFiniteSet(sofar) /\ c \notin sofar
    <3>1. IsFiniteSet(Children)
      BY Bounds, FS_Interval DEF Children
    <3> QED BY <1>3, <3>1, FS_Subset DEF Those
  <2>2. (Children \ Status(Latest, "NONE"))' = sofar \cup {c}
    BY <1>3, <1>10 DEF Children
  <2>3. Cardinality(sofar \cup {c}) = Cardinality(sofar) + 1
    BY <2>1, FS_AddElement
  <2> QED BY <1>10, <2>2, <2>3 DEF BegunSoFar
<1>13. c = BegunSoFar + 1
    BY <1>3, <1>11
<1>14. BegunSoFar < Count
  <2>1. Len(f.waiting) \in Nat /\ Len(f.waiting) > 0
    BY <1>3, Bounds
  <2> QED BY <1>11, <2>1, Bounds
<1>15. Cardinality(Underway) < limit
    BY <1>1, <1>4, <1>10 DEF Counted, HasRoom
<1>16. Underway' = Underway \cup {BegunSoFar + 1}
    BY <1>10, <1>13
<1>17. (~Going)' = ~Going /\ Answered' = Answered
    BY <1>8, <1>9 DEF Answered
<1>18. Through' = Through /\ limit' = limit
    BY <1>1, <1>10
<1>19. Promise!Cardinality(Underway) = Cardinality(Underway)
    BY Zenon DEF Promise!Cardinality, Cardinality
<1>20. Promise!Cardinality(Underway) < limit
    BY <1>15, <1>19
<1> QED BY <1>8, <1>9, <1>12, <1>14, <1>16, <1>17, <1>18, <1>20, Zenon DEF Promise!Begin

LEMMA EndsPromise ==
    ASSUME FanOutInv, NEW k \in Chains, WalksNoFurther(k) \/ Ends(k)
    PROVE  Promise!End \/ Promise!Fail \/ UNCHANGED Promise!vars
<1> DEFINE t == chains[k].try
           c == chains[k].child
<1>1. Drives(k) /\ UNCHANGED <<limit, try>> /\ chains[k].at = "driving"
    BY DEF WalksNoFurther, Ends, Drives
<1>2. Latest = try /\ try \in Tries /\ Latest' = try /\ Agree(fanOuts[try], children[try])
    BY <1>1, TakesPart DEF Latest
<1>3. SameBegun /\ (Late(k) \/ (InTime(k) /\ CameToEnd(k, t, c)))
    BY EndsBody
<1>4. CASE t # try \/ Late(k)
  <2>1. /\ fanOuts'[try] = fanOuts[try]
        /\ fanOuts[try].failure = None => children'[try] = children[try]
    BY <1>2, <1>3, <1>4 DEF Late, InTime
  <2>2. UNCHANGED Promise!vars
    BY <1>1, <1>2, <1>3, <2>1, PromiseStands DEF SameBegun
  <2> QED BY <2>2
<1>5. CASE t = try /\ InTime(k) /\ CameToEnd(k, t, c)
  <2>1. /\ fanOuts[try].failure = None /\ fanOuts[try].answers = 0 /\ fanOuts'[try].answers = 0
    BY <1>5 DEF InTime
  <2>2. c \in Children /\ children[try][c].status = "RUNNING"
    BY <1>1, <1>2, <1>5, <2>1, InHand DEF Agree, Counted
  <2>3. Going /\ c \in Underway /\ Answered' = Answered
    BY <1>2, <2>1, <2>2 DEF Going, Underway, Status, Answered
  <2>4. BegunSoFar' = BegunSoFar
    <3>1. Status(Latest, "NONE")' = Status(Latest, "NONE")
      BY <1>2, <1>3 DEF Status, SameBegun
    <3> QED BY <3>1 DEF BegunSoFar
  <2>5. CASE fanOuts'[try].failure # None
    <3>1. ~Going' /\ Underway' = {} /\ Through' = {}
      BY <1>2, <2>5 DEF Going, Underway, Through
    <3>2. (~Going)' = TRUE /\ Underway # {}
      BY <2>3, <3>1
    <3>3. Promise!Fail
      BY <1>1, <2>3, <2>4, <3>1, <3>2 DEF Promise!Fail
    <3> QED BY <3>3
  <2>6. CASE fanOuts'[try].failure = None
    <3>1. children'[try][c].status = "SUCCEEDED" /\ \A d \in Children : d # c => children'[try][d] = children[try][d]
      BY <1>5, <2>6 DEF CameToEnd
    <3>2. Going' /\ (~Going)' = ~Going
      BY <1>2, <2>3, <2>6 DEF Going
    <3>3. Underway' = Underway \ {c} /\ Through' = Through \cup {c}
      BY <1>2, <2>2, <2>3, <3>1, <3>2 DEF Underway, Through, Status
    <3>4. Promise!End
      BY <1>1, <2>3, <2>4, <3>2, <3>3 DEF Promise!End
    <3> QED BY <3>4
  <2> QED BY <2>5, <2>6
<1> QED BY <1>3, <1>4, <1>5

LEMMA AnsweringPromise == ASSUME FanOutInv, NEW k \in Chains, Answering(k) PROVE Promise!Answer
<1>1. /\ UNCHANGED <<limit, try, children>> /\ HasOutcome(fanOuts[try]) /\ fanOuts[try].answers = 0
      /\ fanOuts' = [fanOuts EXCEPT ![try] = [fanOuts[try] EXCEPT !.suspended = FALSE, !.answers = 1]]
      /\ chains[k].at = "starting"
    BY DEF Answering
<1>2. Latest = try /\ try \in Tries /\ Latest' = try /\ Agree(fanOuts[try], children[try])
      /\ fanOuts[try] \in AFanOut /\ fanOuts \in [Tries -> AFanOut]
    BY <1>1, TakesPart, LatestIs DEF Latest
<1>3. fanOuts'[try].failure = fanOuts[try].failure /\ fanOuts'[try].answers = 1
    BY <1>1, <1>2 DEF AFanOut
<1>4. Going' = Going /\ (~Going)' = ~Going
    BY <1>2, <1>3 DEF Going
<1>5. BegunSoFar' = BegunSoFar /\ Underway' = Underway /\ Through' = Through
  <2>1. \A how : Status(Latest, how)' = Status(Latest, how)
    BY <1>1, <1>2 DEF Status
  <2> QED BY <1>4, <2>1 DEF BegunSoFar, Underway, Through
<1>6. ~Going \/ Through = 1 .. Count
  <2>1. Going => \A c \in Children : children[try][c].status = "SUCCEEDED"
    BY <1>1, <1>2, AllThrough DEF Going
  <2>2. Going => Through = Children
    BY <1>2, <2>1 DEF Through, Status
  <2> QED BY <2>2 DEF Children
<1>7. ~(0 > 0) /\ 1 > 0
    OBVIOUS
<1>8. ~Answered /\ Answered' = TRUE
    BY <1>1, <1>2, <1>3, <1>7 DEF Answered
<1> QED BY <1>1, <1>4, <1>5, <1>6, <1>8 DEF Promise!Answer

LEMMA RunsPromise ==
    ASSUME FanOutInv, NEW k \in Chains, RunsFanOut(k), status' = "RUNNING", top \in {"out", "paused"}
    PROVE  Promise!Again \/ UNCHANGED Promise!vars
<1> DEFINE new == try + 1
<1>1. try' = new /\ UNCHANGED <<limit, children>> /\ fanOuts' = [fanOuts EXCEPT ![new] = Begun]
    BY DEF RunsFanOut, Begun
<1>2. new \in Tries /\ new # 0 /\ new > try /\ try \in Nat
  <2>1. try \in 0 .. MaxRetries + 1 /\ try < MaxRetries + 1 /\ MaxRetries \in Nat
    BY Bounds DEF FanOutInv, Body, TopTypes, RunsFanOut
  <2> QED BY <2>1 DEF Tries
<1>3. fanOuts[new] = NewFanOut /\ children[new] = Fresh
    BY <1>2 DEF FanOutInv, Body, Attempts
<1>4. Latest' = new
    BY <1>1, <1>2 DEF Latest
<1>5. fanOuts'[new] = Begun /\ children'[new] = Fresh
    BY <1>1, <1>2, <1>3, LatestIs
<1>6. Begun.failure = None /\ Begun.answers = 0 /\ NewFanOut.failure = None /\ NewFanOut.answers = 0
    BY DEF Begun, NewFanOut
<1>7. CASE top = "out"
  <2>1. try = 0 /\ Latest = 1
    BY <1>7 DEF FanOutInv, Tops, Stages, Latest
  <2>2. new = 1
    BY <2>1
  <2>3. Latest' = Latest
    BY <1>4, <2>1, <2>2
  <2>4. fanOuts[Latest] = NewFanOut /\ fanOuts'[Latest] = Begun /\ children' = children
    BY <1>1, <1>3, <1>5, <2>1, <2>2
  <2>5. UNCHANGED Promise!vars
    BY <1>1, <1>6, <2>3, <2>4, PromiseStands
  <2> QED BY <2>5
<1>8. CASE top = "paused"
  <2>1. try # 0 /\ try \in Tries
    BY <1>8, LatestIs DEF FanOutInv, Tops, Stages
  <2>2. Latest = try /\ fanOuts[try].answers = 1
    BY <1>8, <2>1, LatestIs DEF FanOutInv, Tops, AnswersOnce
  <2>3. 1 > 0 /\ ~(0 > 0)
    OBVIOUS
  <2>4. Answered /\ Answered' = FALSE
    BY <1>4, <1>5, <1>6, <2>2, <2>3 DEF Answered
  <2>5. Going' /\ (~Going)' = FALSE
    BY <1>4, <1>5, <1>6 DEF Going
  <2>6. \A c \in Children : children'[new][c].status = "NONE"
    BY <1>5 DEF Fresh, NewChild
  <2>7. Status(Latest, "NONE")' = Children /\ Status(Latest, "RUNNING")' = {} /\ Status(Latest, "SUCCEEDED")' = {}
    BY <1>4, <2>6 DEF Status
  <2>8. Underway' = {} /\ Through' = {} /\ BegunSoFar' = 0
    <3>1. Cardinality(Children \ Children) = 0
      <4>1. Children \ Children = {}
        OBVIOUS
      <4> QED BY <4>1, FS_EmptySet
    <3>2. Children' = Children
      BY DEF Children
    <3> QED BY <2>7, <3>1, <3>2 DEF Underway, Through, BegunSoFar
  <2>9. Promise!Again
    BY <1>1, <2>4, <2>5, <2>8 DEF Promise!Again
  <2> QED BY <2>9
<1> QED BY <1>7, <1>8

LEMMA StepKeepsPromise == ASSUME FanOutInv, [Next]_vars PROVE [Promise!Next]_Promise!vars
<1>1. ASSUME NEW k \in Chains, StartExecution(k) \/ Retries(k) PROVE [Promise!Next]_Promise!vars
  <2>1. RunsFanOut(k) /\ status' = "RUNNING" /\ top \in {"out", "paused"}
    BY <1>1 DEF StartExecution, Retries, FanOutInv, Tops, Stages
  <2> QED BY <2>1, RunsPromise DEF Promise!Next
<1>2. ASSUME NEW k \in Chains, Starts(k) PROVE [Promise!Next]_Promise!vars
  <2>1. CASE chains[k].try = try
    BY <1>2, <2>1, StartsPromise DEF Promise!Next
  <2>2. CASE chains[k].try # try
    <3>1. chains[k].at = "starting" /\ UNCHANGED <<limit, try>>
      BY <1>2 DEF Starts
    <3>2. Latest = try /\ try \in Tries /\ Latest' = Latest
      BY <3>1, TakesPart DEF Latest
    <3>3. fanOuts'[try] = fanOuts[try] /\ children'[try] = children[try]
      BY <1>2, <2>2, <3>2, StartsBody
    <3> QED BY <3>1, <3>2, <3>3, PromiseStands, SMTT(30)
  <2> QED BY <2>1, <2>2
<1>3. ASSUME NEW k \in Chains, WalksNoFurther(k) \/ Ends(k) PROVE [Promise!Next]_Promise!vars
    BY <1>3, EndsPromise DEF Promise!Next
<1>4. ASSUME NEW k \in Chains, AnswersAtOnce(k) \/ Resumes(k) PROVE [Promise!Next]_Promise!vars
    BY <1>4, BothAnswer, AnsweringPromise DEF Promise!Next
<1>5. ASSUME NEW k \in Chains, Suspends(k) PROVE [Promise!Next]_Promise!vars
  <2>1. /\ chains[k].try = try /\ chains[k].at = "starting" /\ UNCHANGED <<limit, try, children>>
        /\ fanOuts' = [fanOuts EXCEPT ![try] = [fanOuts[try] EXCEPT !.suspended = TRUE]]
    BY <1>5, OwnWalk DEF Suspends, HasStarted
  <2>2. Latest = try /\ try \in Tries /\ Latest' = Latest /\ fanOuts \in [Tries -> AFanOut]
    BY <2>1, TakesPart, LatestIs DEF Latest
  <2>3. fanOuts'[try].failure = fanOuts[try].failure /\ fanOuts'[try].answers = fanOuts[try].answers
    BY <2>1, <2>2 DEF AFanOut
  <2> QED BY <2>1, <2>2, <2>3, PromiseStands
<1>6. ASSUME UNCHANGED <<limit, try, fanOuts>>,
             \A u \in Tries, d \in Children : children'[u][d].status = children[u][d].status
      PROVE  [Promise!Next]_Promise!vars
  <2>1. Latest' = Latest /\ Latest \in Tries
    BY <1>6, LatestIs DEF Latest
  <2> QED BY <1>6, <2>1, PromiseStands
<1>7. ASSUME NEW k \in Chains, GoesOn(k) \/ Pauses(k) PROVE [Promise!Next]_Promise!vars
    BY <1>6, <1>7, WalksBody DEF GoesOn, Pauses
<1>8. ASSUME NEW k \in Chains, NothingToResume(k) \/ MovesOn(k) \/ AnswerReturns(k)
      PROVE  [Promise!Next]_Promise!vars
    BY <1>6, <1>8 DEF NothingToResume, HasStarted, MovesOn, AnswerReturns
<1>9. ASSUME NEW k \in Chains, Releases(k) PROVE [Promise!Next]_Promise!vars
    BY <1>6, <1>9, ReleasesBody DEF Releases
<1>10. CASE UNCHANGED vars
    BY <1>6, <1>10 DEF vars
<1> QED BY <1>1, <1>2, <1>3, <1>4, <1>5, <1>7, <1>8, <1>9, <1>10 DEF Next, Calls, ClockReleases

LEMMA InitialPromise == Init => Promise!Init
<1> SUFFICES ASSUME Init PROVE Promise!Init
    OBVIOUS
<1>1. Latest = 1 /\ 1 \in Tries
    BY Bounds DEF Init, Latest, Tries
<1>2. fanOuts[1] = NewFanOut /\ \A c \in Children : children[1][c].status = "NONE"
    BY <1>1 DEF Init, NewChild
<1>3. ~(0 > 0)
    OBVIOUS
<1>4. Going /\ (~Going) = FALSE /\ Answered = FALSE
    BY <1>1, <1>2, <1>3 DEF Going, Answered, NewFanOut
<1>5. Status(Latest, "NONE") = Children /\ Status(Latest, "RUNNING") = {} /\ Status(Latest, "SUCCEEDED") = {}
    BY <1>1, <1>2 DEF Status
<1>6. Cardinality(Children \ Children) = 0
  <2>1. Children \ Children = {}
    OBVIOUS
  <2> QED BY <2>1, FS_EmptySet
<1>7. BegunSoFar = 0 /\ Underway = {} /\ Through = {}
    BY <1>5, <1>6 DEF BegunSoFar, Underway, Through
<1>8. limit \in Nat
    BY Bounds DEF Init
<1> QED BY <1>4, <1>7, <1>8 DEF Promise!Init, Promise!Fresh

(* The latest attempt keeps what BoundedFanOut promises, for every number of *)
(* children, every bound and however many chains of calls overlap: children  *)
(* begin in order and within the bound, the first failure ends them all, and *)
(* the state answers once (fan-out.ts, child-runs.ts).                       *)
THEOREM KeepsThePromiseHolds == Spec => KeepsThePromise
<1>1. Init => Promise!Init
    BY InitialPromise
<1>2. FanOutInv /\ [Next]_vars => [Promise!Next]_Promise!vars
    BY StepKeepsPromise
<1> QED BY <1>1, <1>2, FanOutInvHolds, PTL DEF Spec, KeepsThePromise, Promise!Spec

=============================================================================
