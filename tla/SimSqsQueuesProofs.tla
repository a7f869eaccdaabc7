-------------------------- MODULE SimSqsQueuesProofs --------------------------
(* Theorems about the queues of one scope, for every set of names, of        *)
(* attributes and of policies, and for every bound.                          *)
EXTENDS SimSqsQueues, FiniteSetTheorems, WellFoundedInduction, TLAPS

-----------------------------------------------------------------------------
(* Numbers, and sets of them in order.                                       *)

LEMMA Least ==
    ASSUME NEW T \in SUBSET Nat, T # {}
    PROVE  \E x \in T : \A y \in T : x <= y
<1> DEFINE R == OpToRel(<, Nat)
<1>1. \A x, y \in Nat : x < y => <<x, y>> \in R
    BY DEF OpToRel
<1>2. IsWellFoundedOn(R, Nat)
    BY NatLessThanWellFounded
<1> HIDE DEF R
<1>3. PICK x \in T : \A y \in T : ~(<<y, x>> \in R)
    BY <1>2, WFMin
<1>4. \A y \in T : ~(y < x)
    BY <1>1, <1>3
<1>5. \A y \in T : x <= y
    BY <1>4
<1> QED BY <1>3, <1>5

(* Induction up to a number, over a set in place of a predicate.             *)
LEMMA Induct ==
    ASSUME NEW n \in Nat, NEW S, 0 \in S, \A k \in 0 .. n - 1 : k \in S => k + 1 \in S
    PROVE  0 .. n \subseteq S
<1> DEFINE T == {k \in 0 .. n : k \notin S}
<1> SUFFICES ASSUME T # {} PROVE FALSE
    OBVIOUS
<1>1. T \subseteq Nat
    OBVIOUS
<1> HIDE DEF T
<1>2. PICK k \in T : \A j \in T : k <= j
    BY <1>1, Least
<1>3. k \in 0 .. n /\ k \notin S
    BY <1>2 DEF T
<1>4. k - 1 \in 0 .. n - 1 /\ k - 1 + 1 = k
    BY <1>3
<1>5. k - 1 \in S
    BY <1>2, <1>4 DEF T
<1> QED BY <1>3, <1>4, <1>5

(* InOrder runs through a finite set of numbers: every one of them, once.    *)
LEMMA InOrderRunsThrough ==
    ASSUME NEW n \in Nat, NEW numbers \in SUBSET (1 .. n)
    PROVE  /\ Cardinality(numbers) \in Nat
           /\ InOrder(numbers) \in [1 .. Cardinality(numbers) -> numbers]
           /\ \A i, j \in 1 .. Cardinality(numbers) : InOrder(numbers)[i] = InOrder(numbers)[j] => i = j
           /\ \A k \in numbers : \E i \in 1 .. Cardinality(numbers) : InOrder(numbers)[i] = k
<1> DEFINE count == Cardinality(numbers)
           rank == [k \in numbers |-> Cardinality(Earlier(k, numbers))]
<1>1. IsFiniteSet(numbers) /\ count \in Nat
  <2>1. IsFiniteSet(1 .. n)
    BY FS_Interval
  <2>2. IsFiniteSet(numbers)
    BY <2>1, FS_Subset
  <2> QED BY <2>2, FS_CardinalityType
<1>2. ASSUME NEW k \in numbers
      PROVE  IsFiniteSet(Earlier(k, numbers)) /\ rank[k] \in 0 .. count - 1
  <2>1. Earlier(k, numbers) \subseteq numbers /\ k \notin Earlier(k, numbers)
    BY DEF Earlier
  <2>2. IsFiniteSet(Earlier(k, numbers)) /\ Cardinality(Earlier(k, numbers)) < count
    <3>1. /\ IsFiniteSet(Earlier(k, numbers))
          /\ Cardinality(Earlier(k, numbers)) <= Cardinality(numbers)
          /\ Cardinality(numbers) # Cardinality(Earlier(k, numbers))
      BY <1>1, <2>1, FS_Subset
    <3>2. Cardinality(Earlier(k, numbers)) \in Nat
      BY <3>1, FS_CardinalityType
    <3> QED BY <1>1, <3>1, <3>2
  <2>3. Cardinality(Earlier(k, numbers)) \in Nat
    BY <2>2, FS_CardinalityType
  <2> QED BY <1>1, <2>2, <2>3
<1>3. ASSUME NEW k \in numbers, NEW l \in numbers, k < l PROVE rank[k] < rank[l]
  <2>1. Earlier(k, numbers) \subseteq Earlier(l, numbers)
    <3>1. \A i \in numbers : i < k => i < l
      BY <1>3
    <3> QED BY <3>1 DEF Earlier
  <2>2. k \in Earlier(l, numbers) /\ k \notin Earlier(k, numbers)
    BY <1>3 DEF Earlier
  <2>3. /\ IsFiniteSet(Earlier(l, numbers))
        /\ Cardinality(Earlier(k, numbers)) \in Int /\ Cardinality(Earlier(l, numbers)) \in Int
    BY <1>2
  <2>4. /\ Cardinality(Earlier(k, numbers)) <= Cardinality(Earlier(l, numbers))
        /\ Cardinality(Earlier(k, numbers)) # Cardinality(Earlier(l, numbers))
    BY <2>1, <2>2, <2>3, FS_Subset
  <2> QED BY <2>3, <2>4
<1>4. \A k, l \in numbers : rank[k] = rank[l] => k = l
  <2>1. \A k \in numbers : rank[k] \in Int /\ k \in Int
    BY <1>2, <1>1
  <2> HIDE DEF rank
  <2> QED BY <1>3, <2>1
<1>5. \A i \in 0 .. count - 1 : \E k \in numbers : rank[k] = i
  <2> DEFINE ranks == {rank[k] : k \in numbers}
  <2>1. ranks \subseteq 0 .. count - 1
    BY <1>2
  <2>2. IsFiniteSet(0 .. count - 1) /\ Cardinality(0 .. count - 1) = count
    BY <1>1, FS_Interval, SMTT(60)
  <2>3. rank \in Bijection(numbers, ranks)
    BY <1>4 DEF Bijection, Injection, Surjection, IsInjective
  <2>4. Cardinality(ranks) = count
    <3>1. ExistsBijection(numbers, ranks)
      BY <2>3 DEF ExistsBijection
    <3> QED BY <1>1, <3>1, FS_Bijection
  <2>5. ranks = 0 .. count - 1
    BY <2>1, <2>2, <2>4, FS_Subset
  <2> QED BY <2>5
<1> HIDE DEF rank
<1>6. \A i \in 1 .. count : InOrder(numbers)[i] \in numbers /\ rank[InOrder(numbers)[i]] = i - 1
  <2> SUFFICES ASSUME NEW i \in 1 .. count
               PROVE  InOrder(numbers)[i] \in numbers /\ rank[InOrder(numbers)[i]] = i - 1
      OBVIOUS
  <2>1. \E k \in numbers : rank[k] = i - 1
    BY <1>1, <1>5
  <2>2. InOrder(numbers)[i] = CHOOSE k \in numbers : rank[k] = i - 1
    BY DEF InOrder, rank
  <2> QED BY <2>1, <2>2
<1>7. InOrder(numbers) \in [1 .. count -> numbers]
    BY <1>6 DEF InOrder
<1>8. \A i, j \in 1 .. count : InOrder(numbers)[i] = InOrder(numbers)[j] => i = j
    BY <1>1, <1>6
<1>9. ASSUME NEW k \in numbers PROVE \E i \in 1 .. count : InOrder(numbers)[i] = k
  <2>1. \E i \in 1 .. count : i - 1 = rank[k]
    <3> DEFINE r == rank[k]
    <3>1. r \in 0 .. count - 1
      BY <1>2
    <3> HIDE DEF r
    <3>2. r + 1 \in 1 .. count /\ r + 1 - 1 = r
      BY <1>1, <3>1
    <3>3. \E i \in 1 .. count : i - 1 = r
      BY <1>1, <3>1, <3>2
    <3> QED BY <3>3 DEF r
  <2>3. PICK i \in 1 .. count : i - 1 = rank[k]
    BY <2>1
  <2>2. rank[InOrder(numbers)[i]] = rank[k] /\ InOrder(numbers)[i] \in numbers
    BY <1>6, <2>3
  <2> QED BY <1>4, <2>2
<1> QED BY <1>1, <1>7, <1>8, <1>9

-----------------------------------------------------------------------------
(* What a queue and its copies are.                                          *)

APolicy == [target : Names \cup {NoQueue}, limit : Nat \ {0}]

QueuesTyped == queues \in Seq(Names) /\ IsInjective(queues)

SettingsTyped == settings \in [Names -> [retention : Retentions, policy : APolicy]]

(* Each copy was sent, or goes back to the one that was.                     *)
Rooted(all) ==
    \A k \in DOMAIN all :
      /\ all[k].message \in DOMAIN all
      /\ all[all[k].message].message = all[k].message
      /\ all[all[k].message].sentAt = all[k].sentAt

OneHeld(all) ==
    \A k, l \in DOMAIN all : all[k].held /\ all[l].held /\ all[k].message = all[l].message => k = l

HeldByQueues(all) ==
    \A k \in DOMAIN all : all[k].held \/ all[k].queue # NoQueue => Exists(all[k].queue)

Sound(all) == all \in Seq(Copies) /\ HeldByQueues(all) /\ OneHeld(all) /\ Rooted(all)

LEMMA ASequence ==
    ASSUME NEW S, NEW n \in Nat, NEW s \in [1 .. n -> S] PROVE s \in Seq(S) /\ Len(s) = n /\ DOMAIN s = 1 .. n
OBVIOUS

LEMMA Copied ==
    ASSUME NEW all \in Seq(Copies), NEW k \in DOMAIN all
    PROVE  /\ all[k] \in Copies
           /\ all[k].message \in 1 .. MaxCopies /\ all[k].queue \in Names \cup {NoQueue}
           /\ all[k].held \in BOOLEAN /\ all[k].sentAt \in Nat /\ all[k].visibleFrom \in Nat
           /\ all[k].receives \in Nat
<1>1. all[k] \in Copies
    OBVIOUS
<1> QED BY <1>1 DEF Copies

LEMMA WithoutLeaves ==
    ASSUME NEW all \in Seq(Copies), NEW gone
    PROVE  /\ Without(gone, all) \in Seq(Copies)
           /\ Len(Without(gone, all)) = Len(all) /\ DOMAIN Without(gone, all) = DOMAIN all
           /\ \A k \in DOMAIN all :
                /\ Without(gone, all)[k] = [all[k] EXCEPT !.held = all[k].held /\ k \notin gone]
                /\ Without(gone, all)[k].held <=> all[k].held /\ k \notin gone
<1>1. Len(all) \in Nat /\ DOMAIN all = 1 .. Len(all)
    OBVIOUS
<1>2. \A k \in DOMAIN all : Without(gone, all)[k] = [all[k] EXCEPT !.held = all[k].held /\ k \notin gone]
    BY DEF Without
<1>3. ASSUME NEW k \in DOMAIN all
      PROVE  Without(gone, all)[k] \in Copies /\ (Without(gone, all)[k].held <=> all[k].held /\ k \notin gone)
  <2>1. all[k] \in Copies
    BY Copied
  <2>2. Without(gone, all)[k] = [all[k] EXCEPT !.held = all[k].held /\ k \notin gone]
    BY <1>2
  <2> QED BY <2>1, <2>2 DEF Copies
<1>4. Without(gone, all) \in [1 .. Len(all) -> Copies]
    BY <1>1, <1>3 DEF Without
<1> QED BY <1>1, <1>2, <1>3, <1>4, ASequence

LEMMA WithoutNothing == ASSUME NEW all \in Seq(Copies) PROVE Without({}, all) = all
<1>1. ASSUME NEW k \in DOMAIN all PROVE [all[k] EXCEPT !.held = all[k].held /\ k \notin {}] = all[k]
  <2>1. all[k] \in Copies
    BY Copied
  <2>2. (all[k].held /\ k \notin {}) = all[k].held
    BY Copied
  <2> QED BY <2>1, <2>2 DEF Copies
<1>2. Without({}, all) = [k \in DOMAIN all |-> all[k]]
    BY <1>1 DEF Without
<1> QED BY <1>2

(* The copy made for a dead-letter queue.                                    *)
LEMMA OnDeadLetterQueueIs ==
    ASSUME NEW copy \in Copies, NEW target \in Names, now \in Nat,
           NEW it, it = OnDeadLetterQueue(copy, target)
    PROVE  /\ it \in Copies
           /\ it.message = copy.message /\ it.queue = target /\ it.held = copy.held
           /\ it.sentAt = copy.sentAt /\ it.visibleFrom = now /\ it.receives = 0
BY DEF OnDeadLetterQueue, Copies

LEMMA Concatenated ==
    ASSUME NEW S, NEW s \in Seq(S), NEW t \in Seq(S)
    PROVE  /\ s \o t \in Seq(S) /\ Len(s \o t) = Len(s) + Len(t)
           /\ DOMAIN (s \o t) = 1 .. Len(s) + Len(t)
           /\ \A k \in 1 .. Len(s) : (s \o t)[k] = s[k]
           /\ \A k \in 1 .. Len(s) + Len(t) : k > Len(s) => (s \o t)[k] = t[k - Len(s)]
OBVIOUS

(* What a queue gives up on goes to the end of the copies, each once.        *)
LEMMA MovedFollow ==
    ASSUME NEW all \in Seq(Copies), NEW gone \in SUBSET DOMAIN all, NEW target \in Names, now \in Nat
    PROVE  LET next == Without(gone, all) \o Moved(gone, target, all)
               of(k) == InOrder(gone)[k - Len(all)]
           IN  /\ next \in Seq(Copies) /\ Len(all) <= Len(next) /\ DOMAIN all \subseteq DOMAIN next
               /\ \A k \in DOMAIN all : next[k] = Without(gone, all)[k]
               /\ \A k \in DOMAIN next \ DOMAIN all :
                    of(k) \in gone /\ next[k] = OnDeadLetterQueue(all[of(k)], target)
               /\ \A k, l \in DOMAIN next \ DOMAIN all : of(k) = of(l) => k = l
               /\ \A j \in gone : \E k \in DOMAIN next \ DOMAIN all : of(k) = j
<1> DEFINE n == Cardinality(gone)
           moved == Moved(gone, target, all)
           next == Without(gone, all) \o moved
           of(k) == InOrder(gone)[k - Len(all)]
<1>1. Len(all) \in Nat /\ DOMAIN all = 1 .. Len(all)
    OBVIOUS
<1>2. /\ n \in Nat
      /\ InOrder(gone) \in [1 .. n -> gone]
      /\ \A i, j \in 1 .. n : InOrder(gone)[i] = InOrder(gone)[j] => i = j
      /\ \A k \in gone : \E i \in 1 .. n : InOrder(gone)[i] = k
    BY <1>1, InOrderRunsThrough
<1>3. \A i \in 1 .. n : InOrder(gone)[i] \in gone /\ all[InOrder(gone)[i]] \in Copies
    BY <1>2, Copied
<1>4. \A i \in 1 .. n : moved[i] = OnDeadLetterQueue(all[InOrder(gone)[i]], target)
    BY DEF Moved
<1>5. \A i \in 1 .. n : moved[i] \in Copies
    BY <1>3, <1>4, OnDeadLetterQueueIs
<1>6. moved \in [1 .. n -> Copies]
    BY <1>5 DEF Moved
<1>7. moved \in Seq(Copies) /\ Len(moved) = n
    BY <1>2, <1>6, ASequence
<1> HIDE DEF moved, n
<1>8. Without(gone, all) \in Seq(Copies) /\ Len(Without(gone, all)) = Len(all)
    BY WithoutLeaves
<1>9. /\ next \in Seq(Copies) /\ Len(next) = Len(all) + n /\ DOMAIN next = 1 .. Len(all) + n
      /\ \A k \in 1 .. Len(all) : next[k] = Without(gone, all)[k]
      /\ \A k \in 1 .. Len(all) + n : k > Len(all) => next[k] = moved[k - Len(all)]
  <2> DEFINE front == Without(gone, all)
  <2>1. front \in Seq(Copies) /\ moved \in Seq(Copies) /\ Len(front) = Len(all) /\ Len(moved) = n
    BY <1>7, <1>8
  <2> HIDE DEF front
  <2>2. /\ front \o moved \in Seq(Copies) /\ Len(front \o moved) = Len(front) + Len(moved)
        /\ DOMAIN (front \o moved) = 1 .. Len(front) + Len(moved)
        /\ \A k \in 1 .. Len(front) : (front \o moved)[k] = front[k]
        /\ \A k \in 1 .. Len(front) + Len(moved) : k > Len(front) => (front \o moved)[k] = moved[k - Len(front)]
    BY <2>1, Concatenated
  <2> QED BY <2>1, <2>2 DEF front
<1> HIDE DEF next
<1>10. \A k \in DOMAIN next \ DOMAIN all : k - Len(all) \in 1 .. n /\ k \in Int /\ k > Len(all)
    BY <1>1, <1>2, <1>9
<1>11. \A k \in DOMAIN next \ DOMAIN all : of(k) \in gone /\ next[k] = OnDeadLetterQueue(all[of(k)], target)
    BY <1>3, <1>4, <1>9, <1>10
<1>12. \A k, l \in DOMAIN next \ DOMAIN all : of(k) = of(l) => k = l
    BY <1>1, <1>2, <1>10
<1>13. ASSUME NEW j \in gone PROVE \E k \in DOMAIN next \ DOMAIN all : of(k) = j
  <2>1. PICK i \in 1 .. n : InOrder(gone)[i] = j
    BY <1>2
  <2>2. Len(all) + i \in DOMAIN next \ DOMAIN all /\ (Len(all) + i) - Len(all) = i
    BY <1>1, <1>2, <1>9
  <2> QED BY <2>1, <2>2
<1>14. Len(all) <= Len(next) /\ DOMAIN all \subseteq DOMAIN next
    BY <1>1, <1>2, <1>9
<1> QED BY <1>1, <1>9, <1>11, <1>12, <1>13, <1>14 DEF next, moved

-----------------------------------------------------------------------------
(* What bringing queues up to date does to the copies.                       *)

Renews(all, next) ==
    /\ DOMAIN all \subseteq DOMAIN next
    /\ \A k \in DOMAIN all :
         /\ next[k] = [all[k] EXCEPT !.held = next[k].held]
         /\ next[k].held => all[k].held
    /\ \A k \in DOMAIN next \ DOMAIN all :
         /\ next[k].receives = 0 /\ next[k].visibleFrom = now
         /\ \E l \in DOMAIN all :
              /\ all[l].held /\ ~next[l].held
              /\ all[l].message = next[k].message /\ all[l].sentAt = next[k].sentAt
    /\ \A k \in DOMAIN all : all[k].held =>
         \/ \E l \in DOMAIN next : next[l].held /\ next[l].message = all[k].message
         \/ all[k].sentAt + Min(Retentions) <= now

LEMMA LeastRetention ==
    /\ Min(Retentions) \in Retentions /\ Min(Retentions) \in Nat \ {0}
    /\ \A r \in Retentions : r \in Nat \ {0} /\ Min(Retentions) <= r
<1>1. Retentions \subseteq Nat /\ Retentions # {} /\ Retentions \subseteq Nat \ {0}
    BY QueuesAssumption DEF QueuesAssumption
<1>2. \E x \in Retentions : \A y \in Retentions : x <= y
    BY <1>1, Least
<1> QED BY <1>1, <1>2 DEF Min

(* What stays of a copy that is only let go of, or not even that.            *)
LEMMA SameCopy ==
    ASSUME NEW copy \in Copies, NEW held, NEW it, it = [copy EXCEPT !.held = held]
    PROVE  /\ it.message = copy.message /\ it.queue = copy.queue /\ it.sentAt = copy.sentAt
           /\ it.visibleFrom = copy.visibleFrom /\ it.receives = copy.receives /\ it.held = held
BY DEF Copies

LEMMA RenewsItself == ASSUME NEW all \in Seq(Copies) PROVE Renews(all, all)
<1>1. ASSUME NEW k \in DOMAIN all PROVE all[k] = [all[k] EXCEPT !.held = all[k].held]
  <2>1. all[k] \in Copies
    BY Copied
  <2> QED BY <2>1 DEF Copies
<1> QED BY <1>1 DEF Renews

LEMMA RenewalsCompose ==
    ASSUME NEW all, NEW next, NEW last, Sound(all), Sound(next), Renews(all, next), Renews(next, last)
    PROVE  Renews(all, last)
<1>1. \A k \in DOMAIN all : all[k] \in Copies
    BY Copied DEF Sound
<1>2. DOMAIN all \subseteq DOMAIN next /\ DOMAIN next \subseteq DOMAIN last
    BY DEF Renews
<1>3. ASSUME NEW k \in DOMAIN all
      PROVE  last[k] = [all[k] EXCEPT !.held = last[k].held] /\ (last[k].held => all[k].held)
  <2>1. next[k] = [all[k] EXCEPT !.held = next[k].held] /\ (next[k].held => all[k].held)
    BY DEF Renews
  <2>2. last[k] = [next[k] EXCEPT !.held = last[k].held] /\ (last[k].held => next[k].held)
    BY <1>2 DEF Renews
  <2>3. all[k] \in Copies
    BY <1>1
  <2> QED BY <2>1, <2>2, <2>3 DEF Copies
<1>4. ASSUME NEW k \in DOMAIN next \ DOMAIN all
      PROVE  /\ last[k].receives = 0 /\ last[k].visibleFrom = now
             /\ last[k].message = next[k].message /\ last[k].sentAt = next[k].sentAt
  <2>1. next[k] \in Copies
    BY Copied DEF Sound
  <2>2. last[k] = [next[k] EXCEPT !.held = last[k].held]
    BY DEF Renews
  <2>3. next[k].receives = 0 /\ next[k].visibleFrom = now
    BY DEF Renews
  <2> QED BY <2>1, <2>2, <2>3, SameCopy
<1>5. ASSUME NEW l \in DOMAIN next, next[l].held, ~last[l].held
      PROVE  \E j \in DOMAIN all : /\ all[j].held /\ ~last[j].held
                                   /\ all[j].message = next[l].message /\ all[j].sentAt = next[l].sentAt
  <2>1. CASE l \in DOMAIN all
    <3>1. next[l] = [all[l] EXCEPT !.held = next[l].held] /\ all[l].held /\ all[l] \in Copies
      BY <1>1, <1>5, <2>1 DEF Renews
    <3>2. next[l].message = all[l].message /\ next[l].sentAt = all[l].sentAt
      BY <3>1, SameCopy
    <3> QED BY <1>5, <2>1, <3>1, <3>2
  <2>2. CASE l \notin DOMAIN all
    <3>1. PICK j \in DOMAIN all : /\ all[j].held /\ ~next[j].held
                                  /\ all[j].message = next[l].message /\ all[j].sentAt = next[l].sentAt
      BY <2>2 DEF Renews
    <3>2. ~last[j].held
      BY <1>2, <3>1 DEF Renews
    <3> QED BY <3>1, <3>2
  <2> QED BY <2>1, <2>2
<1>6. ASSUME NEW k \in DOMAIN last \ DOMAIN all
      PROVE  /\ last[k].receives = 0 /\ last[k].visibleFrom = now
             /\ \E l \in DOMAIN all : /\ all[l].held /\ ~last[l].held
                                      /\ all[l].message = last[k].message /\ all[l].sentAt = last[k].sentAt
  <2>1. CASE k \in DOMAIN next
    <3>1. PICK l \in DOMAIN all : /\ all[l].held /\ ~next[l].held
                                  /\ all[l].message = next[k].message /\ all[l].sentAt = next[k].sentAt
      BY <2>1 DEF Renews
    <3>2. ~last[l].held
      BY <1>2, <3>1 DEF Renews
    <3> QED BY <1>4, <2>1, <3>1, <3>2
  <2>2. CASE k \notin DOMAIN next
    <3>1. last[k].receives = 0 /\ last[k].visibleFrom = now
      BY <2>2 DEF Renews
    <3>2. PICK l \in DOMAIN next : /\ next[l].held /\ ~last[l].held
                                   /\ next[l].message = last[k].message /\ next[l].sentAt = last[k].sentAt
      BY <2>2 DEF Renews
    <3>3. PICK j \in DOMAIN all : /\ all[j].held /\ ~last[j].held
                                  /\ all[j].message = next[l].message /\ all[j].sentAt = next[l].sentAt
      BY <1>5, <3>2
    <3> QED BY <3>1, <3>2, <3>3
  <2> QED BY <2>1, <2>2
<1>7. ASSUME NEW k \in DOMAIN all, all[k].held
      PROVE  \/ \E l \in DOMAIN last : last[l].held /\ last[l].message = all[k].message
             \/ all[k].sentAt + Min(Retentions) <= now
  <2>1. CASE all[k].sentAt + Min(Retentions) <= now
    BY <2>1
  <2>2. ASSUME NEW l \in DOMAIN next, next[l].held, next[l].message = all[k].message
        PROVE  \/ \E j \in DOMAIN last : last[j].held /\ last[j].message = all[k].message
               \/ all[k].sentAt + Min(Retentions) <= now
    <3> DEFINE m == all[k].message
    <3>1. m \in DOMAIN all /\ all[m].sentAt = all[k].sentAt /\ all[m] \in Copies
      BY <1>1 DEF Sound, Rooted
    <3>2. next[m].sentAt = next[l].sentAt
      BY <2>2 DEF Sound, Rooted
    <3>3. next[m].sentAt = all[m].sentAt
      <4>1. next[m] = [all[m] EXCEPT !.held = next[m].held]
        BY <3>1 DEF Renews
      <4> HIDE DEF m
      <4> QED BY <3>1, <4>1, SameCopy
    <3>4. \/ \E j \in DOMAIN last : last[j].held /\ last[j].message = next[l].message
          \/ next[l].sentAt + Min(Retentions) <= now
      BY <2>2 DEF Renews
    <3> QED BY <2>2, <3>1, <3>2, <3>3, <3>4
  <2> QED BY <1>7, <2>1, <2>2 DEF Renews
<1> QED BY <1>2, <1>3, <1>6, <1>7 DEF Renews

LEMMA WithoutIsSound ==
    ASSUME NEW all, Sound(all), NEW gone
    PROVE  /\ Sound(Without(gone, all)) /\ DOMAIN Without(gone, all) = DOMAIN all
           /\ \A k \in DOMAIN all :
                LET it == Without(gone, all)[k]
                IN  /\ it \in Copies /\ all[k] \in Copies /\ it = [all[k] EXCEPT !.held = it.held]
                    /\ it.held <=> all[k].held /\ k \notin gone
                    /\ it.message = all[k].message /\ it.queue = all[k].queue /\ it.sentAt = all[k].sentAt
                    /\ it.visibleFrom = all[k].visibleFrom /\ it.receives = all[k].receives
<1> DEFINE next == Without(gone, all)
<1>1. all \in Seq(Copies)
    BY DEF Sound
<1>2. /\ next \in Seq(Copies) /\ DOMAIN next = DOMAIN all
      /\ \A k \in DOMAIN all : /\ next[k] = [all[k] EXCEPT !.held = all[k].held /\ k \notin gone]
                               /\ next[k].held <=> all[k].held /\ k \notin gone
    BY <1>1, WithoutLeaves
<1> HIDE DEF next
<1>3. ASSUME NEW k \in DOMAIN all
      PROVE  /\ next[k] \in Copies /\ all[k] \in Copies /\ next[k] = [all[k] EXCEPT !.held = next[k].held]
             /\ next[k].message = all[k].message /\ next[k].queue = all[k].queue /\ next[k].sentAt = all[k].sentAt
             /\ next[k].visibleFrom = all[k].visibleFrom /\ next[k].receives = all[k].receives
  <2>1. next[k] \in Copies /\ all[k] \in Copies
    BY <1>1, <1>2, Copied
  <2>2. next[k] = [all[k] EXCEPT !.held = all[k].held /\ k \notin gone]
    BY <1>2
  <2> QED BY <2>1, <2>2 DEF Copies
<1>4. HeldByQueues(next)
    BY <1>2, <1>3 DEF Sound, HeldByQueues, Exists
<1>5. OneHeld(next)
    BY <1>2, <1>3 DEF Sound, OneHeld
<1>6. Rooted(next)
    BY <1>2, <1>3 DEF Sound, Rooted
<1> QED BY <1>2, <1>3, <1>4, <1>5, <1>6 DEF Sound, next

LEMMA RetentionOf ==
    ASSUME SettingsTyped, NEW q \in Names
    PROVE  settings[q].retention \in Nat /\ Min(Retentions) <= settings[q].retention
<1>1. settings[q].retention \in Retentions
    BY DEF SettingsTyped
<1> QED BY <1>1, LeastRetention

(* What has expired has been kept as long as any queue keeps a message.      *)
LEMMA DropExpiredRenews ==
    ASSUME NEW all, Sound(all), SettingsTyped, now \in Nat, NEW q \in Names
    PROVE  /\ Sound(DropExpired(q, all)) /\ Renews(all, DropExpired(q, all))
           /\ \A k \in HeldBy(q, DropExpired(q, all)) : ~HasExpired(DropExpired(q, all)[k])
<1> DEFINE gone == {k \in HeldBy(q, all) : HasExpired(all[k])}
           next == DropExpired(q, all)
<1>1. next = Without(gone, all)
    BY DEF DropExpired
<1> HIDE DEF gone, next
<1>2. /\ Sound(next) /\ DOMAIN next = DOMAIN all
      /\ \A k \in DOMAIN all :
           /\ next[k] = [all[k] EXCEPT !.held = next[k].held] /\ all[k] \in Copies
           /\ next[k].held <=> all[k].held /\ k \notin gone
           /\ next[k].message = all[k].message /\ next[k].queue = all[k].queue /\ next[k].sentAt = all[k].sentAt
    BY <1>1, WithoutIsSound
<1>3. ASSUME NEW k \in gone PROVE all[k].sentAt + Min(Retentions) <= now
  <2>1. k \in DOMAIN all /\ all[k].queue = q /\ all[k].sentAt + settings[q].retention <= now
    BY <1>3 DEF gone, HeldBy, HasExpired
  <2>2. all[k].sentAt \in Nat
    BY <1>2, <2>1 DEF Copies
  <2> QED BY <2>1, <2>2, RetentionOf, LeastRetention
<1>4. Renews(all, next)
    BY <1>2, <1>3 DEF Renews
<1>5. ASSUME NEW k \in HeldBy(q, next) PROVE ~HasExpired(next[k])
  <2>1. k \in DOMAIN all /\ next[k].queue = q /\ next[k].held
    BY <1>2, <1>5 DEF HeldBy
  <2>2. k \in HeldBy(q, all) /\ k \notin gone
    BY <1>2, <2>1 DEF HeldBy
  <2> QED BY <1>2, <2>1, <2>2 DEF gone, HasExpired
<1> QED BY <1>2, <1>4, <1>5 DEF next

Redriven(gone, target, all) == Without(gone, all) \o Moved(gone, target, all)

(* What is moved is held by the queue it is moved to, and by it alone.       *)
LEMMA RedriveRenews ==
    ASSUME NEW all, Sound(all), now \in Nat, NEW gone \in SUBSET {k \in DOMAIN all : all[k].held},
           NEW target \in Names, Exists(target)
    PROVE  LET next == Redriven(gone, target, all)
           IN  /\ Sound(next) /\ Renews(all, next)
               /\ \A k \in DOMAIN all : next[k].held => k \notin gone
               /\ \A k \in DOMAIN next \ DOMAIN all :
                    /\ next[k].queue = target
                    /\ \E l \in gone : next[k].sentAt = all[l].sentAt
<1> DEFINE next == Redriven(gone, target, all)
           of(k) == InOrder(gone)[k - Len(all)]
<1>1. all \in Seq(Copies)
    BY DEF Sound
<1>2. /\ next \in Seq(Copies) /\ DOMAIN all \subseteq DOMAIN next
      /\ \A k \in DOMAIN all : next[k] = Without(gone, all)[k]
      /\ \A k \in DOMAIN next \ DOMAIN all :
           of(k) \in gone /\ next[k] = OnDeadLetterQueue(all[of(k)], target)
      /\ \A k, l \in DOMAIN next \ DOMAIN all : of(k) = of(l) => k = l
      /\ \A j \in gone : \E k \in DOMAIN next \ DOMAIN all : of(k) = j
  <2>1. gone \in SUBSET DOMAIN all
    OBVIOUS
  <2> QED BY <1>1, <2>1, MovedFollow, SMTT(60) DEF Redriven
<1> HIDE DEF next, of
<1>3. \A k \in DOMAIN all :
        /\ all[k] \in Copies /\ next[k] = [all[k] EXCEPT !.held = next[k].held]
        /\ next[k].held <=> all[k].held /\ k \notin gone
        /\ next[k].message = all[k].message /\ next[k].queue = all[k].queue /\ next[k].sentAt = all[k].sentAt
    BY <1>2, WithoutIsSound
<1>4. ASSUME NEW k \in DOMAIN next \ DOMAIN all
      PROVE  /\ of(k) \in gone /\ of(k) \in DOMAIN all
             /\ all[of(k)].held /\ next[k].held /\ next[k].queue = target
             /\ next[k].message = all[of(k)].message /\ next[k].sentAt = all[of(k)].sentAt
             /\ next[k].visibleFrom = now /\ next[k].receives = 0
  <2>1. of(k) \in gone /\ of(k) \in DOMAIN all /\ next[k] = OnDeadLetterQueue(all[of(k)], target)
    BY <1>2
  <2> DEFINE j == of(k)
  <2>2. j \in gone /\ j \in DOMAIN all /\ next[k] = OnDeadLetterQueue(all[j], target)
    BY <2>1
  <2> HIDE DEF j
  <2>3. all[j] \in Copies /\ all[j].held
    BY <1>3, <2>2
  <2>4. /\ next[k].message = all[j].message /\ next[k].queue = target /\ next[k].held = all[j].held
        /\ next[k].sentAt = all[j].sentAt /\ next[k].visibleFrom = now /\ next[k].receives = 0
    BY <2>2, <2>3, ZenonT(60) DEF OnDeadLetterQueue, Copies
  <2> QED BY <2>2, <2>3, <2>4 DEF j
<1>5. HeldByQueues(next)
    BY <1>3, <1>4 DEF Sound, HeldByQueues, Exists
<1>6. OneHeld(next)
  <2> SUFFICES ASSUME NEW k \in DOMAIN next, NEW l \in DOMAIN next, next[k].held, next[l].held,
                      next[k].message = next[l].message
               PROVE  k = l
      BY DEF OneHeld
  <2> DEFINE from(i) == IF i \in DOMAIN all THEN i ELSE of(i)
  <2>1. \A i \in {k, l} : from(i) \in DOMAIN all /\ all[from(i)].held /\ all[from(i)].message = next[i].message
    BY <1>3, <1>4, ZenonT(60)
  <2>2. from(k) = from(l)
    BY <2>1 DEF Sound, OneHeld
  <2>3. \A i \in {k, l} : i \in DOMAIN all <=> from(i) \notin gone
    BY <1>3, <1>4, ZenonT(60)
  <2> QED BY <1>2, <2>2, <2>3
<1>7. Rooted(next)
  <2>1. ASSUME NEW k \in DOMAIN all
        PROVE  /\ all[k].message \in DOMAIN all
               /\ next[all[k].message].message = all[k].message
               /\ next[all[k].message].sentAt = all[k].sentAt
    BY <1>3 DEF Sound, Rooted
  <2>2. ASSUME NEW k \in DOMAIN next
        PROVE  \E l \in DOMAIN all : next[k].message = all[l].message /\ next[k].sentAt = all[l].sentAt
    BY <1>3, <1>4
  <2>3. ASSUME NEW k \in DOMAIN next
        PROVE  /\ next[k].message \in DOMAIN next
               /\ next[next[k].message].message = next[k].message
               /\ next[next[k].message].sentAt = next[k].sentAt
    <3>1. PICK l \in DOMAIN all : next[k].message = all[l].message /\ next[k].sentAt = all[l].sentAt
      BY <2>2
    <3> QED BY <1>2, <2>1, <3>1
  <2> QED BY <2>3 DEF Rooted
<1>8. Renews(all, next)
  <2>1. ASSUME NEW k \in DOMAIN all, all[k].held
        PROVE  \E l \in DOMAIN next : next[l].held /\ next[l].message = all[k].message
    <3>1. CASE k \notin gone
      BY <1>2, <1>3, <2>1, <3>1
    <3>2. CASE k \in gone
      <4>1. PICK j \in DOMAIN next \ DOMAIN all : of(j) = k
        BY <1>2, <3>2
      <4> QED BY <1>4, <4>1
    <3> QED BY <3>1, <3>2
  <2>2. ASSUME NEW k \in DOMAIN next \ DOMAIN all
        PROVE  \E l \in DOMAIN all : /\ all[l].held /\ ~next[l].held
                                     /\ all[l].message = next[k].message /\ all[l].sentAt = next[k].sentAt
    BY <1>3, <1>4
  <2> QED BY <1>2, <1>3, <1>4, <2>1, <2>2 DEF Renews
<1> QED BY <1>2, <1>3, <1>4, <1>5, <1>6, <1>7, <1>8 DEF Sound, next

HasTarget(q) == settings[q].policy.target # NoQueue /\ Exists(settings[q].policy.target)

(* The queue has nothing to drop, and nothing to move where it can move it.  *)
IsUpToDate(q, all) ==
    \A k \in HeldBy(q, all) : ~HasExpired(all[k]) /\ (HasTarget(q) => k \notin Exhausted(q, all))

LEMMA PolicyOf ==
    ASSUME SettingsTyped, NEW q \in Names
    PROVE  /\ settings[q].policy.target \in Names \cup {NoQueue}
           /\ settings[q].policy.limit \in Nat \ {0}
BY DEF SettingsTyped, APolicy

LEMMA MoveExhaustedRenews ==
    ASSUME NEW all, Sound(all), SettingsTyped, now \in Nat, NEW q \in Names,
           \A k \in HeldBy(q, all) : ~HasExpired(all[k])
    PROVE  /\ Sound(MoveExhausted(q, all)) /\ Renews(all, MoveExhausted(q, all))
           /\ IsUpToDate(q, MoveExhausted(q, all))
<1> DEFINE next == MoveExhausted(q, all)
           gone == Exhausted(q, all)
           target == settings[q].policy.target
<1>1. CASE ~HasTarget(q)
  <2>1. next = all
    BY <1>1 DEF MoveExhausted, HasTarget
  <2>2. Renews(all, all)
    BY RenewsItself DEF Sound
  <2> QED BY <1>1, <2>1, <2>2 DEF IsUpToDate
<1>2. CASE HasTarget(q)
  <2>1. target \in Names /\ Exists(target) /\ settings[q].policy.limit \in Nat \ {0}
    BY <1>2, PolicyOf DEF HasTarget
  <2>2. gone \in SUBSET {k \in DOMAIN all : all[k].held}
    BY DEF Exhausted, HeldBy
  <2>3. next = Redriven(gone, target, all)
    BY <1>2 DEF MoveExhausted, HasTarget, Redriven
  <2>4. \A k \in gone : k \in HeldBy(q, all) /\ ~HasExpired(all[k]) /\ all[k].queue = q
    BY DEF Exhausted, HeldBy
  <2> HIDE DEF next, gone, target
  <2>5. /\ Sound(next) /\ Renews(all, next)
        /\ \A k \in DOMAIN all : next[k].held => k \notin gone
        /\ \A k \in DOMAIN next \ DOMAIN all : next[k].queue = target /\ \E l \in gone : next[k].sentAt = all[l].sentAt
    BY <2>1, <2>2, <2>3, RedriveRenews
  <2>6. ASSUME NEW k \in HeldBy(q, next)
        PROVE  ~HasExpired(next[k]) /\ ~(IsVisible(next[k]) /\ next[k].receives >= settings[q].policy.limit)
    <3>1. next[k].queue = q /\ next[k].held /\ k \in DOMAIN next
      BY <2>6 DEF HeldBy
    <3>2. CASE k \in DOMAIN all
      <4>1. next[k] = [all[k] EXCEPT !.held = next[k].held] /\ all[k].held
        BY <2>5, <3>1, <3>2 DEF Renews
      <4>2. all[k] \in Copies
        BY <3>2, Copied DEF Sound
      <4>3. /\ next[k].queue = all[k].queue /\ next[k].sentAt = all[k].sentAt
            /\ next[k].visibleFrom = all[k].visibleFrom /\ next[k].receives = all[k].receives
        BY <4>1, <4>2, SameCopy
      <4>4. k \in HeldBy(q, all) /\ k \notin gone
        BY <2>5, <3>1, <3>2, <4>1, <4>3 DEF HeldBy
      <4> QED BY <4>3, <4>4 DEF HasExpired, IsVisible, gone, Exhausted
    <3>3. CASE k \notin DOMAIN all
      <4>1. next[k].receives = 0
        BY <2>5, <3>1, <3>3 DEF Renews
      <4>2. PICK l \in gone : next[k].sentAt = all[l].sentAt
        BY <2>5, <3>1, <3>3
      <4>3. ~HasExpired(all[l]) /\ all[l].queue = q
        BY <2>4
      <4>4. ~HasExpired(next[k])
        BY <3>1, <4>2, <4>3 DEF HasExpired
      <4> QED BY <2>1, <4>1, <4>4
    <3> QED BY <3>2, <3>3
  <2>7. IsUpToDate(q, next)
    BY <2>6 DEF IsUpToDate, Exhausted
  <2> QED BY <2>5, <2>7 DEF next
<1> QED BY <1>1, <1>2

LEMMA QueueUpToDateRenews ==
    ASSUME NEW all, Sound(all), SettingsTyped, now \in Nat, NEW q \in Names
    PROVE  /\ Sound(QueueUpToDate(q, all)) /\ Renews(all, QueueUpToDate(q, all))
           /\ IsUpToDate(q, QueueUpToDate(q, all))
<1> DEFINE dropped == DropExpired(q, all)
<1>1. /\ Sound(dropped) /\ Renews(all, dropped)
      /\ \A k \in HeldBy(q, dropped) : ~HasExpired(dropped[k])
    BY DropExpiredRenews
<1> HIDE DEF dropped
<1>2. /\ Sound(MoveExhausted(q, dropped)) /\ Renews(dropped, MoveExhausted(q, dropped))
      /\ IsUpToDate(q, MoveExhausted(q, dropped))
    BY <1>1, MoveExhaustedRenews
<1>3. Renews(all, MoveExhausted(q, dropped))
    BY <1>1, <1>2, RenewalsCompose
<1> QED BY <1>2, <1>3 DEF QueueUpToDate, dropped

LEMMA NothingLeftToDo ==
    ASSUME NEW all, Sound(all), NEW q \in Names, IsUpToDate(q, all) PROVE QueueUpToDate(q, all) = all
<1>1. all \in Seq(Copies)
    BY DEF Sound
<1>2. DropExpired(q, all) = all
  <2>1. {k \in HeldBy(q, all) : HasExpired(all[k])} = {}
    BY DEF IsUpToDate
  <2> QED BY <1>1, <2>1, WithoutNothing DEF DropExpired
<1>3. MoveExhausted(q, all) = all
  <2>1. CASE ~HasTarget(q)
    BY <2>1 DEF MoveExhausted, HasTarget
  <2>2. CASE HasTarget(q)
    <3>1. Exhausted(q, all) = {}
      BY <2>2 DEF IsUpToDate, Exhausted
    <3>2. MoveExhausted(q, all) = Without({}, all) \o Moved({}, settings[q].policy.target, all)
      BY <2>2, <3>1 DEF MoveExhausted, HasTarget
    <3>3. Cardinality({}) = 0
      BY FS_EmptySet
    <3>4. Moved({}, settings[q].policy.target, all) = << >>
      BY <3>3 DEF Moved
    <3>5. Without({}, all) = all
      BY <1>1, WithoutNothing
    <3> QED BY <1>1, <3>2, <3>4, <3>5
  <2> QED BY <2>1, <2>2
<1> QED BY <1>2, <1>3 DEF QueueUpToDate

-----------------------------------------------------------------------------
(* Every queue in turn.                                                      *)

LEMMA BroughtUpToExists ==
    ASSUME QueuesTyped
    PROVE  \A i \in 0 .. Len(queues) :
             BroughtUpTo[i] = IF i = 0 THEN copies ELSE QueueUpToDate(queues[i], BroughtUpTo[i - 1])
<1> DEFINE Reaches(f, n) == f = [i \in 0 .. n |-> IF i = 0 THEN copies ELSE QueueUpToDate(queues[i], f[i - 1])]
           S == {n \in 0 .. Len(queues) : \E f : Reaches(f, n)}
<1>1. Len(queues) \in Nat
    BY DEF QueuesTyped
<1>2. 0 \in S
  <2> DEFINE f == [i \in 0 .. 0 |-> copies]
  <2>1. Reaches(f, 0)
    OBVIOUS
  <2> HIDE DEF f
  <2>2. \E ff : Reaches(ff, 0)
    BY <2>1
  <2>3. 0 \in 0 .. Len(queues)
    BY <1>1
  <2> QED BY <2>2, <2>3
<1>3. ASSUME NEW n \in 0 .. Len(queues) - 1, n \in S PROVE n + 1 \in S
  <2>1. PICK f : Reaches(f, n)
    BY <1>3
  <2> DEFINE g == [i \in 0 .. n + 1 |-> IF i = n + 1 THEN QueueUpToDate(queues[n + 1], f[n]) ELSE f[i]]
  <2>2. ASSUME NEW i \in 0 .. n + 1
        PROVE  g[i] = IF i = 0 THEN copies ELSE QueueUpToDate(queues[i], g[i - 1])
    <3>1. CASE i = n + 1
      BY <3>1
    <3>2. CASE i # n + 1 /\ i = 0
      BY <2>1, <3>2
    <3>3. CASE i # n + 1 /\ i # 0
      <4>1. i \in 0 .. n /\ i - 1 \in 0 .. n + 1 /\ i - 1 # n + 1
        BY <3>3
      <4>2. f[i] = QueueUpToDate(queues[i], f[i - 1])
        BY <2>1, <3>3, <4>1
      <4> QED BY <3>3, <4>1, <4>2
    <3> QED BY <3>1, <3>2, <3>3
  <2> HIDE DEF g
  <2>3. g = [i \in 0 .. n + 1 |-> g[i]]
    BY DEF g
  <2>4. Reaches(g, n + 1)
    BY <2>2, <2>3
  <2>5. n + 1 \in 0 .. Len(queues)
    BY <1>1
  <2> QED BY <2>4, <2>5
<1> HIDE DEF S
<1>4. Len(queues) \in S
  <2>1. 0 .. Len(queues) \subseteq S
    BY <1>1, <1>2, <1>3, Induct
  <2>2. Len(queues) \in 0 .. Len(queues)
    BY <1>1
  <2> QED BY <2>1, <2>2
<1>5. \E f : Reaches(f, Len(queues))
    BY <1>4 DEF S
<1>6. Reaches(BroughtUpTo, Len(queues))
    BY <1>5 DEF BroughtUpTo
<1> QED BY <1>6

(* Whatever the queues and their policies, bringing them all up to date      *)
(* leaves every message where it was or moves it to one queue, unless it has *)
(* been kept as long as any queue keeps one.                                 *)
LEMMA UpToDateRenews ==
    ASSUME Sound(copies), QueuesTyped, SettingsTyped, now \in Nat
    PROVE  Sound(UpToDate) /\ Renews(copies, UpToDate)
<1> DEFINE S == {i \in 0 .. Len(queues) : Sound(BroughtUpTo[i]) /\ Renews(copies, BroughtUpTo[i])}
<1>1. Len(queues) \in Nat /\ \A i \in 1 .. Len(queues) : queues[i] \in Names
    BY DEF QueuesTyped
<1>2. \A i \in 0 .. Len(queues) :
        BroughtUpTo[i] = IF i = 0 THEN copies ELSE QueueUpToDate(queues[i], BroughtUpTo[i - 1])
    BY BroughtUpToExists
<1>3. 0 \in S
  <2>1. BroughtUpTo[0] = copies
    BY <1>1, <1>2
  <2>2. Renews(copies, copies)
    BY RenewsItself DEF Sound
  <2> QED BY <1>1, <2>1, <2>2
<1>4. ASSUME NEW i \in 0 .. Len(queues) - 1, i \in S PROVE i + 1 \in S
  <2> DEFINE before == BroughtUpTo[i]
  <2>1. i + 1 \in 1 .. Len(queues) /\ queues[i + 1] \in Names /\ i + 1 # 0 /\ i + 1 - 1 = i
    BY <1>1
  <2>2. BroughtUpTo[i + 1] = QueueUpToDate(queues[i + 1], before)
    BY <1>1, <1>2, <2>1
  <2>3. Sound(before) /\ Renews(copies, before)
    BY <1>4
  <2> HIDE DEF before
  <2>4. Sound(QueueUpToDate(queues[i + 1], before)) /\ Renews(before, QueueUpToDate(queues[i + 1], before))
    BY <2>1, <2>3, QueueUpToDateRenews
  <2>5. Renews(copies, QueueUpToDate(queues[i + 1], before))
    BY <2>3, <2>4, RenewalsCompose
  <2> QED BY <1>1, <2>1, <2>2, <2>4, <2>5
<1> HIDE DEF S
<1>5. 0 .. Len(queues) \subseteq S
    BY <1>1, <1>3, <1>4, Induct
<1>6. Len(queues) \in S
    BY <1>1, <1>5
<1> QED BY <1>6 DEF S, UpToDate

-----------------------------------------------------------------------------
(* The inductive invariant.                                                  *)

ClockTyped == now \in 0 .. MaxTime

AttributesKept == \A q \in Names : settings[q] \in Attributes(q)

DefaultsBetweenQueues == \A q \in Names : ~Exists(q) => settings[q] = Defaults

SqsInv ==
    /\ ClockTyped /\ QueuesTyped /\ SettingsTyped /\ AttributesKept /\ DefaultsBetweenQueues
    /\ Sound(copies)

LEMMA Bounds ==
    /\ MaxTime \in Nat /\ MaxCopies \in Nat /\ MaxReceives \in Nat /\ NameHold \in Nat
    /\ Default \in Retentions /\ Retentions \subseteq Nat \ {0}
    /\ Timeouts \subseteq Nat /\ Delays \subseteq Nat /\ Limits \subseteq Nat \ {0}
    /\ NoQueue \notin Names
    /\ \A q \in Names : Policies[q] \subseteq [target : Names, limit : Nat \ {0}]
BY QueuesAssumption DEF QueuesAssumption

LEMMA NowIsANumber == ASSUME ClockTyped PROVE now \in Nat
BY Bounds DEF ClockTyped

LEMMA CopiesUpToDate ==
    ASSUME SqsInv PROVE now \in Nat /\ Sound(UpToDate) /\ Renews(copies, UpToDate)
BY NowIsANumber, UpToDateRenews DEF SqsInv

(* A queue that was asked something is up to date when it answers.           *)
LEMMA AskedIsUpToDate ==
    ASSUME SqsInv, NEW q \in Names
    PROVE  LET all == QueueUpToDate(q, UpToDate)
           IN  now \in Nat /\ Sound(all) /\ Renews(copies, all) /\ IsUpToDate(q, all)
<1> DEFINE all == QueueUpToDate(q, UpToDate)
<1>1. now \in Nat /\ Sound(UpToDate) /\ Renews(copies, UpToDate) /\ Sound(copies) /\ SettingsTyped
    BY CopiesUpToDate DEF SqsInv
<1>2. Sound(all) /\ Renews(UpToDate, all) /\ IsUpToDate(q, all)
    BY <1>1, QueueUpToDateRenews
<1>3. Renews(copies, all)
    BY <1>1, <1>2, RenewalsCompose
<1> QED BY <1>1, <1>2, <1>3

LEMMA SettingsGiven ==
    ASSUME SettingsTyped, AttributesKept, NEW q \in Names, NEW given \in Attributes(q),
           settings' = [settings EXCEPT ![q] = With(@, given)]
    PROVE  SettingsTyped' /\ AttributesKept'
<1>1. settings[q] \in Attributes(q) /\ given \in Attributes(q)
    BY DEF AttributesKept
<1>2. With(settings[q], given) \in Attributes(q)
    BY <1>1 DEF With, Attributes
<1>3. Attributes(q) \subseteq [retention : Retentions, policy : APolicy]
  <2>1. Policies[q] \cup {NoPolicy} \subseteq APolicy
    BY Bounds DEF NoPolicy, APolicy
  <2> QED BY <2>1 DEF Attributes
<1>4. SettingsTyped'
    BY <1>2, <1>3 DEF SettingsTyped
<1>5. AttributesKept'
    BY <1>2 DEF SettingsTyped, AttributesKept, Attributes
<1> QED BY <1>4, <1>5

LEMMA DefaultsAreAttributes ==
    ASSUME NEW q \in Names
    PROVE  Defaults \in Attributes(q) /\ Defaults \in [retention : Retentions, policy : APolicy]
BY Bounds DEF Defaults, Attributes, NoPolicy, APolicy

(* The copies stay sound where they are let go of or are received, and their *)
(* queues stand.                                                             *)
LEMMA SoundAgain ==
    ASSUME NEW all, Sound(all), NEW next \in Seq(Copies), DOMAIN next = DOMAIN all,
           \A k \in DOMAIN all :
             /\ next[k].message = all[k].message /\ next[k].sentAt = all[k].sentAt
             /\ next[k].held => all[k].held /\ next[k].queue = all[k].queue
             /\ next[k].queue \in {all[k].queue, NoQueue}
    PROVE  Sound(next)
<1>1. HeldByQueues(next)
    BY DEF Sound, HeldByQueues, Exists
<1>2. OneHeld(next)
    BY DEF Sound, OneHeld
<1>3. ASSUME NEW k \in DOMAIN all
      PROVE  /\ next[k].message \in DOMAIN all
             /\ next[next[k].message].message = next[k].message
             /\ next[next[k].message].sentAt = next[k].sentAt
  <2>1. /\ all[k].message \in DOMAIN all /\ all[all[k].message].message = all[k].message
        /\ all[all[k].message].sentAt = all[k].sentAt
    BY DEF Sound, Rooted
  <2> QED BY <2>1
<1>4. Rooted(next)
    BY <1>3 DEF Rooted
<1> QED BY <1>1, <1>2, <1>4 DEF Sound

LEMMA SoundThen ==
    ASSUME Sound(copies'),
           \A k \in DOMAIN copies' :
             copies'[k].held \/ copies'[k].queue # NoQueue => copies'[k].queue \in Range(queues')
    PROVE  Sound(copies)'
BY DEF Sound, HeldByQueues, OneHeld, Rooted, Copies, Exists

LEMMA QueuesStand ==
    ASSUME SqsInv, UNCHANGED <<now, queues>>, Sound(copies'), SettingsTyped', AttributesKept',
           DefaultsBetweenQueues' PROVE SqsInv'
<1>1. Sound(copies)'
    BY SoundThen DEF Sound, HeldByQueues, Exists
<1>2. ClockTyped' /\ QueuesTyped'
    BY DEF SqsInv, ClockTyped, QueuesTyped, IsInjective
<1> QED BY <1>1, <1>2 DEF SqsInv

LEMMA EverythingStands ==
    ASSUME SqsInv, UNCHANGED <<now, queues, settings>>, Sound(copies') PROVE SqsInv'
<1>1. SettingsTyped' /\ AttributesKept' /\ DefaultsBetweenQueues'
    BY DEF SqsInv, SettingsTyped, AttributesKept, Attributes, DefaultsBetweenQueues, Exists
<1> QED BY <1>1, QueuesStand

LEMMA SqsInitially == Init => SqsInv
<1> SUFFICES ASSUME Init PROVE SqsInv
    OBVIOUS
<1>1. ClockTyped /\ QueuesTyped
    BY Bounds DEF Init, ClockTyped, QueuesTyped, IsInjective
<1>2. SettingsTyped /\ AttributesKept /\ DefaultsBetweenQueues
    BY DefaultsAreAttributes DEF Init, SettingsTyped, AttributesKept, DefaultsBetweenQueues
<1>3. Sound(copies)
    BY DEF Init, Sound, HeldByQueues, OneHeld, Rooted
<1> QED BY <1>1, <1>2, <1>3 DEF SqsInv

-----------------------------------------------------------------------------
(* Each request keeps it.                                                    *)

LEMMA TimePassesKeeps == ASSUME SqsInv, TimePasses PROVE SqsInv'
<1>1. ClockTyped'
    BY Bounds DEF SqsInv, TimePasses, ClockTyped
<1>2. QueuesTyped' /\ SettingsTyped' /\ AttributesKept' /\ DefaultsBetweenQueues'
    BY DEF SqsInv, TimePasses, QueuesTyped, IsInjective, SettingsTyped, AttributesKept, Attributes,
       DefaultsBetweenQueues, Exists
<1>3. Sound(copies)'
    BY SoundThen DEF SqsInv, TimePasses, Sound, HeldByQueues, Exists
<1> QED BY <1>1, <1>2, <1>3 DEF SqsInv

LEMMA CreateQueueKeeps ==
    ASSUME SqsInv, NEW q \in Names, NEW given \in Attributes(q), CreateQueue(q, given) PROVE SqsInv'
<1>1. UNCHANGED <<now, copies>> /\ ~Exists(q) /\ queues' = Append(queues, q)
    BY DEF CreateQueue
<1>2. SettingsTyped' /\ AttributesKept'
    BY SettingsGiven DEF SqsInv, CreateQueue
<1>3. QueuesTyped' /\ Range(queues) \subseteq Range(queues') /\ q \in Range(queues')
  <2>1. queues \in Seq(Names) /\ IsInjective(queues) /\ \A i \in DOMAIN queues : queues[i] # q
    BY <1>1 DEF SqsInv, QueuesTyped, Exists, Range
  <2>2. /\ queues' \in Seq(Names) /\ DOMAIN queues' = 1 .. Len(queues) + 1
        /\ \A i \in 1 .. Len(queues) : queues'[i] = queues[i]
        /\ queues'[Len(queues) + 1] = q /\ Len(queues) \in Nat /\ DOMAIN queues = 1 .. Len(queues)
    BY <1>1, <2>1
  <2>3. IsInjective(queues')
    BY <2>1, <2>2 DEF IsInjective
  <2>4. Range(queues) \subseteq Range(queues') /\ q \in Range(queues')
    BY <2>2 DEF Range
  <2> QED BY <2>2, <2>3, <2>4 DEF QueuesTyped
<1>4. Sound(copies)'
    BY <1>1, <1>3, SoundThen DEF SqsInv, Sound, HeldByQueues, Exists
<1>5. ClockTyped'
    BY <1>1 DEF SqsInv, ClockTyped
<1>6. DefaultsBetweenQueues'
    BY <1>3 DEF SqsInv, CreateQueue, SettingsTyped, DefaultsBetweenQueues, Exists
<1> QED BY <1>2, <1>3, <1>4, <1>5, <1>6 DEF SqsInv

LEMMA LookKeeps == ASSUME SqsInv, Look PROVE SqsInv'
BY CopiesUpToDate, EverythingStands DEF Look, Keeps, Answer

LEMMA SetQueueAttributesKeeps ==
    ASSUME SqsInv, NEW q \in Names, NEW given \in Attributes(q), SetQueueAttributes(q, given) PROVE SqsInv'
<1>1. SettingsTyped' /\ AttributesKept' /\ DefaultsBetweenQueues'
  <2>1. SettingsTyped' /\ AttributesKept'
    BY SettingsGiven DEF SqsInv, SetQueueAttributes
  <2>2. DefaultsBetweenQueues'
    BY DEF SqsInv, SetQueueAttributes, SettingsTyped, DefaultsBetweenQueues, Exists
  <2> QED BY <2>1, <2>2
<1>2. UNCHANGED <<now, queues>> /\ Sound(copies')
    BY CopiesUpToDate DEF SetQueueAttributes, Keeps, Answer
<1> QED BY <1>1, <1>2, QueuesStand

(* Its copies are nobody's.                                                  *)
LEMMA ForgottenIsSound ==
    ASSUME NEW all, Sound(all), NEW q
    PROVE  /\ Sound(Forgotten(q, all)) /\ DOMAIN Forgotten(q, all) = DOMAIN all
           /\ \A k \in DOMAIN all :
                LET it == Forgotten(q, all)[k]
                IN  /\ it.message = all[k].message /\ it.sentAt = all[k].sentAt
                    /\ it.receives = all[k].receives
                    /\ it.held <=> all[k].held /\ all[k].queue # q
                    /\ it.held => it.queue = all[k].queue
                    /\ it.queue = IF all[k].queue = q THEN NoQueue ELSE all[k].queue
<1> DEFINE next == Forgotten(q, all)
<1>1. all \in Seq(Copies) /\ DOMAIN all = 1 .. Len(all) /\ Len(all) \in Nat
    BY DEF Sound
<1>2. ASSUME NEW k \in DOMAIN all
      PROVE  /\ next[k] \in Copies
             /\ next[k].message = all[k].message /\ next[k].sentAt = all[k].sentAt
             /\ next[k].receives = all[k].receives
             /\ next[k].held <=> all[k].held /\ all[k].queue # q
             /\ next[k].held => next[k].queue = all[k].queue
             /\ next[k].queue = IF all[k].queue = q THEN NoQueue ELSE all[k].queue
  <2>1. all[k] \in Copies
    BY <1>1, Copied
  <2>2. next[k] = IF all[k].queue = q THEN [all[k] EXCEPT !.queue = NoQueue, !.held = FALSE] ELSE all[k]
    BY DEF Forgotten
  <2> HIDE DEF next
  <2> QED BY <2>1, <2>2 DEF Copies
<1>3. next \in [1 .. Len(all) -> Copies]
    BY <1>1, <1>2 DEF Forgotten
<1>4. next \in Seq(Copies) /\ DOMAIN next = DOMAIN all
    BY <1>1, <1>3, ASequence
<1> HIDE DEF next
<1>5. Sound(next)
    BY <1>2, <1>4, SoundAgain
<1> QED BY <1>2, <1>4, <1>5 DEF next

LEMMA QueueRemoved ==
    ASSUME QueuesTyped, NEW i \in DOMAIN queues, queues' = RemoveAt(queues, i)
    PROVE  QueuesTyped' /\ Range(queues') = Range(queues) \ {queues[i]}
<1>1. /\ queues \in Seq(Names) /\ IsInjective(queues) /\ Len(queues) \in Nat
      /\ DOMAIN queues = 1 .. Len(queues) /\ i \in 1 .. Len(queues)
    BY DEF QueuesTyped
<1> DEFINE front == SubSeq(queues, 1, i - 1)
           back == SubSeq(queues, i + 1, Len(queues))
<1>2. /\ front \in Seq(Names) /\ Len(front) = i - 1 /\ \A j \in 1 .. i - 1 : front[j] = queues[j]
      /\ back \in Seq(Names) /\ Len(back) = Len(queues) - i
      /\ \A j \in 1 .. Len(queues) - i : back[j] = queues[j + i]
    BY <1>1, SMTT(60)
<1>3. queues' = front \o back
    BY DEF RemoveAt
<1> HIDE DEF front, back
<1>4. /\ queues' \in Seq(Names) /\ Len(queues') = Len(queues) - 1 /\ DOMAIN queues' = 1 .. Len(queues) - 1
      /\ \A j \in 1 .. Len(queues) - 1 : queues'[j] = IF j < i THEN queues[j] ELSE queues[j + 1]
  <2>1. /\ queues' \in Seq(Names) /\ Len(queues') = Len(queues) - 1 /\ DOMAIN queues' = 1 .. Len(queues) - 1
        /\ \A j \in 1 .. i - 1 : queues'[j] = front[j]
        /\ \A j \in 1 .. Len(queues) - 1 : j > i - 1 => queues'[j] = back[j - (i - 1)]
    <3> DEFINE both == front \o back
    <3>1. /\ both \in Seq(Names) /\ Len(both) = Len(front) + Len(back)
          /\ DOMAIN both = 1 .. Len(front) + Len(back)
          /\ \A j \in 1 .. Len(front) : both[j] = front[j]
          /\ \A j \in 1 .. Len(front) + Len(back) : j > Len(front) => both[j] = back[j - Len(front)]
      BY <1>2, Concatenated
    <3>2. queues' = both
      BY <1>3
    <3> HIDE DEF both
    <3>3. Len(front) = i - 1 /\ Len(front) + Len(back) = Len(queues) - 1
      BY <1>1, <1>2
    <3> QED BY <3>1, <3>2, <3>3
  <2>2. \A j \in 1 .. Len(queues) - 1 : queues'[j] = IF j < i THEN queues[j] ELSE queues[j + 1]
    <3> SUFFICES ASSUME NEW j \in 1 .. Len(queues) - 1
                 PROVE  queues'[j] = IF j < i THEN queues[j] ELSE queues[j + 1]
        OBVIOUS
    <3>1. CASE j < i
      <4>1. j \in 1 .. i - 1
        BY <1>1, <3>1
      <4> QED BY <1>2, <2>1, <3>1, <4>1
    <3>2. CASE ~(j < i)
      <4> DEFINE l == j - (i - 1)
      <4>1. l \in 1 .. Len(queues) - i /\ l + i = j + 1 /\ j > i - 1
        BY <1>1, <3>2
      <4>2. queues'[j] = back[l]
        BY <2>1, <4>1
      <4> HIDE DEF l
      <4>3. back[l] = queues[l + i]
        BY <1>2, <4>1
      <4> QED BY <3>2, <4>1, <4>2, <4>3
    <3> QED BY <3>1, <3>2
  <2> QED BY <2>1, <2>2
<1>5. IsInjective(queues')
  <2> SUFFICES ASSUME NEW a \in DOMAIN queues', NEW b \in DOMAIN queues', queues'[a] = queues'[b]
               PROVE  a = b
      BY DEF IsInjective
  <2> DEFINE from(j) == IF j < i THEN j ELSE j + 1
  <2>1. \A j \in DOMAIN queues' : from(j) \in DOMAIN queues /\ queues'[j] = queues[from(j)]
    <3> SUFFICES ASSUME NEW j \in DOMAIN queues'
                 PROVE  from(j) \in DOMAIN queues /\ queues'[j] = queues[from(j)]
        OBVIOUS
    <3>1. CASE j < i
      BY <1>1, <1>4, <3>1
    <3>2. CASE ~(j < i)
      BY <1>1, <1>4, <3>2
    <3> QED BY <3>1, <3>2
  <2> HIDE DEF from
  <2>2. from(a) = from(b)
    BY <1>1, <2>1 DEF IsInjective
  <2>3. a \in Int /\ b \in Int /\ i \in Int
    BY <1>1, <1>4
  <2> QED BY <2>2, <2>3 DEF from
<1>6. Range(queues') = Range(queues) \ {queues[i]}
  <2>1. ASSUME NEW j \in DOMAIN queues' PROVE queues'[j] \in Range(queues) \ {queues[i]}
    <3>1. \E l \in DOMAIN queues : l # i /\ queues'[j] = queues[l]
      <4>1. CASE j < i
        BY <1>1, <1>4, <4>1
      <4>2. CASE ~(j < i)
        <5>1. j + 1 \in DOMAIN queues /\ j + 1 # i /\ queues'[j] = queues[j + 1]
          BY <1>1, <1>4, <4>2
        <5> QED BY <5>1
      <4> QED BY <4>1, <4>2
    <3>2. PICK l \in DOMAIN queues : l # i /\ queues'[j] = queues[l]
      BY <3>1
    <3>3. queues[l] # queues[i]
      BY <1>1, <3>2 DEF IsInjective
    <3> QED BY <3>2, <3>3 DEF Range
  <2>2. ASSUME NEW j \in DOMAIN queues, j # i PROVE queues[j] \in Range(queues')
    <3>1. CASE j < i
      <4>1. j \in DOMAIN queues' /\ queues'[j] = queues[j]
        BY <1>1, <1>4, <3>1
      <4> QED BY <4>1 DEF Range
    <3>2. CASE ~(j < i)
      <4>1. j - 1 \in DOMAIN queues' /\ queues'[j - 1] = queues[j]
        BY <1>1, <1>4, <2>2, <3>2
      <4> QED BY <4>1 DEF Range
    <3> QED BY <3>1, <3>2
  <2> QED BY <2>1, <2>2 DEF Range
<1> QED BY <1>4, <1>5, <1>6 DEF QueuesTyped

LEMMA DeleteQueueKeeps == ASSUME SqsInv, NEW q \in Names, DeleteQueue(q) PROVE SqsInv'
<1> DEFINE next == Forgotten(q, UpToDate)
<1>1. UNCHANGED now /\ copies' = next
    BY DEF DeleteQueue, Answer
<1>2. PICK i \in DOMAIN queues : queues[i] = q /\ queues' = RemoveAt(queues, i)
    BY DEF DeleteQueue
<1>3. QueuesTyped' /\ Range(queues') = Range(queues) \ {q}
    BY <1>2, QueueRemoved DEF SqsInv
<1>4. /\ Sound(next) /\ DOMAIN next = DOMAIN UpToDate
      /\ \A k \in DOMAIN next : next[k].held => UpToDate[k].queue # q /\ next[k].queue = UpToDate[k].queue
      /\ \A k \in DOMAIN next : next[k].queue \in {UpToDate[k].queue, NoQueue} \ {q}
    BY CopiesUpToDate, ForgottenIsSound, Bounds
<1> HIDE DEF next
<1>5. \A k \in DOMAIN copies' :
        copies'[k].held \/ copies'[k].queue # NoQueue => copies'[k].queue \in Range(queues')
    BY <1>1, <1>3, <1>4 DEF Sound, HeldByQueues, Exists
<1>6. Sound(copies)'
    BY <1>1, <1>4, <1>5, SoundThen
<1>7. SettingsTyped' /\ AttributesKept' /\ DefaultsBetweenQueues'
  <2>1. settings' = [settings EXCEPT ![q] = Defaults]
    BY DEF DeleteQueue
  <2>2. SettingsTyped'
    BY <2>1, DefaultsAreAttributes DEF SqsInv, SettingsTyped
  <2>3. AttributesKept'
    BY <2>1, DefaultsAreAttributes DEF SqsInv, SettingsTyped, AttributesKept, Attributes
  <2>4. DefaultsBetweenQueues'
    BY <1>3, <2>1 DEF SqsInv, SettingsTyped, DefaultsBetweenQueues, Exists
  <2> QED BY <2>2, <2>3, <2>4
<1>8. ClockTyped'
    BY <1>1 DEF SqsInv, ClockTyped
<1> QED BY <1>3, <1>6, <1>7, <1>8 DEF SqsInv

(* An answer that lets go of some copies, whoever gives it.                  *)
LEMMA AnswerWithoutKeeps ==
    ASSUME SqsInv, NEW all, Sound(all), NEW gone, Answer(Without(gone, all)), UNCHANGED <<queues, settings>>
    PROVE  SqsInv'
<1>1. Sound(copies') /\ UNCHANGED now
    BY WithoutIsSound DEF Answer
<1> QED BY <1>1, EverythingStands

LEMMA PurgeQueueKeeps == ASSUME SqsInv, NEW q \in Names, PurgeQueue(q) PROVE SqsInv'
BY CopiesUpToDate, AnswerWithoutKeeps DEF PurgeQueue

LEMMA DeleteMessageKeeps ==
    ASSUME SqsInv, NEW q \in Names, NEW handle \in Handles(q), DeleteMessage(q, handle) PROVE SqsInv'
<1> DEFINE all == QueueUpToDate(q, UpToDate)
<1>1. PICK gone : Answer(Without(gone, all)) /\ UNCHANGED <<queues, settings>>
    BY DEF DeleteMessage
<1>2. Sound(all)
    BY AskedIsUpToDate
<1> HIDE DEF all
<1> QED BY <1>1, <1>2, AnswerWithoutKeeps

LEMMA AppendedIsSound ==
    ASSUME NEW all, Sound(all), NEW it \in Copies, it.message = Len(all) + 1, Exists(it.queue)
    PROVE  Sound(Append(all, it)) /\ DOMAIN Append(all, it) = 1 .. Len(all) + 1
<1> DEFINE next == Append(all, it)
<1>1. /\ all \in Seq(Copies) /\ DOMAIN all = 1 .. Len(all) /\ Len(all) \in Nat
      /\ \A k \in DOMAIN all : all[k].message \in DOMAIN all
    BY DEF Sound, Rooted
<1>2. /\ next \in Seq(Copies) /\ DOMAIN next = 1 .. Len(all) + 1
      /\ \A k \in DOMAIN all : next[k] = all[k]
      /\ next[Len(all) + 1] = it
    BY <1>1
<1> HIDE DEF next
<1>3. \A k \in DOMAIN next : k \in DOMAIN all \/ k = Len(all) + 1
    BY <1>1, <1>2
<1>4. Len(all) + 1 \in DOMAIN next /\ Len(all) + 1 \notin DOMAIN all
    BY <1>1, <1>2
<1>5. HeldByQueues(next)
    BY <1>2, <1>3 DEF Sound, HeldByQueues
<1>6. OneHeld(next)
    BY <1>1, <1>2, <1>3, <1>4 DEF Sound, OneHeld
<1>7. Rooted(next)
    BY <1>1, <1>2, <1>3, <1>4 DEF Sound, Rooted
<1> QED BY <1>2, <1>5, <1>6, <1>7 DEF Sound, next

(* The message a request sends.                                              *)
Sent(q, delay) ==
    [message |-> Len(UpToDate) + 1, queue |-> q, held |-> TRUE,
     sentAt |-> now, visibleFrom |-> now + delay, receives |-> 0]

LEMMA SentIsACopy ==
    ASSUME SqsInv, NEW q \in Names, NEW delay \in Delays, SendMessage(q, delay)
    PROVE  /\ copies' = Append(UpToDate, Sent(q, delay)) /\ Sent(q, delay) \in Copies /\ Sound(copies')
           /\ DOMAIN copies' = 1 .. Len(UpToDate) + 1 /\ Exists(q)
<1>1. /\ copies' = Append(UpToDate, Sent(q, delay)) /\ Len(copies') <= MaxCopies /\ Exists(q)
    BY DEF SendMessage, Keeps, Answer, Sent
<1>2. now \in Nat /\ Sound(UpToDate) /\ UpToDate \in Seq(Copies) /\ delay \in Nat /\ Len(UpToDate) \in Nat
  <2>1. now \in Nat /\ Sound(UpToDate)
    BY CopiesUpToDate
  <2>2. UpToDate \in Seq(Copies)
    BY <2>1 DEF Sound
  <2>3. delay \in Nat
    BY Bounds
  <2> QED BY <2>1, <2>2, <2>3
<1>3. Len(copies') = Len(UpToDate) + 1
    BY <1>1, <1>2
<1>4. Sent(q, delay) \in Copies
    BY <1>1, <1>2, <1>3, Bounds DEF Sent, Copies
<1>5. Sent(q, delay).message = Len(UpToDate) + 1 /\ Sent(q, delay).queue = q
    BY DEF Sent
<1> QED BY <1>1, <1>2, <1>4, <1>5, AppendedIsSound

LEMMA SendMessageKeeps ==
    ASSUME SqsInv, NEW q \in Names, NEW delay \in Delays, SendMessage(q, delay) PROVE SqsInv'
<1>1. Sound(copies') /\ UNCHANGED <<now, queues, settings>>
    BY SentIsACopy DEF SendMessage, Keeps, Answer
<1> QED BY <1>1, EverythingStands

Taken(q, limit) == Oldest(Receivable(q, QueueUpToDate(q, UpToDate)), limit)

(* What a receive does to the copies of a queue that is up to date.          *)
LEMMA ReceiveIs ==
    ASSUME SqsInv, NEW q \in Names, NEW limit, NEW timeout \in Timeouts,
           ReceiveMessage(q, limit, timeout)
    PROVE  LET all == QueueUpToDate(q, UpToDate)
           IN  /\ Sound(copies') /\ DOMAIN copies' = DOMAIN all /\ UNCHANGED <<now, queues, settings, ended>>
               /\ Taken(q, limit) \subseteq Receivable(q, all)
               /\ \A k \in DOMAIN all :
                    /\ copies'[k].message = all[k].message /\ copies'[k].sentAt = all[k].sentAt
                    /\ copies'[k].held = all[k].held /\ copies'[k].queue = all[k].queue
                    /\ copies'[k].receives = IF k \in Taken(q, limit) THEN all[k].receives + 1 ELSE all[k].receives
                    /\ k \notin Taken(q, limit) => copies'[k] = all[k]
                    /\ k \in Taken(q, limit) => copies'[k].visibleFrom = now + timeout
<1> DEFINE all == QueueUpToDate(q, UpToDate)
           taken == Taken(q, limit)
<1>1. copies' = [k \in DOMAIN all |-> IF k \in taken THEN ReceiveFor(all[k], timeout) ELSE all[k]]
    BY DEF ReceiveMessage, Taken
<1>2. UNCHANGED <<now, queues, settings, ended>>
    BY DEF ReceiveMessage
<1>3. now \in Nat /\ Sound(all) /\ all \in Seq(Copies) /\ timeout \in Nat
    BY AskedIsUpToDate, Bounds DEF Sound
<1>4. taken \subseteq Receivable(q, all)
    BY DEF Taken, Oldest
<1> HIDE DEF all, taken
<1>5. DOMAIN all = 1 .. Len(all) /\ Len(all) \in Nat
    BY <1>3
<1>6. ASSUME NEW k \in DOMAIN all
      PROVE  /\ copies'[k] \in Copies
             /\ copies'[k].message = all[k].message /\ copies'[k].sentAt = all[k].sentAt
             /\ copies'[k].held = all[k].held /\ copies'[k].queue = all[k].queue
             /\ copies'[k].receives = IF k \in taken THEN all[k].receives + 1 ELSE all[k].receives
             /\ k \notin taken => copies'[k] = all[k]
             /\ k \in taken => copies'[k].visibleFrom = now + timeout
  <2>1. all[k] \in Copies
    BY <1>3, Copied
  <2>2. copies'[k] = IF k \in taken THEN ReceiveFor(all[k], timeout) ELSE all[k]
    BY <1>1
  <2>3. ASSUME NEW copy \in Copies
        PROVE  LET it == ReceiveFor(copy, timeout)
               IN  /\ it \in Copies /\ it.message = copy.message /\ it.sentAt = copy.sentAt
                   /\ it.held = copy.held /\ it.queue = copy.queue
                   /\ it.receives = copy.receives + 1 /\ it.visibleFrom = now + timeout
    <3>1. now + timeout \in Nat /\ copy.receives + 1 \in Nat
      <4>1. copy.receives \in Nat
        BY DEF Copies
      <4> QED BY <1>3, <4>1
    <3> QED BY <3>1, ZenonT(60) DEF ReceiveFor, Copies
  <2>4. CASE k \in taken
    BY <2>1, <2>2, <2>3, <2>4
  <2>5. CASE k \notin taken
    BY <2>1, <2>2, <2>5
  <2> QED BY <2>4, <2>5
<1>7. copies' \in [1 .. Len(all) -> Copies]
    BY <1>1, <1>5, <1>6
<1>8. copies' \in Seq(Copies) /\ DOMAIN copies' = DOMAIN all
    BY <1>5, <1>7, ASequence
<1>9. Sound(copies')
    BY <1>3, <1>6, <1>8, SoundAgain
<1> QED BY <1>2, <1>4, <1>6, <1>8, <1>9 DEF all, taken

LEMMA ReceiveMessageKeeps ==
    ASSUME SqsInv, NEW q \in Names, NEW limit, NEW timeout \in Timeouts,
           ReceiveMessage(q, limit, timeout)
    PROVE  SqsInv'
<1>1. Sound(copies') /\ UNCHANGED <<now, queues, settings>>
    BY ReceiveIs
<1> QED BY <1>1, EverythingStands

LEMMA ChangeVisibilityIs ==
    ASSUME SqsInv, NEW q \in Names, NEW handle \in Handles(q), NEW timeout \in Timeouts,
           ChangeMessageVisibility(q, handle, timeout)
    PROVE  LET all == QueueUpToDate(q, UpToDate)
           IN  /\ Sound(copies') /\ DOMAIN copies' = DOMAIN all /\ UNCHANGED <<now, queues, settings, ended>>
               /\ \A k \in DOMAIN all :
                    /\ copies'[k].message = all[k].message /\ copies'[k].sentAt = all[k].sentAt
                    /\ copies'[k].held = all[k].held /\ copies'[k].queue = all[k].queue
                    /\ copies'[k].receives = all[k].receives
                    /\ k # handle.copy => copies'[k] = all[k]
<1> DEFINE all == QueueUpToDate(q, UpToDate)
           j == handle.copy
<1>1. copies' = [all EXCEPT ![j].visibleFrom = now + timeout]
    BY DEF ChangeMessageVisibility
<1>2. UNCHANGED <<now, queues, settings, ended>>
    BY DEF ChangeMessageVisibility
<1>3. now \in Nat /\ Sound(all) /\ all \in Seq(Copies) /\ timeout \in Nat
    BY AskedIsUpToDate, Bounds DEF Sound
<1> HIDE DEF all, j
<1>4. DOMAIN all = 1 .. Len(all) /\ Len(all) \in Nat
    BY <1>3
<1>5. ASSUME NEW k \in DOMAIN all
      PROVE  /\ copies'[k] \in Copies
             /\ copies'[k].message = all[k].message /\ copies'[k].sentAt = all[k].sentAt
             /\ copies'[k].held = all[k].held /\ copies'[k].queue = all[k].queue
             /\ copies'[k].receives = all[k].receives
             /\ k # j => copies'[k] = all[k]
  <2>1. all[k] \in Copies
    BY <1>3, Copied
  <2>2. copies'[k] = IF k = j THEN [all[k] EXCEPT !.visibleFrom = now + timeout] ELSE all[k]
    BY <1>1
  <2>3. ASSUME NEW copy \in Copies
        PROVE  LET it == [copy EXCEPT !.visibleFrom = now + timeout]
               IN  /\ it \in Copies /\ it.message = copy.message /\ it.sentAt = copy.sentAt
                   /\ it.held = copy.held /\ it.queue = copy.queue /\ it.receives = copy.receives
    <3>1. now + timeout \in Nat
      BY <1>3
    <3> QED BY <3>1 DEF Copies
  <2>4. CASE k = j
    BY <2>1, <2>2, <2>3, <2>4
  <2>5. CASE k # j
    BY <2>1, <2>2, <2>5
  <2> QED BY <2>4, <2>5
<1>6. copies' \in [1 .. Len(all) -> Copies]
    BY <1>1, <1>4, <1>5
<1>7. copies' \in Seq(Copies) /\ DOMAIN copies' = DOMAIN all
    BY <1>4, <1>6, ASequence
<1>8. Sound(copies')
    BY <1>3, <1>5, <1>7, SoundAgain
<1> QED BY <1>2, <1>5, <1>7, <1>8 DEF all, j

LEMMA ChangeVisibilityKeeps ==
    ASSUME SqsInv, NEW q \in Names, NEW handle \in Handles(q), NEW timeout \in Timeouts,
           ChangeMessageVisibility(q, handle, timeout)
    PROVE  SqsInv'
<1>1. Sound(copies') /\ UNCHANGED <<now, queues, settings>>
    BY ChangeVisibilityIs
<1> QED BY <1>1, EverythingStands

LEMMA RequestKeeps == ASSUME SqsInv, NEW q \in Names, Request(q) PROVE SqsInv'
BY CreateQueueKeeps, SetQueueAttributesKeeps, DeleteQueueKeeps, PurgeQueueKeeps, SendMessageKeeps,
   ReceiveMessageKeeps, DeleteMessageKeeps DEF Request

LEMMA SqsStutters == ASSUME SqsInv, UNCHANGED vars PROVE SqsInv'
<1>1. UNCHANGED <<now, queues, settings, copies>>
    BY DEF vars
<1> QED BY <1>1, EverythingStands DEF SqsInv

LEMMA SqsStep == ASSUME SqsInv, [Next]_vars PROVE SqsInv'
BY TimePassesKeeps, LookKeeps, RequestKeeps, ChangeVisibilityKeeps, SqsStutters DEF Next

LEMMA SqsInvHolds == Spec => []SqsInv
BY SqsInitially, SqsStep, PTL DEF Spec

LEMMA SqsInvIsEnough == ASSUME SqsInv PROVE TypeOK /\ HeldOnce /\ NothingOutlivesItsQueue
<1>1. Range(queues) \subseteq Names
    BY DEF SqsInv, QueuesTyped, Range
<1>2. NothingOutlivesItsQueue
    BY Bounds DEF SqsInv, DefaultsBetweenQueues, Sound, HeldByQueues, HeldBy, Handles, NothingOutlivesItsQueue
<1> QED BY <1>1, <1>2 DEF SqsInv, ClockTyped, QueuesTyped, AttributesKept, Sound, HeldByQueues, OneHeld, TypeOK, HeldOnce

(* The queues, their attributes and every copy of a message have their       *)
(* types, and a copy that is held is held by a queue that is there.          *)
THEOREM SqsTypesHold == Spec => []TypeOK
BY SqsInvHolds, SqsInvIsEnough, PTL

(* Under a name that has no queue there is nothing of one that had it: no    *)
(* message, no receipt handle and no setting (SimSqsQueueStore.remove).  It  *)
(* takes that no copy, held or not, belongs to a queue that is gone.         *)
THEOREM NothingOutlivesItsQueueHolds == Spec => []NothingOutlivesItsQueue
BY SqsInvHolds, SqsInvIsEnough, PTL

(* A message is never held by two queues, nor twice by one, however the      *)
(* redrive policies chain, circle or change.                                 *)
THEOREM HeldOnceHolds == Spec => []HeldOnce
BY SqsInvHolds, SqsInvIsEnough, PTL

(* Bringing a queue up to date a second time at one instant changes nothing, *)
(* a queue that redrives to itself included.                                 *)
THEOREM UpToDateTwiceHolds == Spec => []BringingUpToDateTwice
<1>1. SqsInv => BringingUpToDateTwice
  <2> SUFFICES ASSUME SqsInv, NEW q \in Range(queues)
               PROVE  QueueUpToDate(q, QueueUpToDate(q, copies)) = QueueUpToDate(q, copies)
      BY DEF BringingUpToDateTwice
  <2> DEFINE once == QueueUpToDate(q, copies)
  <2>1. q \in Names
    BY DEF SqsInv, QueuesTyped, Range
  <2>2. Sound(once) /\ IsUpToDate(q, once)
    BY <2>1, NowIsANumber, QueueUpToDateRenews DEF SqsInv
  <2> HIDE DEF once
  <2>3. QueueUpToDate(q, once) = once
    BY <2>1, <2>2, NothingLeftToDo
  <2> QED BY <2>3 DEF once
<1> QED BY <1>1, SqsInvHolds, PTL

-----------------------------------------------------------------------------
(* Who hands out what.                                                       *)

LEMMA NothingHandedOut ==
    ASSUME SqsInv, NEW all, Renews(copies, all),
           \A k \in DOMAIN copies' : copies'[k].receives = IF k \in DOMAIN all THEN all[k].receives ELSE 0
    PROVE  \A k \in DOMAIN copies' : ~HandsOut(k)
<1> SUFFICES ASSUME NEW k \in DOMAIN copies' PROVE ~HandsOut(k)
    OBVIOUS
<1>1. CASE k \in DOMAIN copies
  <2>1. copies[k] \in Copies
    BY <1>1, Copied DEF SqsInv, Sound
  <2>2. k \in DOMAIN all /\ all[k] = [copies[k] EXCEPT !.held = all[k].held]
    BY <1>1 DEF Renews
  <2>3. all[k].receives = copies[k].receives
    BY <2>1, <2>2, SameCopy
  <2>4. copies'[k].receives = copies[k].receives /\ copies[k].receives \in Nat
    BY <2>1, <2>2, <2>3 DEF Copies
  <2> QED BY <1>1, <2>4 DEF HandsOut
<1>2. CASE k \notin DOMAIN copies
  <2>1. k \in DOMAIN all => all[k].receives = 0
    BY <1>2 DEF Renews
  <2>2. copies'[k].receives = 0
    BY <2>1
  <2> QED BY <1>2, <2>2 DEF HandsOut
<1> QED BY <1>1, <1>2

LEMMA CopiesStandStill == ASSUME SqsInv, UNCHANGED copies PROVE \A k \in DOMAIN copies' : ~HandsOut(k)
<1>1. Renews(copies, copies)
    BY RenewsItself DEF SqsInv, Sound
<1> QED BY <1>1, NothingHandedOut

LEMMA WithoutHandsOutNothing ==
    ASSUME SqsInv, NEW all, Sound(all), Renews(copies, all), NEW gone, copies' = Without(gone, all)
    PROVE  \A k \in DOMAIN copies' : ~HandsOut(k)
<1> DEFINE next == Without(gone, all)
<1>1. copies' = next /\ next = Without(gone, all)
    OBVIOUS
<1> HIDE DEF next
<1>2. /\ DOMAIN next = DOMAIN all
      /\ \A k \in DOMAIN all : all[k] \in Copies /\ next[k] = [all[k] EXCEPT !.held = next[k].held]
    BY <1>1, WithoutIsSound
<1>3. \A k \in DOMAIN all : next[k].receives = all[k].receives
    BY <1>2, SameCopy
<1> QED BY <1>1, <1>2, <1>3, NothingHandedOut

LEMMA UpToDateHandsOutNothing ==
    ASSUME SqsInv, copies' = UpToDate PROVE \A k \in DOMAIN copies' : ~HandsOut(k)
BY CopiesUpToDate, NothingHandedOut

LEMMA DeleteQueueHandsOutNothing ==
    ASSUME SqsInv, NEW q \in Names, DeleteQueue(q) PROVE \A k \in DOMAIN copies' : ~HandsOut(k)
<1>1. copies' = Forgotten(q, UpToDate) /\ Sound(UpToDate) /\ Renews(copies, UpToDate)
    BY CopiesUpToDate DEF DeleteQueue, Answer
<1>2. DOMAIN copies' = DOMAIN UpToDate /\ \A k \in DOMAIN UpToDate : copies'[k].receives = UpToDate[k].receives
    BY <1>1, ForgottenIsSound
<1> QED BY <1>1, <1>2, NothingHandedOut

LEMMA DeleteMessageHandsOutNothing ==
    ASSUME SqsInv, NEW q \in Names, NEW handle \in Handles(q), DeleteMessage(q, handle)
    PROVE  \A k \in DOMAIN copies' : ~HandsOut(k)
<1> DEFINE all == QueueUpToDate(q, UpToDate)
<1>1. PICK gone : copies' = Without(gone, all)
    BY DEF DeleteMessage, Answer
<1>2. Sound(all) /\ Renews(copies, all)
    BY AskedIsUpToDate
<1> HIDE DEF all
<1> QED BY <1>1, <1>2, WithoutHandsOutNothing

LEMMA SendMessageHandsOutNothing ==
    ASSUME SqsInv, NEW q \in Names, NEW delay \in Delays, SendMessage(q, delay)
    PROVE  \A k \in DOMAIN copies' : ~HandsOut(k)
<1>1. /\ copies' = Append(UpToDate, Sent(q, delay)) /\ DOMAIN copies' = 1 .. Len(UpToDate) + 1
      /\ Sound(UpToDate) /\ Renews(copies, UpToDate)
    BY CopiesUpToDate, SentIsACopy
<1>2. UpToDate \in Seq(Copies)
    BY <1>1 DEF Sound
<1>3. Sent(q, delay).receives = 0
    BY DEF Sent
<1>4. \A k \in DOMAIN copies' : copies'[k] = IF k \in DOMAIN UpToDate THEN UpToDate[k] ELSE Sent(q, delay)
    BY <1>1, <1>2
<1> QED BY <1>1, <1>3, <1>4, NothingHandedOut

LEMMA ChangeVisibilityHandsOutNothing ==
    ASSUME SqsInv, NEW q \in Names, NEW handle \in Handles(q), NEW timeout \in Timeouts,
           ChangeMessageVisibility(q, handle, timeout)
    PROVE  \A k \in DOMAIN copies' : ~HandsOut(k)
<1> DEFINE all == QueueUpToDate(q, UpToDate)
<1>1. /\ Renews(copies, all)
      /\ DOMAIN copies' = DOMAIN all /\ \A k \in DOMAIN all : copies'[k].receives = all[k].receives
    BY AskedIsUpToDate, ChangeVisibilityIs
<1> HIDE DEF all
<1> QED BY <1>1, NothingHandedOut

LEMMA OnlyTheTakenAreHandedOut ==
    ASSUME SqsInv, NEW q \in Names, NEW limit, NEW timeout \in Timeouts,
           ReceiveMessage(q, limit, timeout), NEW k \in DOMAIN copies', HandsOut(k)
    PROVE  k \in Taken(q, limit)
<1> DEFINE all == QueueUpToDate(q, UpToDate)
<1>1. /\ Renews(copies, all) /\ Sound(all) /\ DOMAIN copies' = DOMAIN all
      /\ \A j \in DOMAIN all : j \notin Taken(q, limit) => copies'[j] = all[j]
    BY AskedIsUpToDate, ReceiveIs
<1> HIDE DEF all
<1> SUFFICES ASSUME k \notin Taken(q, limit) PROVE FALSE
    OBVIOUS
<1>2. copies'[k] = all[k] /\ k \in DOMAIN all
    BY <1>1
<1>3. CASE k \in DOMAIN copies
  <2>1. copies[k] \in Copies
    BY <1>3, Copied DEF SqsInv, Sound
  <2>2. all[k] = [copies[k] EXCEPT !.held = all[k].held]
    BY <1>1, <1>3 DEF Renews
  <2>3. all[k].receives = copies[k].receives /\ copies[k].receives \in Nat
    BY <2>1, <2>2, SameCopy DEF Copies
  <2> QED BY <1>2, <1>3, <2>3 DEF HandsOut
<1>4. CASE k \notin DOMAIN copies
  <2>1. all[k].receives = 0
    BY <1>1, <1>2, <1>4 DEF Renews
  <2> QED BY <1>2, <1>4, <2>1 DEF HandsOut
<1> QED BY <1>3, <1>4

LEMMA RequestHandsOut ==
    ASSUME SqsInv, NEW q \in Names, Request(q), NEW k \in DOMAIN copies', HandsOut(k)
    PROVE  \E limit \in Limits, timeout \in Timeouts : ReceiveMessage(q, limit, timeout) /\ k \in Taken(q, limit)
<1>1. \A given \in Attributes(q) : ~CreateQueue(q, given)
    BY CopiesStandStill DEF CreateQueue
<1>2. \A given \in Attributes(q) : ~SetQueueAttributes(q, given)
    BY UpToDateHandsOutNothing DEF SetQueueAttributes, Keeps, Answer
<1>3. ~DeleteQueue(q)
    BY DeleteQueueHandsOutNothing
<1>4. ~PurgeQueue(q)
    BY CopiesUpToDate, WithoutHandsOutNothing DEF PurgeQueue, Answer
<1>5. \A delay \in Delays : ~SendMessage(q, delay)
    BY SendMessageHandsOutNothing
<1>6. \A handle \in Handles(q) : ~DeleteMessage(q, handle)
    BY DeleteMessageHandsOutNothing
<1> QED BY <1>1, <1>2, <1>3, <1>4, <1>5, <1>6, OnlyTheTakenAreHandedOut DEF Request

LEMMA OnlyReceivesHandOut ==
    ASSUME SqsInv, [Next]_vars, NEW k \in DOMAIN copies', HandsOut(k)
    PROVE  \E q \in Names, limit \in Limits, timeout \in Timeouts :
             ReceiveMessage(q, limit, timeout) /\ k \in Taken(q, limit)
<1>1. ~TimePasses /\ ~UNCHANGED vars
    BY CopiesStandStill DEF TimePasses, vars
<1>2. ~Look
    BY UpToDateHandsOutNothing DEF Look, Keeps, Answer
<1>3. \A q \in Names, timeout \in Timeouts : \A handle \in Handles(q) : ~ChangeMessageVisibility(q, handle, timeout)
    BY ChangeVisibilityHandsOutNothing
<1> QED BY <1>1, <1>2, <1>3, RequestHandsOut DEF Next

(* What is handed out is held by the queue that was asked, has not expired   *)
(* there, and is none it would give up on.                                   *)
LEMMA HandedOutIs ==
    ASSUME SqsInv, NEW q \in Names, NEW limit, NEW timeout \in Timeouts,
           ReceiveMessage(q, limit, timeout), NEW k \in Taken(q, limit)
    PROVE  /\ k \in DOMAIN copies' /\ copies'[k].queue = q
           /\ HasTarget(q) => copies'[k].receives <= settings[q].policy.limit
           /\ now < copies'[k].sentAt + settings[q].retention
           /\ Sound(copies')
<1> DEFINE all == QueueUpToDate(q, UpToDate)
<1>1. now \in Nat /\ Sound(all) /\ IsUpToDate(q, all)
    BY AskedIsUpToDate
<1>2. /\ Sound(copies') /\ DOMAIN copies' = DOMAIN all /\ Taken(q, limit) \subseteq Receivable(q, all)
      /\ \A j \in DOMAIN all :
           /\ copies'[j].sentAt = all[j].sentAt /\ copies'[j].queue = all[j].queue
           /\ copies'[j].receives = IF j \in Taken(q, limit) THEN all[j].receives + 1 ELSE all[j].receives
    BY ReceiveIs
<1> HIDE DEF all
<1>3. k \in HeldBy(q, all) /\ IsVisible(all[k])
    BY <1>2 DEF Receivable
<1>4. k \in DOMAIN all /\ all[k].queue = q
    BY <1>3 DEF HeldBy
<1>5. all[k].receives \in Nat /\ all[k].sentAt \in Nat
    BY <1>1, <1>4, Copied DEF Sound
<1>6. settings[q].policy.limit \in Nat \ {0} /\ settings[q].retention \in Nat
    BY PolicyOf, RetentionOf DEF SqsInv
<1>7. now < all[k].sentAt + settings[q].retention
  <2>1. ~HasExpired(all[k])
    BY <1>1, <1>3 DEF IsUpToDate
  <2> QED BY <1>1, <1>4, <1>5, <1>6, <2>1 DEF HasExpired
<1>8. HasTarget(q) => all[k].receives + 1 <= settings[q].policy.limit
  <2>1. HasTarget(q) => k \notin Exhausted(q, all)
    BY <1>1, <1>3 DEF IsUpToDate
  <2>2. HasTarget(q) => ~(all[k].receives >= settings[q].policy.limit)
    BY <1>3, <2>1 DEF Exhausted
  <2> QED BY <1>5, <1>6, <2>2
<1> QED BY <1>2, <1>4, <1>7, <1>8

(* A queue with somewhere to move a message to hands it out as often as its  *)
(* redrive policy of the moment says and no more, whatever the policy was at *)
(* the receives before.                                                      *)
THEOREM GivesUpInTimeHolds == Spec => GivesUpInTime
<1>1. SqsInv /\ [Next]_vars =>
        [\A k \in DOMAIN copies' : HandsOut(k) =>
           LET policy == settings[copies'[k].queue].policy
           IN  policy.target # NoQueue /\ Exists(policy.target)
                 => copies'[k].receives <= policy.limit]_vars
  <2> SUFFICES ASSUME SqsInv, [Next]_vars, NEW k \in DOMAIN copies', HandsOut(k),
                      HasTarget(copies'[k].queue)
               PROVE  copies'[k].receives <= settings[copies'[k].queue].policy.limit
      BY DEF HasTarget
  <2>1. PICK q \in Names, limit \in Limits, timeout \in Timeouts :
          ReceiveMessage(q, limit, timeout) /\ k \in Taken(q, limit)
    BY OnlyReceivesHandOut
  <2> QED BY <2>1, HandedOutIs
<1> QED BY <1>1, SqsInvHolds, PTL DEF Spec, GivesUpInTime

(* No queue hands out a message that was sent longer ago than that queue     *)
(* keeps a message, whichever queues the message came through.               *)
THEOREM RetentionHolds == Spec => RetentionRunsFromTheSend
<1>1. SqsInv /\ [Next]_vars =>
        [\A k \in DOMAIN copies' : HandsOut(k) =>
           now < copies'[copies'[k].message].sentAt + settings[copies'[k].queue].retention]_vars
  <2> SUFFICES ASSUME SqsInv, [Next]_vars, NEW k \in DOMAIN copies', HandsOut(k)
               PROVE  now < copies'[copies'[k].message].sentAt + settings[copies'[k].queue].retention
      OBVIOUS
  <2>1. PICK q \in Names, limit \in Limits, timeout \in Timeouts :
          ReceiveMessage(q, limit, timeout) /\ k \in Taken(q, limit)
    BY OnlyReceivesHandOut
  <2>2. copies'[k].queue = q /\ now < copies'[k].sentAt + settings[q].retention /\ Rooted(copies')
    BY <2>1, HandedOutIs DEF Sound
  <2>3. copies'[copies'[k].message].sentAt = copies'[k].sentAt
    BY <2>2 DEF Rooted
  <2> QED BY <2>2, <2>3
<1> QED BY <1>1, SqsInvHolds, PTL DEF Spec, RetentionRunsFromTheSend

-----------------------------------------------------------------------------
(* What the copies say of a message.                                         *)

SentIn(m, all) == m \in DOMAIN all /\ all[m].message = m

KeptIn(m, all) == \E k \in DOMAIN all : all[k].held /\ all[k].message = m

ReceiptsIn(m, all) ==
    UNION {{<<k, receive>> : receive \in 1 .. all[k].receives} : k \in {k \in DOMAIN all : all[k].message = m}}

FateIn(m, all, over) ==
    IF ~SentIn(m, all) THEN "unsent" ELSE
    IF KeptIn(m, all) THEN "kept" ELSE
    IF m \in over THEN "finished" ELSE "outlived"

(* What somebody is finished with was sent, and no queue holds it still.     *)
FinishedAreGone ==
    /\ ended \subseteq 1 .. MaxCopies
    /\ \A m \in ended : SentIn(m, copies) /\ ~KeptIn(m, copies)

DeliveryInv == SqsInv /\ FinishedAreGone

Messages == 1 .. MaxCopies

SentTimes(all) == [m \in Messages |-> IF SentIn(m, all) THEN all[m].sentAt ELSE 0]

Promised(all, over) ==
    <<[m \in Messages |-> FateIn(m, all, over)], SentTimes(all), [m \in Messages |-> ReceiptsIn(m, all)]>>

LEMMA FateIs ==
    /\ [m \in 1 .. MaxCopies |-> FateOf(m)] = [m \in Messages |-> FateIn(m, copies, ended)]
    /\ [m \in 1 .. MaxCopies |-> IF SentAs(m) THEN copies[m].sentAt ELSE 0] = SentTimes(copies)
    /\ [m \in 1 .. MaxCopies |-> ReceiptsOf(m)] = [m \in Messages |-> ReceiptsIn(m, copies)]
<1>1. \A m : FateOf(m) = FateIn(m, copies, ended)
    BY DEF FateOf, FateIn, SentAs, SentIn, CopiesOf, KeptIn
<1>2. \A m : SentAs(m) <=> SentIn(m, copies)
    BY DEF SentAs, SentIn
<1>3. \A m : ReceiptsOf(m) = ReceiptsIn(m, copies)
    BY DEF ReceiptsOf, ReceiptsIn, CopiesOf
<1> QED BY <1>1, <1>2, <1>3 DEF SentTimes, Messages

LEMMA ReceiptsAre ==
    \A m : ReceiptsOf(m) = ReceiptsIn(m, copies) /\ ReceiptsOf(m)' = ReceiptsIn(m, copies')
BY DEF ReceiptsOf, ReceiptsIn, CopiesOf

LEMMA FateThen ==
    /\ [m \in 1 .. MaxCopies |-> FateOf(m)]' = [m \in Messages |-> FateIn(m, copies', ended')]
    /\ [m \in 1 .. MaxCopies |-> IF SentAs(m) THEN copies[m].sentAt ELSE 0]' = SentTimes(copies')
    /\ [m \in 1 .. MaxCopies |-> ReceiptsOf(m)]' = [m \in Messages |-> ReceiptsIn(m, copies')]
<1>1. \A m : FateOf(m)' = FateIn(m, copies', ended')
    BY DEF FateOf, FateIn, SentAs, SentIn, CopiesOf, KeptIn
<1>2. \A m : SentAs(m)' <=> SentIn(m, copies')
    BY DEF SentAs, SentIn
<1>3. \A m : ReceiptsOf(m)' = ReceiptsIn(m, copies')
    BY DEF ReceiptsOf, ReceiptsIn, CopiesOf
<1> QED BY <1>1, <1>2, <1>3 DEF SentTimes, Messages

(* Bringing queues up to date sends nothing, hands out nothing, and lets go  *)
(* only of what has been kept long enough.                                   *)
LEMMA RenewalDelivers ==
    ASSUME Sound(copies), NEW all, Sound(all), Renews(copies, all), NEW m
    PROVE  /\ SentIn(m, all) <=> SentIn(m, copies)
           /\ KeptIn(m, all) => KeptIn(m, copies)
           /\ KeptIn(m, copies) => SentIn(m, copies)
           /\ SentIn(m, copies) => all[m].sentAt = copies[m].sentAt
           /\ KeptIn(m, copies) /\ ~KeptIn(m, all) => copies[m].sentAt + Min(Retentions) <= now
           /\ ReceiptsIn(m, all) = ReceiptsIn(m, copies)
<1>1. /\ DOMAIN copies \subseteq DOMAIN all
      /\ \A k \in DOMAIN copies :
           /\ all[k].message = copies[k].message /\ all[k].sentAt = copies[k].sentAt
           /\ all[k].receives = copies[k].receives
           /\ all[k].held => copies[k].held
  <2>1. \A k \in DOMAIN copies : copies[k] \in Copies
    BY Copied DEF Sound
  <2>2. /\ DOMAIN copies \subseteq DOMAIN all
        /\ \A k \in DOMAIN copies : /\ all[k] = [copies[k] EXCEPT !.held = all[k].held]
                                    /\ all[k].held => copies[k].held
    BY DEF Renews
  <2>3. ASSUME NEW k \in DOMAIN copies
        PROVE  /\ all[k].message = copies[k].message /\ all[k].sentAt = copies[k].sentAt
               /\ all[k].receives = copies[k].receives
    <3>1. copies[k] \in Copies /\ all[k] = [copies[k] EXCEPT !.held = all[k].held]
      BY <2>1, <2>2
    <3> QED BY <3>1, SameCopy
  <2> QED BY <2>2, <2>3
<1>2. \A k \in DOMAIN all \ DOMAIN copies :
        /\ all[k].receives = 0
        /\ \E l \in DOMAIN copies : copies[l].held /\ copies[l].message = all[k].message
    BY DEF Renews
<1>3. \A k \in DOMAIN copies : /\ copies[k].message \in DOMAIN copies
                               /\ copies[copies[k].message].message = copies[k].message
                               /\ copies[copies[k].message].sentAt = copies[k].sentAt
    BY DEF Sound, Rooted
<1>4. SentIn(m, all) <=> SentIn(m, copies)
  <2>1. SentIn(m, all) => m \in DOMAIN copies
    BY <1>2, <1>3 DEF SentIn
  <2> QED BY <1>1, <2>1 DEF SentIn
<1>5. KeptIn(m, all) => KeptIn(m, copies)
  <2> SUFFICES ASSUME NEW k \in DOMAIN all, all[k].held, all[k].message = m PROVE KeptIn(m, copies)
      BY DEF KeptIn
  <2>1. CASE k \in DOMAIN copies
    BY <1>1, <2>1 DEF KeptIn
  <2>2. CASE k \notin DOMAIN copies
    BY <1>2, <2>2 DEF KeptIn
  <2> QED BY <2>1, <2>2
<1>6. KeptIn(m, copies) => SentIn(m, copies)
    BY <1>3 DEF KeptIn, SentIn
<1>7. SentIn(m, copies) => all[m].sentAt = copies[m].sentAt
    BY <1>1 DEF SentIn
<1>8. ASSUME KeptIn(m, copies), ~KeptIn(m, all) PROVE copies[m].sentAt + Min(Retentions) <= now
  <2>1. PICK k \in DOMAIN copies : copies[k].held /\ copies[k].message = m
    BY <1>8 DEF KeptIn
  <2>2. ~ \E l \in DOMAIN all : all[l].held /\ all[l].message = copies[k].message
    BY <1>8, <2>1 DEF KeptIn
  <2>3. copies[k].sentAt + Min(Retentions) <= now
    BY <2>1, <2>2 DEF Renews
  <2> QED BY <1>3, <2>1, <2>3
<1>9. ReceiptsIn(m, all) = ReceiptsIn(m, copies)
  <2>1. ASSUME NEW k \in DOMAIN all, all[k].message = m, 1 .. all[k].receives # {} PROVE k \in DOMAIN copies
    BY <1>2, <2>1
  <2> QED BY <1>1, <2>1 DEF ReceiptsIn
<1> QED BY <1>4, <1>5, <1>6, <1>7, <1>8, <1>9

(* What a request may do to the copies it has brought up to date.            *)
Answers(all, next, done, new) ==
    /\ done \subseteq Messages /\ new \subseteq Messages
    /\ \A m \in Messages :
         /\ SentIn(m, next) <=> SentIn(m, all) \/ m \in new
         /\ KeptIn(m, next) <=> (KeptIn(m, all) /\ m \notin done) \/ m \in new
         /\ SentIn(m, all) => next[m].sentAt = all[m].sentAt
    /\ \A m \in done : KeptIn(m, all)
    /\ \A m \in new : ~SentIn(m, all) /\ next[m].sentAt = now

Outlive(all) == {m \in Messages : KeptIn(m, copies) /\ ~KeptIn(m, all)}

LEMMA FatesFollow ==
    ASSUME DeliveryInv, NEW all, Sound(all), Renews(copies, all), NEW done, NEW new,
           Answers(all, copies', done, new), ended' = ended \cup done
    PROVE  LET fate == [m \in Messages |-> FateIn(m, copies, ended)]
               sentAt == SentTimes(copies)
           IN  /\ \A m \in Outlive(all) : fate[m] = "kept" /\ sentAt[m] + Min(Retentions) <= now
               /\ \A m \in done : fate[m] = "kept" /\ m \notin Outlive(all)
               /\ \A m \in new : fate[m] = "unsent"
               /\ [m \in Messages |-> FateIn(m, copies', ended')] =
                    [m \in Messages |-> IF m \in Outlive(all) THEN "outlived" ELSE
                                        IF m \in done THEN "finished" ELSE
                                        IF m \in new THEN "kept" ELSE fate[m]]
               /\ SentTimes(copies') = [m \in Messages |-> IF m \in new THEN now ELSE sentAt[m]]
               /\ FinishedAreGone'
<1> DEFINE fate == [m \in Messages |-> FateIn(m, copies, ended)]
           sentAt == SentTimes(copies)
           next == copies'
           over == ended'
<1>1. \A m \in Messages :
        /\ SentIn(m, all) <=> SentIn(m, copies)
        /\ KeptIn(m, all) => KeptIn(m, copies)
        /\ KeptIn(m, copies) => SentIn(m, copies)
        /\ SentIn(m, copies) => all[m].sentAt = copies[m].sentAt
        /\ KeptIn(m, copies) /\ ~KeptIn(m, all) => copies[m].sentAt + Min(Retentions) <= now
    BY RenewalDelivers DEF DeliveryInv, SqsInv
<1>2. /\ done \subseteq Messages /\ new \subseteq Messages
      /\ \A m \in Messages :
           /\ SentIn(m, next) <=> SentIn(m, all) \/ m \in new
           /\ KeptIn(m, next) <=> (KeptIn(m, all) /\ m \notin done) \/ m \in new
           /\ SentIn(m, all) => next[m].sentAt = all[m].sentAt
      /\ \A m \in done : KeptIn(m, all)
      /\ \A m \in new : ~SentIn(m, all) /\ next[m].sentAt = now
    BY DEF Answers
<1>3. over = ended \cup done
    OBVIOUS
<1>4. ended \subseteq Messages /\ \A m \in ended : SentIn(m, copies) /\ ~KeptIn(m, copies)
    BY DEF DeliveryInv, FinishedAreGone, Messages
<1> HIDE DEF next, over
<1>5. ASSUME NEW m \in Messages
      PROVE  FateIn(m, next, over) = IF m \in Outlive(all) THEN "outlived" ELSE
                                     IF m \in done THEN "finished" ELSE
                                     IF m \in new THEN "kept" ELSE FateIn(m, copies, ended)
    BY <1>1, <1>2, <1>3, <1>4 DEF FateIn, Outlive
<1>6. \A m \in Outlive(all) : fate[m] = "kept" /\ sentAt[m] + Min(Retentions) <= now
    BY <1>1 DEF Outlive, FateIn, SentTimes
<1>7. \A m \in done : fate[m] = "kept" /\ m \notin Outlive(all)
    BY <1>1, <1>2 DEF Outlive, FateIn
<1>8. \A m \in new : fate[m] = "unsent"
    BY <1>1, <1>2 DEF FateIn
<1>9. SentTimes(next) = [m \in Messages |-> IF m \in new THEN now ELSE sentAt[m]]
  <2>1. ASSUME NEW m \in Messages
        PROVE  (IF SentIn(m, next) THEN next[m].sentAt ELSE 0) =
                 IF m \in new THEN now ELSE IF SentIn(m, copies) THEN copies[m].sentAt ELSE 0
    BY <1>1, <1>2
  <2> QED BY <2>1 DEF SentTimes
<1>10. over \subseteq Messages /\ \A m \in over : SentIn(m, next) /\ ~KeptIn(m, next)
    BY <1>1, <1>2, <1>3, <1>4
<1>11. FinishedAreGone'
    BY <1>10 DEF FinishedAreGone, SentIn, KeptIn, Messages, next, over
<1> QED BY <1>5, <1>6, <1>7, <1>8, <1>9, <1>11 DEF next, over

(* A request that hands out nothing is one the promise allows.               *)
LEMMA QuietlyDelivers ==
    ASSUME DeliveryInv, NEW all, Sound(all), Renews(copies, all), NEW done, NEW new,
           Answers(all, copies', done, new), ended' = ended \cup done, UNCHANGED now,
           \A m \in Messages : ReceiptsIn(m, copies') = ReceiptsIn(m, all)
    PROVE  Delivery!Request(Outlive(all), {}, done, new) /\ FinishedAreGone'
<1> DEFINE fate == [m \in Messages |-> FateIn(m, copies, ended)]
           sentAt == SentTimes(copies)
<1>1. /\ \A m \in Outlive(all) : fate[m] = "kept" /\ sentAt[m] + Min(Retentions) <= now
      /\ \A m \in done : fate[m] = "kept" /\ m \notin Outlive(all)
      /\ \A m \in new : fate[m] = "unsent"
      /\ [m \in Messages |-> FateIn(m, copies', ended')] =
           [m \in Messages |-> IF m \in Outlive(all) THEN "outlived" ELSE
                               IF m \in done THEN "finished" ELSE
                               IF m \in new THEN "kept" ELSE fate[m]]
      /\ SentTimes(copies') = [m \in Messages |-> IF m \in new THEN now ELSE sentAt[m]]
      /\ FinishedAreGone'
    BY FatesFollow
<1>2. \A m \in Messages : ReceiptsIn(m, copies') = ReceiptsIn(m, copies)
    BY RenewalDelivers DEF DeliveryInv, SqsInv
<1>3. /\ [m \in Messages |-> ReceiptsIn(m, copies')] = [m \in Messages |-> ReceiptsIn(m, copies)]
      /\ DOMAIN [m \in Messages |-> ReceiptsIn(m, copies')] = Messages
    BY <1>2
<1> HIDE DEF fate, sentAt
<1>4. Delivery!Request(Outlive(all), {}, done, new)
    BY <1>1, <1>3, FateIs, FateThen
    DEF Delivery!Request, Delivery!Outlived, Delivery!Become, fate, sentAt, Messages
<1> QED BY <1>1, <1>4

(* A request that lets go of some of what the queues hold, or of nothing.    *)
LEMMA LettingGoDelivers ==
    ASSUME DeliveryInv, NEW all, Sound(all), Renews(copies, all), NEW gone \in SUBSET DOMAIN all,
           Sound(copies'), DOMAIN copies' = DOMAIN all, UNCHANGED now,
           \A k \in DOMAIN all :
             /\ copies'[k].message = all[k].message /\ copies'[k].sentAt = all[k].sentAt
             /\ copies'[k].receives = all[k].receives
             /\ copies'[k].held <=> all[k].held /\ k \notin gone,
           ended' = ended \cup {all[k].message : k \in {k \in gone : all[k].held}}
    PROVE  Delivery!Next /\ FinishedAreGone'
<1> DEFINE done == {all[k].message : k \in {k \in gone : all[k].held}}
           next == copies'
<1>1. /\ DOMAIN next = DOMAIN all
      /\ \A k \in DOMAIN all :
           /\ next[k].message = all[k].message /\ next[k].sentAt = all[k].sentAt
           /\ next[k].receives = all[k].receives
           /\ next[k].held <=> all[k].held /\ k \notin gone
    OBVIOUS
<1>2. \A k \in DOMAIN all : all[k].message \in Messages
    BY Copied DEF Sound, Messages
<1>3. done \subseteq Messages /\ \A m \in done : KeptIn(m, all)
    BY <1>2 DEF KeptIn
<1>4. ended' = ended \cup done
    OBVIOUS
<1> HIDE DEF next
<1>5. \A m : SentIn(m, next) <=> SentIn(m, all)
    BY <1>1 DEF SentIn
<1>6. \A m : KeptIn(m, next) <=> KeptIn(m, all) /\ m \notin done
    BY <1>1 DEF KeptIn, Sound, OneHeld
<1>7. \A m : SentIn(m, all) => next[m].sentAt = all[m].sentAt
    BY <1>1 DEF SentIn
<1>8. \A m : ReceiptsIn(m, next) = ReceiptsIn(m, all)
    BY <1>1 DEF ReceiptsIn
<1> HIDE DEF done
<1>9. Answers(all, next, done, {})
    BY <1>3, <1>5, <1>6, <1>7 DEF Answers
<1>10. Delivery!Request(Outlive(all), {}, done, {}) /\ FinishedAreGone'
    BY <1>4, <1>8, <1>9, QuietlyDelivers DEF next
<1>11. Outlive(all) \in SUBSET Messages /\ done \in SUBSET Messages
    BY <1>3 DEF Outlive
<1> QED BY <1>10, <1>11 DEF Delivery!Next, Messages

LEMMA WithoutLetsGo ==
    ASSUME NEW all, Sound(all), NEW gone, copies' = Without(gone, all)
    PROVE  /\ Sound(copies') /\ DOMAIN copies' = DOMAIN all
           /\ \A k \in DOMAIN all :
                /\ copies'[k].message = all[k].message /\ copies'[k].sentAt = all[k].sentAt
                /\ copies'[k].receives = all[k].receives
                /\ copies'[k].held <=> all[k].held /\ k \notin gone
<1> DEFINE next == copies'
<1>1. next = Without(gone, all)
    OBVIOUS
<1> HIDE DEF next
<1>2. /\ Sound(next) /\ DOMAIN next = DOMAIN all
      /\ \A k \in DOMAIN all :
           /\ all[k] \in Copies /\ next[k] = [all[k] EXCEPT !.held = next[k].held]
           /\ next[k].held <=> all[k].held /\ k \notin gone
    BY <1>1, WithoutIsSound
<1>3. ASSUME NEW k \in DOMAIN all
      PROVE  /\ next[k].message = all[k].message /\ next[k].sentAt = all[k].sentAt
             /\ next[k].receives = all[k].receives
  <2>1. all[k] \in Copies /\ next[k] = [all[k] EXCEPT !.held = next[k].held]
    BY <1>2
  <2> QED BY <2>1, SameCopy
<1> QED BY <1>2, <1>3 DEF next

LEMMA BringingUpToDateDelivers ==
    ASSUME DeliveryInv, copies' = UpToDate, UNCHANGED <<now, ended>> PROVE Delivery!Next /\ FinishedAreGone'
<1> DEFINE all == UpToDate
<1>1. Sound(all) /\ Renews(copies, all)
    BY CopiesUpToDate DEF DeliveryInv
<1> DEFINE gone == {}
<1>2. /\ copies' = all /\ gone \in SUBSET DOMAIN all /\ \A k : k \notin gone
      /\ ended' = ended \cup {all[k].message : k \in {k \in gone : all[k].held}}
    OBVIOUS
<1> HIDE DEF all, gone
<1>3. \A k \in DOMAIN all : copies'[k].held <=> all[k].held /\ k \notin gone
    BY <1>2
<1> QED BY <1>1, <1>2, <1>3, LettingGoDelivers

LEMMA PurgeQueueDelivers ==
    ASSUME DeliveryInv, NEW q \in Names, PurgeQueue(q) PROVE Delivery!Next /\ FinishedAreGone'
<1> DEFINE all == UpToDate
           gone == HeldBy(q, all)
<1>1. Sound(all) /\ Renews(copies, all)
    BY CopiesUpToDate DEF DeliveryInv
<1>2. /\ copies' = Without(gone, all) /\ UNCHANGED now
      /\ ended' = ended \cup {all[k].message : k \in gone}
    BY DEF PurgeQueue, Answer, MessagesHeld
<1>3. gone \in SUBSET DOMAIN all /\ gone = {k \in gone : all[k].held}
    BY DEF HeldBy
<1> HIDE DEF all, gone
<1>4. /\ Sound(copies') /\ DOMAIN copies' = DOMAIN all
      /\ \A k \in DOMAIN all :
           /\ copies'[k].message = all[k].message /\ copies'[k].sentAt = all[k].sentAt
           /\ copies'[k].receives = all[k].receives
           /\ copies'[k].held <=> all[k].held /\ k \notin gone
    BY <1>1, <1>2, WithoutLetsGo
<1>5. ended' = ended \cup {all[k].message : k \in {k \in gone : all[k].held}}
    BY <1>2, <1>3
<1> QED BY <1>1, <1>2, <1>3, <1>4, <1>5, LettingGoDelivers

LEMMA DeleteQueueDelivers ==
    ASSUME DeliveryInv, NEW q \in Names, DeleteQueue(q) PROVE Delivery!Next /\ FinishedAreGone'
<1> DEFINE all == UpToDate
           gone == HeldBy(q, all)
<1>1. Sound(all) /\ Renews(copies, all)
    BY CopiesUpToDate DEF DeliveryInv
<1>2. /\ copies' = Forgotten(q, all) /\ UNCHANGED now
      /\ ended' = ended \cup {all[k].message : k \in gone}
    BY DEF DeleteQueue, Answer, MessagesHeld
<1> HIDE DEF all
<1>3. /\ gone \in SUBSET DOMAIN all /\ gone = {k \in gone : all[k].held}
      /\ \A k \in DOMAIN all : all[k].held => (all[k].queue # q <=> k \notin gone)
    BY DEF HeldBy
<1> HIDE DEF gone
<1>4. /\ Sound(copies') /\ DOMAIN copies' = DOMAIN all
      /\ \A k \in DOMAIN all :
           /\ copies'[k].message = all[k].message /\ copies'[k].sentAt = all[k].sentAt
           /\ copies'[k].receives = all[k].receives
           /\ copies'[k].held <=> all[k].held /\ all[k].queue # q
    BY <1>1, <1>2, ForgottenIsSound
<1>5. ended' = ended \cup {all[k].message : k \in {k \in gone : all[k].held}}
    BY <1>2, <1>3
<1>6. \A k \in DOMAIN all : copies'[k].held <=> all[k].held /\ k \notin gone
    BY <1>3, <1>4
<1> QED BY <1>1, <1>2, <1>3, <1>4, <1>5, <1>6, LettingGoDelivers

LEMMA DeleteMessageDelivers ==
    ASSUME DeliveryInv, NEW q \in Names, NEW handle \in Handles(q), DeleteMessage(q, handle)
    PROVE  Delivery!Next /\ FinishedAreGone'
<1> DEFINE all == QueueUpToDate(q, UpToDate)
           j == handle.copy
           gone == IF HoldsReceiptHandle(all[j], handle.receive) THEN {j} ELSE {}
<1>1. Sound(all) /\ Renews(copies, all)
    BY AskedIsUpToDate DEF DeliveryInv
<1>2. /\ copies' = Without(gone, all) /\ UNCHANGED now
      /\ ended' = ended \cup (IF Finishes(handle, all) THEN {all[j].message} ELSE {})
    BY DEF DeleteMessage, Answer
<1>3. j \in DOMAIN copies
    BY DEF Handles
<1> HIDE DEF all
<1>4. j \in DOMAIN all
    BY <1>1, <1>3 DEF Renews
<1>5. gone \in SUBSET DOMAIN all
    BY <1>4
<1>6. (IF Finishes(handle, all) THEN {all[j].message} ELSE {}) = {all[k].message : k \in {k \in gone : all[k].held}}
    BY DEF Finishes, HoldsReceiptHandle
<1> HIDE DEF gone, j
<1>7. /\ Sound(copies') /\ DOMAIN copies' = DOMAIN all
      /\ \A k \in DOMAIN all :
           /\ copies'[k].message = all[k].message /\ copies'[k].sentAt = all[k].sentAt
           /\ copies'[k].receives = all[k].receives
           /\ copies'[k].held <=> all[k].held /\ k \notin gone
    BY <1>1, <1>2, WithoutLetsGo
<1>8. ended' = ended \cup {all[k].message : k \in {k \in gone : all[k].held}}
    BY <1>2, <1>6
<1> QED BY <1>1, <1>2, <1>5, <1>7, <1>8, LettingGoDelivers

LEMMA ChangeVisibilityDelivers ==
    ASSUME DeliveryInv, NEW q \in Names, NEW handle \in Handles(q), NEW timeout \in Timeouts,
           ChangeMessageVisibility(q, handle, timeout)
    PROVE  Delivery!Next /\ FinishedAreGone'
<1> DEFINE all == QueueUpToDate(q, UpToDate)
<1>1. /\ Sound(all) /\ Renews(copies, all)
      /\ Sound(copies') /\ DOMAIN copies' = DOMAIN all /\ UNCHANGED <<now, ended>>
      /\ \A k \in DOMAIN all :
           /\ copies'[k].message = all[k].message /\ copies'[k].sentAt = all[k].sentAt
           /\ copies'[k].receives = all[k].receives
           /\ copies'[k].held = all[k].held
    BY AskedIsUpToDate, ChangeVisibilityIs DEF DeliveryInv
<1> DEFINE gone == {}
<1>2. /\ gone \in SUBSET DOMAIN all /\ \A k : k \notin gone
      /\ ended' = ended \cup {all[k].message : k \in {k \in gone : all[k].held}}
    BY <1>1
<1> HIDE DEF all, gone
<1>3. \A k \in DOMAIN all : copies'[k].held <=> all[k].held /\ k \notin gone
    BY <1>1, <1>2
<1> QED BY <1>1, <1>2, <1>3, LettingGoDelivers

LEMMA AppendingDelivers ==
    ASSUME DeliveryInv, NEW all, Sound(all), Renews(copies, all), NEW it \in Copies,
           it.message = Len(all) + 1, it.held, it.sentAt = now, it.receives = 0,
           copies' = Append(all, it), UNCHANGED <<now, ended>>
    PROVE  Delivery!Next /\ FinishedAreGone'
<1> DEFINE n == Len(all) + 1
           next == copies'
           none == {}
           new == {n}
<1>1. n \in Messages
    BY DEF Copies, Messages
<1>2. it.message = n
    OBVIOUS
<1>3. /\ DOMAIN all = 1 .. n - 1 /\ n \in Nat \ {0} /\ n \notin DOMAIN all /\ n \in DOMAIN next
      /\ \A k \in DOMAIN next : k \in DOMAIN all \/ k = n
      /\ \A k \in DOMAIN all : k \in DOMAIN next /\ next[k] = all[k]
      /\ next[n] = it
  <2>1. all \in Seq(Copies)
    BY DEF Sound
  <2> QED BY <2>1
<1> HIDE DEF n, next
<1>4. ~SentIn(n, all) /\ ~KeptIn(n, all)
    BY <1>3 DEF SentIn, KeptIn, Sound, Rooted
<1>5. ASSUME NEW m \in Messages
      PROVE  /\ SentIn(m, next) <=> SentIn(m, all) \/ m \in new
             /\ SentIn(m, all) => next[m].sentAt = all[m].sentAt
  <2>1. m \in DOMAIN all => (SentIn(m, next) <=> SentIn(m, all))
    BY <1>3 DEF SentIn
  <2>2. m \notin DOMAIN all => (SentIn(m, next) <=> m = n)
    BY <1>2, <1>3 DEF SentIn
  <2> QED BY <1>3, <2>1, <2>2 DEF SentIn
<1>6. ASSUME NEW m \in Messages PROVE KeptIn(m, next) <=> KeptIn(m, all) \/ m \in new
  <2>1. KeptIn(m, all) => KeptIn(m, next)
    BY <1>3 DEF KeptIn
  <2>2. KeptIn(n, next)
    BY <1>2, <1>3 DEF KeptIn
  <2>3. KeptIn(m, next) => KeptIn(m, all) \/ m = n
    BY <1>2, <1>3 DEF KeptIn
  <2> QED BY <2>1, <2>2, <2>3
<1>7. Answers(all, next, none, new)
    BY <1>1, <1>3, <1>4, <1>5, <1>6 DEF Answers
<1>8. ASSUME NEW m \in Messages PROVE ReceiptsIn(m, next) = ReceiptsIn(m, all)
  <2>1. \A k \in DOMAIN next : 1 .. next[k].receives # {} => k \in DOMAIN all
    BY <1>3
  <2>2. ASSUME NEW x PROVE x \in ReceiptsIn(m, next) <=> x \in ReceiptsIn(m, all)
    BY <1>3, <2>1 DEF ReceiptsIn
  <2> QED BY <2>2
<1>9. ended' = ended \cup none /\ UNCHANGED now
    OBVIOUS
<1> HIDE DEF none, new
<1>10. Delivery!Request(Outlive(all), {}, none, new) /\ FinishedAreGone'
    BY <1>7, <1>8, <1>9, QuietlyDelivers DEF next
<1>11. Outlive(all) \in SUBSET (1 .. MaxCopies) /\ n \in 1 .. MaxCopies
    BY <1>1 DEF Outlive, Messages
<1>12. \E m \in 1 .. MaxCopies : Delivery!Request(Outlive(all), {}, {}, {m})
    BY <1>10, <1>11 DEF none, new
<1> QED BY <1>10, <1>11, <1>12 DEF Delivery!Next

LEMMA SendMessageDelivers ==
    ASSUME DeliveryInv, NEW q \in Names, NEW delay \in Delays, SendMessage(q, delay)
    PROVE  Delivery!Next /\ FinishedAreGone'
<1> DEFINE it == Sent(q, delay)
<1>1. Sound(UpToDate) /\ Renews(copies, UpToDate) /\ SqsInv
    BY CopiesUpToDate DEF DeliveryInv
<1>2. copies' = Append(UpToDate, it) /\ it \in Copies /\ UNCHANGED <<now, ended>>
    BY <1>1, SentIsACopy DEF SendMessage, Keeps, Answer
<1>3. it.message = Len(UpToDate) + 1 /\ it.held /\ it.sentAt = now /\ it.receives = 0
    BY DEF Sent
<1> HIDE DEF it
<1> QED BY <1>1, <1>2, <1>3, AppendingDelivers

LEMMA ReceiveMessageDelivers ==
    ASSUME DeliveryInv, NEW q \in Names, NEW limit, NEW timeout \in Timeouts,
           ReceiveMessage(q, limit, timeout)
    PROVE  Delivery!Next /\ FinishedAreGone'
<1> DEFINE all == QueueUpToDate(q, UpToDate)
           taken == Taken(q, limit)
           given == {all[k].message : k \in taken}
           next == copies'
           none == {}
           fate == [m \in Messages |-> FateIn(m, copies, ended)]
           sentAt == SentTimes(copies)
<1>1. Sound(all) /\ Renews(copies, all) /\ SqsInv
    BY AskedIsUpToDate DEF DeliveryInv
<1>2. /\ DOMAIN next = DOMAIN all /\ UNCHANGED <<now, ended>>
      /\ taken \subseteq Receivable(q, all)
      /\ \A k \in DOMAIN all :
           /\ next[k].message = all[k].message /\ next[k].sentAt = all[k].sentAt
           /\ next[k].held = all[k].held
           /\ next[k].receives = IF k \in taken THEN all[k].receives + 1 ELSE all[k].receives
    BY <1>1, ReceiveIs
<1> HIDE DEF all, next
<1>3. \A k \in taken : k \in DOMAIN all /\ all[k].held
    BY <1>2 DEF Receivable, HeldBy
<1> HIDE DEF taken
<1>4. \A k \in DOMAIN all : all[k].message \in Messages /\ all[k].receives \in Nat
    BY <1>1, Copied DEF Sound, Messages
<1>5. \A m : SentIn(m, next) <=> SentIn(m, all)
    BY <1>2 DEF SentIn
<1>6. \A m : KeptIn(m, next) <=> KeptIn(m, all)
    BY <1>2 DEF KeptIn
<1>7. \A m : SentIn(m, all) => next[m].sentAt = all[m].sentAt
    BY <1>2 DEF SentIn
<1>8. Answers(all, next, none, none)
    BY <1>5, <1>6, <1>7 DEF Answers
<1>9. ended' = ended \cup none
    BY <1>2
<1> HIDE DEF none
<1>10. /\ \A m \in Outlive(all) : fate[m] = "kept" /\ sentAt[m] + Min(Retentions) <= now
       /\ [m \in Messages |-> FateIn(m, copies', ended')] =
            [m \in Messages |-> IF m \in Outlive(all) THEN "outlived" ELSE
                                IF m \in none THEN "finished" ELSE
                                IF m \in none THEN "kept" ELSE fate[m]]
       /\ SentTimes(copies') = [m \in Messages |-> IF m \in none THEN now ELSE sentAt[m]]
       /\ FinishedAreGone'
    BY <1>1, <1>8, <1>9, FatesFollow DEF next
<1>11. ASSUME NEW m \in given PROVE m \in Messages /\ fate[m] = "kept" /\ m \notin Outlive(all)
  <2>1. m \in Messages /\ KeptIn(m, all)
    BY <1>3, <1>4 DEF KeptIn
  <2>2. KeptIn(m, copies) /\ SentIn(m, copies)
    BY <1>1, <2>1, RenewalDelivers DEF SqsInv
  <2> QED BY <2>1, <2>2 DEF FateIn, Outlive
<1>12. \A m \in Messages : ReceiptsIn(m, copies) = ReceiptsIn(m, all)
    BY <1>1, RenewalDelivers DEF SqsInv
<1>13. ASSUME NEW m \in Messages \ given PROVE ReceiptsIn(m, next) = ReceiptsIn(m, copies)
  <2>1. \A k \in DOMAIN all : all[k].message = m => next[k].receives = all[k].receives
    BY <1>2
  <2>2. ReceiptsIn(m, next) = ReceiptsIn(m, all)
    BY <1>2, <2>1 DEF ReceiptsIn
  <2> QED BY <1>12, <2>2
<1>14. ASSUME NEW m \in given
       PROVE  \E receipt \in ReceiptsIn(m, next) \ ReceiptsIn(m, copies) :
                ReceiptsIn(m, next) = ReceiptsIn(m, copies) \cup {receipt}
  <2>1. PICK k \in taken : all[k].message = m
    OBVIOUS
  <2>2. k \in DOMAIN all /\ all[k].held
    BY <1>3, <2>1
  <2> DEFINE r == all[k].receives
  <2>3. r \in Nat /\ next[k].receives = r + 1
    BY <1>2, <1>4, <2>1, <2>2
  <2>4. ASSUME NEW l \in DOMAIN all, all[l].message = m, l # k PROVE next[l].receives = all[l].receives
    <3>1. l \notin taken
      BY <1>1, <1>3, <2>1, <2>2, <2>4 DEF Sound, OneHeld
    <3> QED BY <1>2, <3>1
  <2> HIDE DEF r
  <2>5. all[k].receives = r
    BY DEF r
  <2>6. 1 .. r + 1 = (1 .. r) \cup {r + 1} /\ r + 1 \notin 1 .. r
    BY <2>3
  <2>7. ASSUME NEW x PROVE x \in ReceiptsIn(m, next) <=> x \in ReceiptsIn(m, all) \/ x = <<k, r + 1>>
    <3>1. x \in ReceiptsIn(m, next) <=>
            \E l \in DOMAIN all : all[l].message = m /\ \E receive \in 1 .. next[l].receives : x = <<l, receive>>
      BY <1>2 DEF ReceiptsIn
    <3>2. x \in ReceiptsIn(m, all) <=>
            \E l \in DOMAIN all : all[l].message = m /\ \E receive \in 1 .. all[l].receives : x = <<l, receive>>
      BY DEF ReceiptsIn
    <3> QED BY <2>1, <2>2, <2>3, <2>4, <2>5, <2>6, <3>1, <3>2
  <2>8. <<k, r + 1>> \notin ReceiptsIn(m, all)
    BY <2>5, <2>6 DEF ReceiptsIn
  <2>9. ReceiptsIn(m, next) = ReceiptsIn(m, all) \cup {<<k, r + 1>>}
    BY <2>7
  <2>10. ReceiptsIn(m, copies) = ReceiptsIn(m, all)
    BY <1>11, <1>12
  <2> QED BY <2>8, <2>9, <2>10
<1> HIDE DEF fate, sentAt, given
<1>15. Delivery!Request(Outlive(all), given, {}, {})
  <2>1. \A m \in given \cup {} : fate[m] = "kept" /\ m \notin Outlive(all)
    BY <1>11
  <2>2. \A m \in Messages \ given : ReceiptsOf(m)' = ReceiptsOf(m)
    BY <1>13, ReceiptsAre DEF next
  <2>3. \A m \in given : m \in Messages /\ \E receipt \in ReceiptsOf(m)' \ ReceiptsOf(m) :
                                             ReceiptsOf(m)' = ReceiptsOf(m) \cup {receipt}
    BY <1>11, <1>14, ReceiptsAre DEF next
  <2> HIDE DEF next
  <2>4. Delivery!Outlived(Outlive(all))
    BY <1>10, FateIs DEF Delivery!Outlived, fate, sentAt, Outlive, Messages
  <2>5. [m \in 1 .. MaxCopies |-> FateOf(m)]' = [m \in 1 .. MaxCopies |-> Delivery!Become(m, Outlive(all), {}, {})]
    BY <1>10, FateIs, FateThen DEF Delivery!Become, fate, Messages, none
  <2>6. \A m \in given \cup {} : [mm \in 1 .. MaxCopies |-> FateOf(mm)][m] = "kept" /\ m \notin Outlive(all)
    BY <2>1, FateIs DEF fate
  <2> QED BY <1>2, <1>10, <2>2, <2>3, <2>4, <2>5, <2>6, FateIs, FateThen
          DEF Delivery!Request, sentAt, Messages, none
<1>16. Outlive(all) \in SUBSET Messages /\ given \in SUBSET Messages
    BY <1>11 DEF Outlive
<1> QED BY <1>10, <1>15, <1>16 DEF Delivery!Next, Messages

LEMMA NothingHappens ==
    ASSUME DeliveryInv, UNCHANGED <<copies, ended>>
    PROVE  /\ FinishedAreGone'
           /\ UNCHANGED [m \in 1 .. MaxCopies |-> FateOf(m)]
           /\ UNCHANGED [m \in 1 .. MaxCopies |-> IF SentAs(m) THEN copies[m].sentAt ELSE 0]
           /\ UNCHANGED [m \in 1 .. MaxCopies |-> ReceiptsOf(m)]
<1>1. FinishedAreGone'
    BY DEF DeliveryInv, FinishedAreGone, SentIn, KeptIn
<1> QED BY <1>1, FateIs, FateThen

LEMMA TimePassesDelivers == ASSUME DeliveryInv, TimePasses PROVE Delivery!Next /\ FinishedAreGone'
<1>1. now' = now + 1 /\ now \in Nat /\ UNCHANGED <<copies, ended>>
    BY NowIsANumber DEF TimePasses, DeliveryInv, SqsInv
<1>2. now' > now
    BY <1>1
<1> QED BY <1>1, <1>2, NothingHappens DEF Delivery!Next, Delivery!TimePasses

LEMMA RequestDelivers ==
    ASSUME DeliveryInv, NEW q \in Names, Request(q) PROVE [Delivery!Next]_(Delivery!vars) /\ FinishedAreGone'
<1>1. ASSUME NEW given \in Attributes(q), CreateQueue(q, given)
      PROVE  UNCHANGED Delivery!vars /\ FinishedAreGone'
    BY <1>1, NothingHappens DEF CreateQueue, Delivery!vars
<1>2. ASSUME NEW given \in Attributes(q), SetQueueAttributes(q, given) PROVE Delivery!Next /\ FinishedAreGone'
    BY <1>2, BringingUpToDateDelivers DEF SetQueueAttributes, Keeps, Answer
<1> QED BY <1>1, <1>2, DeleteQueueDelivers, PurgeQueueDelivers, SendMessageDelivers, ReceiveMessageDelivers,
           DeleteMessageDelivers DEF Request

LEMMA StepDelivers ==
    ASSUME DeliveryInv, [Next]_vars PROVE [Delivery!Next]_(Delivery!vars) /\ FinishedAreGone'
<1>1. CASE Look
    BY <1>1, BringingUpToDateDelivers DEF Look, Keeps, Answer
<1>2. CASE UNCHANGED vars
    BY <1>2, NothingHappens DEF vars, Delivery!vars
<1> QED BY <1>1, <1>2, TimePassesDelivers, RequestDelivers, ChangeVisibilityDelivers DEF Next

LEMMA DeliveryInitial == Init => Delivery!Init /\ FinishedAreGone
<1> SUFFICES ASSUME Init PROVE Delivery!Init /\ FinishedAreGone
    OBVIOUS
<1>1. DOMAIN copies = {} /\ ended = {} /\ now = 0
    BY DEF Init
<1>2. \A m : ~SentIn(m, copies) /\ ReceiptsIn(m, copies) = {}
    BY <1>1 DEF SentIn, ReceiptsIn
<1>3. FinishedAreGone
    BY <1>1 DEF FinishedAreGone
<1>4. /\ [m \in Messages |-> FateIn(m, copies, ended)] = [m \in Messages |-> "unsent"]
      /\ SentTimes(copies) = [m \in Messages |-> 0]
      /\ [m \in Messages |-> ReceiptsIn(m, copies)] = [m \in Messages |-> {}]
    BY <1>2 DEF FateIn, SentTimes
<1> QED BY <1>1, <1>3, <1>4, FateIs DEF Delivery!Init, Messages

LEMMA DeliveryInvHolds == Spec => []DeliveryInv
<1>1. Init => DeliveryInv
    BY SqsInitially, DeliveryInitial DEF DeliveryInv
<1>2. DeliveryInv /\ [Next]_vars => DeliveryInv'
    BY SqsStep, StepDelivers DEF DeliveryInv
<1> QED BY <1>1, <1>2, PTL DEF Spec

(* The queues deliver every message at least once, or rather lose none:      *)
(* whatever is sent is kept until its last receiver deletes it, its queue is *)
(* purged or deleted, or it has been kept as long as any queue keeps one.    *)
(* Visibility timeouts, redrives in chains and in circles, and policies and  *)
(* retention periods that change under way lose and revive nothing.          *)
THEOREM QueuesDeliverAtLeastOnce == Spec => DeliversAtLeastOnce
<1>1. Init => Delivery!Init
    BY DeliveryInitial
<1>2. DeliveryInv /\ [Next]_vars => [Delivery!Next]_(Delivery!vars)
    BY StepDelivers
<1> QED BY <1>1, <1>2, DeliveryInvHolds, PTL DEF Spec, Delivery!Spec, DeliversAtLeastOnce

=============================================================================
