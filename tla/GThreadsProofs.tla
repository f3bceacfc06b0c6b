---------------------------- MODULE GThreadsProofs ----------------------------
(***************************************************************************)
(* TLAPS proofs about the green threads, for any jobs, any scripts that    *)
(* start each of them once, any alarms and every scheme.                   *)
(***************************************************************************)
EXTENDS GThreadsProperties, SequenceTheorems, FiniteSetTheorems, TLAPS

------------------------------------------------------------------------------
(* The scheduler library: what each of its functions does to the queue and  *)
(* to the times of the jobs.                                                *)

JobInfo == [priority : Int, runningtime : Int, arrivetime : Int,
            timeremaining : Int, starttime : Int, lastTimeRun : Int]
Totals == [wait : Int, turnaround : Int, response : Int]

Library(l) ==
  /\ DOMAIN l = {"scheme", "queue", "current", "arrived", "finished", "info", "total"}
  /\ l.scheme \in Schemes
  /\ l.queue \in Seq(Job)
  /\ l.current \in Int
  /\ l.arrived \in SUBSET Job /\ l.finished \in SUBSET Job
  /\ l.info \in [Job -> JobInfo]
  /\ l.total \in Totals

Waits(l, j) == \E i \in 1 .. Len(l.queue) : l.queue[i] = j
\* No job is behind one it goes before, and none is queued twice.
Ordered(l) == \A i, k \in 1 .. Len(l.queue) : i < k => ~ Before(l, l.queue[k], l.queue[i])
Distinct(l) == \A i, k \in 1 .. Len(l.queue) : l.queue[i] = l.queue[k] => i = k
InOrder(l) == Library(l) /\ Ordered(l) /\ Distinct(l)

------------------------------------------------------------------------------
(* Positions.                                                               *)

\* A finite set of integers that is not empty has a least element.
LEMMA LeastOf ==
  ASSUME NEW S \in SUBSET Int, IsFiniteSet(S), S # {}
  PROVE  \E m \in S : \A n \in S : m <= n
<1> DEFINE HasLeast(T) == \E m \in T : \A n \in T : m <= n
           Bad == {T \in SUBSET S : T # {} /\ ~ HasLeast(T)}
           R == StrictSubsetOrdering(S)
<1>1. SUFFICES ASSUME Bad # {}
               PROVE  FALSE
  <2>1. S \notin Bad => HasLeast(S)
    OBVIOUS
  <2> QED
    BY <2>1
<1>2. IsWellFoundedOn(R, SUBSET S)
  BY FS_StrictSubsetOrderingWellFounded, FS_FiniteSubsetsOfFinite
<1>3. PICK T \in Bad : \A U \in Bad : ~ (<<U, T>> \in R)
  <2> HIDE DEF R
  <2>1. Bad \subseteq SUBSET S
    OBVIOUS
  <2> HIDE DEF Bad
  <2> QED
    BY <1>1, <1>2, <2>1, WFMin
<1>4. PICK x \in T : TRUE
  OBVIOUS
<1>5. T \ {x} \notin Bad
  <2>1. T \ {x} \in SUBSET S /\ T \in SUBSET S /\ T \ {x} \subseteq T /\ T \ {x} # T
    OBVIOUS
  <2>2. <<T \ {x}, T>> \in R
    BY <2>1 DEF StrictSubsetOrdering
  <2> QED
    BY <1>3, <2>2
<1>6. CASE T \ {x} = {}
  <2>1. T = {x}
    BY <1>6
  <2>2. HasLeast(T)
    BY <2>1
  <2> QED
    BY <2>2
<1>7. ASSUME NEW m \in T \ {x}, \A n \in T \ {x} : m <= n
      PROVE  FALSE
  <2>1. CASE m <= x
    <3>1. \A n \in T : m <= n
      BY <1>7, <2>1
    <3> QED
      BY <3>1
  <2>2. CASE ~ (m <= x)
    <3>1. \A n \in T : n \in Int
      OBVIOUS
    <3>2. \A n \in T : x <= n
      BY <1>7, <2>2, <3>1
    <3> QED
      BY <3>2
  <2> QED
    BY <2>1, <2>2
<1> QED
  BY <1>5, <1>6, <1>7

\* So has a set of positions in a queue.
LEMMA LeastPosition ==
  ASSUME NEW n \in Nat, NEW S \in SUBSET (1 .. n), S # {}
  PROVE  \E m \in S : \A k \in S : m <= k
<1>0. IsFiniteSet(1 .. n)
  BY FS_Interval
<1>1. IsFiniteSet(S)
  BY <1>0, FS_Subset
<1>2. S \in SUBSET Int
  OBVIOUS
<1> QED
  BY <1>1, <1>2, LeastOf

------------------------------------------------------------------------------
(* The comparers.                                                           *)

\* What a scheme compares, and the arrival that breaks ties, are numbers.
LEMMA KeyIsTime ==
  ASSUME NEW l, Library(l), NEW a \in Job
  PROVE  Key(l.scheme, l.info[a]) \in Int /\ l.info[a].arrivetime \in Int
BY DEF Library, Key, Schemes, JobInfo

\* A comparer orders the jobs: two are never before each other, and what is
\* not before something that is not before a third is not before that.
LEMMA BeforeOrders ==
  ASSUME NEW l, Library(l), NEW a \in Job, NEW b \in Job, NEW c \in Job
  PROVE  /\ Before(l, a, b) => ~ Before(l, b, a)
         /\ ~ Before(l, b, a) /\ ~ Before(l, c, b) => ~ Before(l, c, a)
BY KeyIsTime DEF Before

\* Jobs are compared by their schedule's key and their arrival only.
LEMMA BeforeSame ==
  ASSUME NEW l, NEW r, NEW a, NEW b, r.scheme = l.scheme,
         Key(l.scheme, r.info[a]) = Key(l.scheme, l.info[a]),
         Key(l.scheme, r.info[b]) = Key(l.scheme, l.info[b]),
         r.info[a].arrivetime = l.info[a].arrivetime,
         r.info[b].arrivetime = l.info[b].arrivetime
  PROVE  Before(r, a, b) <=> Before(l, a, b)
BY DEF Before

------------------------------------------------------------------------------
(* priqueue_offer.                                                          *)

\* The place that priqueue_offer finds is behind every job that j does not go
\* before and in front of every other.
LEMMA AheadFits ==
  ASSUME NEW l, Library(l), Ordered(l), NEW j \in Job
  PROVE  /\ Ahead(l, j) \in 0 .. Len(l.queue)
         /\ \A i \in 1 .. Ahead(l, j) : ~ Before(l, j, l.queue[i])
         /\ \A i \in Ahead(l, j) + 1 .. Len(l.queue) : Before(l, j, l.queue[i])
<1> DEFINE q == l.queue
           gaps == {i \in 1 .. Len(q) - 1 : ~ Before(l, j, q[i]) /\ Before(l, j, q[i + 1])}
<1>1. Len(q) \in Nat /\ \A i \in 1 .. Len(q) : q[i] \in Job
  BY ElementOfSeq, LenProperties DEF Library
<1>2. CASE q = <<>>
  BY <1>2 DEF Ahead
<1>3. CASE q # <<>> /\ Before(l, j, q[1])
  <2>1. Ahead(l, j) = 0
    BY <1>3 DEF Ahead
  <2>2. 1 \in 1 .. Len(q)
    BY <1>1, <1>3, EmptySeq DEF Library
  <2>3. ASSUME NEW i \in 1 .. Len(q)
        PROVE  Before(l, j, q[i])
    <3>1. ~ Before(l, q[i], q[1])
      <4>1. CASE i = 1
        BY <1>1, <2>2, <4>1, BeforeOrders
      <4>2. CASE i # 1
        BY <2>2, <4>2 DEF Ordered
      <4> QED
        BY <4>1, <4>2
    <3> QED
      BY <1>1, <1>3, <2>2, <3>1, BeforeOrders
  <2> QED
    BY <1>1, <2>1, <2>3
<1>4. CASE q # <<>> /\ ~ Before(l, j, q[1]) /\ gaps = {}
  <2>1. Ahead(l, j) = Len(q)
    BY <1>4, Zenon DEF Ahead
  <2> DEFINE bad == {i \in 1 .. Len(q) : Before(l, j, q[i])}
  <2>2. bad = {}
    <3> SUFFICES ASSUME bad # {}
                 PROVE  FALSE
      OBVIOUS
    <3>1. PICK m \in bad : \A k \in bad : m <= k
      <4>1. bad \in SUBSET (1 .. Len(q))
        OBVIOUS
      <4> HIDE DEF bad
      <4> QED
        BY <1>1, <4>1, LeastPosition
    <3>2. m # 1 /\ m \in 1 .. Len(q) /\ Before(l, j, q[m])
      BY <1>4
    <3>3. m - 1 \in 1 .. Len(q) - 1 /\ m - 1 \in 1 .. Len(q) /\ (m - 1) + 1 = m /\ ~ (m <= m - 1)
      BY <1>1, <3>2
    <3>4. m - 1 \notin bad
      BY <3>1, <3>3
    <3>5. ~ Before(l, j, q[m - 1])
      BY <3>3, <3>4
    <3>6. m - 1 \in gaps
      BY <3>2, <3>3, <3>5
    <3> QED
      BY <1>4, <3>6
  <2> QED
    BY <1>1, <2>1, <2>2
<1>5. CASE q # <<>> /\ ~ Before(l, j, q[1]) /\ gaps # {}
  <2>1. Ahead(l, j) = CHOOSE i \in gaps : \A k \in gaps : i <= k
    BY <1>5, Zenon DEF Ahead
  <2>2. \E i \in gaps : \A k \in gaps : i <= k
    <3>1. gaps \in SUBSET (1 .. Len(q)) /\ gaps # {}
      BY <1>1, <1>5
    <3> HIDE DEF gaps
    <3> QED
      BY <1>1, <3>1, LeastPosition
  <2>3. Ahead(l, j) \in gaps
    <3> HIDE DEF gaps
    <3> QED
      BY <2>1, <2>2
  <2> DEFINE n == Ahead(l, j)
  <2> HIDE DEF n
  <2>4. /\ n \in 1 .. Len(q) - 1 /\ n \in 1 .. Len(q) /\ n + 1 \in 1 .. Len(q)
        /\ ~ Before(l, j, q[n]) /\ Before(l, j, q[n + 1])
    BY <1>1, <2>3 DEF n
  <2>5. ASSUME NEW i \in 1 .. n
        PROVE  ~ Before(l, j, q[i])
    <3>1. CASE i = n
      BY <2>4, <3>1
    <3>2. CASE i # n
      <4>1. i \in 1 .. Len(q) /\ ~ Before(l, q[n], q[i])
        BY <1>1, <2>4, <3>2 DEF Ordered
      <4> QED
        BY <1>1, <2>4, <4>1, BeforeOrders
    <3> QED
      BY <3>1, <3>2
  <2>6. ASSUME NEW i \in n + 1 .. Len(q)
        PROVE  Before(l, j, q[i])
    <3>1. CASE i = n + 1
      BY <2>4, <3>1
    <3>2. CASE i # n + 1
      <4>1. i \in 1 .. Len(q) /\ ~ Before(l, q[i], q[n + 1])
        BY <1>1, <2>4, <3>2 DEF Ordered
      <4> QED
        BY <1>1, <2>4, <4>1, BeforeOrders
    <3> QED
      BY <3>1, <3>2
  <2> QED
    BY <1>1, <2>4, <2>5, <2>6 DEF n
<1> QED
  BY <1>2, <1>3, <1>4, <1>5

\* The queue after an offer, place by place.
Inserted(q, n, j, i) == IF i <= n THEN q[i] ELSE IF i = n + 1 THEN j ELSE q[i - 1]

\* priqueue_offer puts the job at one place and shifts what is behind it.
LEMMA OfferInserts ==
  ASSUME NEW l, Library(l), NEW j \in Job, Ahead(l, j) \in 0 .. Len(l.queue)
  PROVE  /\ Library(Offer(l, j))
         /\ Offer(l, j).scheme = l.scheme /\ Offer(l, j).current = l.current
         /\ Offer(l, j).arrived = l.arrived /\ Offer(l, j).finished = l.finished
         /\ Offer(l, j).info = l.info /\ Offer(l, j).total = l.total
         /\ Len(Offer(l, j).queue) = Len(l.queue) + 1
         /\ \A i \in 1 .. Len(l.queue) + 1 :
              Offer(l, j).queue[i] = Inserted(l.queue, Ahead(l, j), j, i)
<1> DEFINE q == l.queue
           n == Ahead(l, j)
           front == SubSeq(q, 1, n)
           rear == SubSeq(q, n + 1, Len(q))
           new == front \o <<j>> \o rear
<1>1. Len(q) \in Nat /\ n \in 0 .. Len(q) /\ \A i \in 1 .. Len(q) : q[i] \in Job
  BY ElementOfSeq, LenProperties DEF Library
<1>2. /\ front \in Seq(Job) /\ Len(front) = n
      /\ \A i \in 1 .. n : front[i] = q[i]
  <2> HIDE DEF n
  <2>1. /\ SubSeq(q, 1, n) \in Seq(Job)
        /\ Len(SubSeq(q, 1, n)) = IF 1 <= n THEN n - 1 + 1 ELSE 0
        /\ \A i \in 1 .. n - 1 + 1 : SubSeq(q, 1, n)[i] = q[1 + i - 1]
    <3>1. \A i \in 1 .. n : q[i] \in Job
      BY <1>1
    <3>2. n \in Int /\ 1 \in Int
      BY <1>1
    <3> QED
      BY <3>1, <3>2, SubSeqProperties
  <2> QED
    BY <1>1, <2>1
<1>3. /\ rear \in Seq(Job) /\ Len(rear) = Len(q) - n
      /\ \A i \in 1 .. Len(q) - n : rear[i] = q[n + i]
  <2> HIDE DEF n
  <2>1. /\ SubSeq(q, n + 1, Len(q)) \in Seq(Job)
        /\ Len(SubSeq(q, n + 1, Len(q))) = IF n + 1 <= Len(q) THEN Len(q) - (n + 1) + 1 ELSE 0
        /\ \A i \in 1 .. Len(q) - (n + 1) + 1 : SubSeq(q, n + 1, Len(q))[i] = q[(n + 1) + i - 1]
    <3>1. \A i \in n + 1 .. Len(q) : q[i] \in Job
      BY <1>1
    <3>2. n + 1 \in Int /\ Len(q) \in Int
      BY <1>1
    <3> QED
      BY <3>1, <3>2, SubSeqProperties
  <2> QED
    BY <1>1, <2>1
<1> HIDE DEF front, rear
<1>4. /\ front \o <<j>> \in Seq(Job) /\ Len(front \o <<j>>) = n + 1
      /\ \A i \in 1 .. n + 1 : (front \o <<j>>)[i] = IF i <= n THEN q[i] ELSE j
  <2>1. <<j>> \in Seq(Job) /\ Len(<<j>>) = 1 /\ <<j>>[1] = j
    OBVIOUS
  <2> HIDE DEF n
  <2>2. /\ front \o <<j>> \in Seq(Job)
        /\ Len(front \o <<j>>) = Len(front) + 1
        /\ \A i \in 1 .. Len(front) + 1 :
             (front \o <<j>>)[i] = IF i <= Len(front) THEN front[i] ELSE <<j>>[i - Len(front)]
    BY <1>2, <2>1, ConcatProperties
  <2> QED
    BY <1>1, <1>2, <2>1, <2>2
<1>5. /\ new \in Seq(Job) /\ Len(new) = Len(q) + 1
      /\ \A i \in 1 .. Len(q) + 1 : new[i] = Inserted(q, n, j, i)
  <2> DEFINE fj == front \o <<j>>
  <2>1. /\ fj \in Seq(Job) /\ Len(fj) = n + 1
        /\ \A i \in 1 .. n + 1 : fj[i] = IF i <= n THEN q[i] ELSE j
    BY <1>4
  <2> HIDE DEF fj, n
  <2>2. /\ fj \o rear \in Seq(Job)
        /\ Len(fj \o rear) = Len(fj) + Len(rear)
        /\ \A i \in 1 .. Len(fj) + Len(rear) :
             (fj \o rear)[i] = IF i <= Len(fj) THEN fj[i] ELSE rear[i - Len(fj)]
    BY <1>3, <2>1, ConcatProperties
  <2>3. Len(fj \o rear) = Len(q) + 1
    <3>1. Len(fj) = n + 1 /\ Len(rear) = Len(q) - n /\ n \in Int /\ Len(q) \in Int
      BY <1>1, <1>3, <2>1
    <3>2. Len(fj \o rear) = (n + 1) + (Len(q) - n)
      BY <2>2, <3>1
    <3>3. \A a, b \in Int : (a + 1) + (b - a) = b + 1
      OBVIOUS
    <3>4. (n + 1) + (Len(q) - n) = Len(q) + 1
      BY <3>1, <3>3, Zenon
    <3> QED
      BY <3>2, <3>4
  <2>4. ASSUME NEW i \in 1 .. Len(q) + 1
        PROVE  (fj \o rear)[i] = Inserted(q, n, j, i)
    <3>1. CASE i <= n + 1
      BY <1>1, <1>3, <2>1, <2>2, <3>1 DEF Inserted
    <3>2. CASE ~ (i <= n + 1)
      <4>1. /\ i - (n + 1) \in 1 .. Len(q) - n
            /\ n + (i - (n + 1)) = i - 1
        <5>1. i \in Int /\ n \in Int /\ Len(q) \in Int /\ i <= Len(q) + 1 /\ n >= 0
          BY <1>1
        <5>2. i >= n + 2
          BY <3>2, <5>1
        <5> QED
          BY <5>1, <5>2
      <4>2. (fj \o rear)[i] = rear[i - (n + 1)]
        BY <1>1, <1>3, <2>1, <2>2, <3>2
      <4>3. (fj \o rear)[i] = q[i - 1]
        BY <1>3, <4>1, <4>2
      <4> QED
        BY <1>1, <3>2, <4>3 DEF Inserted
    <3> QED
      BY <3>1, <3>2
  <2> QED
    BY <2>2, <2>3, <2>4 DEF fj
<1>6. Offer(l, j) = [l EXCEPT !.queue = new]
  BY Zenon DEF Offer, front, rear
<1> HIDE DEF new, n
<1>7. Offer(l, j).queue = new
  BY <1>6 DEF Library
<1>8. Library(Offer(l, j))
  BY <1>5, <1>6 DEF Library
<1> QED
  BY <1>5, <1>6, <1>7, <1>8 DEF Library, n

\* priqueue_offer keeps the queue in order and adds j to what waits.
LEMMA OfferKeepsOrder ==
  ASSUME NEW l, InOrder(l), NEW j \in Job, ~ Waits(l, j)
  PROVE  /\ InOrder(Offer(l, j))
         /\ \A k \in Job : Waits(Offer(l, j), k) <=> k = j \/ Waits(l, k)
<1> DEFINE q == l.queue
           n == Ahead(l, j)
           r == Offer(l, j)
<1>1. /\ Library(l) /\ Ordered(l) /\ Distinct(l)
      /\ n \in 0 .. Len(q)
      /\ \A i \in 1 .. n : ~ Before(l, j, q[i])
      /\ \A i \in n + 1 .. Len(q) : Before(l, j, q[i])
  BY AheadFits DEF InOrder
<1>2. /\ Library(r)
      /\ Len(r.queue) = Len(q) + 1
      /\ \A i \in 1 .. Len(q) + 1 : r.queue[i] = Inserted(q, n, j, i)
      /\ r.scheme = l.scheme /\ r.info = l.info
  BY <1>1, OfferInserts
<1>3. \A a, b : Before(r, a, b) <=> Before(l, a, b)
  BY <1>2 DEF Before
<1>4. Len(q) \in Nat /\ \A i \in 1 .. Len(q) : q[i] \in Job
  BY <1>1, ElementOfSeq, LenProperties DEF Library
<1> HIDE DEF n, r
<1>5. Ordered(r)
  <2> SUFFICES ASSUME NEW i \in 1 .. Len(q) + 1, NEW k \in 1 .. Len(q) + 1, i < k
               PROVE  ~ Before(l, Inserted(q, n, j, k), Inserted(q, n, j, i))
    BY <1>2, <1>3 DEF Ordered
  <2>1. CASE k <= n
    BY <1>1, <1>4, <2>1 DEF Ordered, Inserted
  <2>2. CASE k = n + 1
    BY <1>1, <1>4, <2>2 DEF Inserted
  <2>3. CASE k > n + 1
    <3>1. k - 1 \in n + 1 .. Len(q) /\ k - 1 \in 1 .. Len(q) /\ Inserted(q, n, j, k) = q[k - 1]
      BY <1>1, <1>4, <2>3 DEF Inserted
    <3>2. CASE i <= n
      <4>1. i \in 1 .. Len(q) /\ i < k - 1 /\ Inserted(q, n, j, i) = q[i]
        BY <1>1, <1>4, <2>3, <3>2 DEF Inserted
      <4> QED
        BY <1>1, <3>1, <4>1 DEF Ordered
    <3>3. CASE i = n + 1
      <4>1. Inserted(q, n, j, i) = j /\ Before(l, j, q[k - 1]) /\ q[k - 1] \in Job
        BY <1>1, <1>4, <3>1, <3>3 DEF Inserted
      <4> QED
        BY <1>1, <3>1, <4>1, BeforeOrders
    <3>4. CASE i > n + 1
      <4>1. i - 1 \in 1 .. Len(q) /\ i - 1 < k - 1 /\ Inserted(q, n, j, i) = q[i - 1]
        BY <1>1, <1>4, <2>3, <3>4 DEF Inserted
      <4> QED
        BY <1>1, <3>1, <4>1 DEF Ordered
    <3> QED
      BY <1>1, <3>2, <3>3, <3>4
  <2> QED
    BY <1>1, <2>1, <2>2, <2>3
<1> DEFINE was(i) == IF i <= n THEN i ELSE i - 1
<1>6. ASSUME NEW i \in 1 .. Len(q) + 1, i # n + 1
      PROVE  was(i) \in 1 .. Len(q) /\ r.queue[i] = q[was(i)] /\ r.queue[i] # j
  <2>1. was(i) \in 1 .. Len(q) /\ Inserted(q, n, j, i) = q[was(i)]
    BY <1>1, <1>4, <1>6 DEF Inserted
  <2>2. q[was(i)] # j
    BY <2>1 DEF Waits
  <2> QED
    BY <1>2, <2>1, <2>2
<1>9. n + 1 \in 1 .. Len(q) + 1 /\ r.queue[n + 1] = j
  BY <1>1, <1>2, <1>4 DEF Inserted
<1>8. Distinct(r)
  <2> SUFFICES ASSUME NEW i \in 1 .. Len(q) + 1, NEW k \in 1 .. Len(q) + 1, r.queue[i] = r.queue[k]
               PROVE  i = k
    BY <1>2 DEF Distinct
  <2>1. CASE i = n + 1 \/ k = n + 1
    BY <1>6, <1>9, <2>1
  <2>2. CASE i # n + 1 /\ k # n + 1
    <3>1. was(i) = was(k)
      BY <1>1, <1>6, <2>2 DEF Distinct
    <3> QED
      BY <1>1, <2>2, <3>1
  <2> QED
    BY <2>1, <2>2
<1>7. ASSUME NEW k \in Job
      PROVE  Waits(r, k) <=> k = j \/ Waits(l, k)
  <2>1. ASSUME Waits(r, k), k # j
        PROVE  Waits(l, k)
    <3>1. PICK i \in 1 .. Len(q) + 1 : r.queue[i] = k
      BY <1>2, <2>1 DEF Waits
    <3>2. i # n + 1
      BY <1>9, <2>1, <3>1
    <3> QED
      BY <1>6, <3>1, <3>2 DEF Waits
  <2>2. Waits(r, j)
    BY <1>2, <1>9 DEF Waits
  <2>3. ASSUME NEW i \in 1 .. Len(q), q[i] = k
        PROVE  Waits(r, k)
    <3>1. CASE i <= n
      <4>1. i \in 1 .. Len(q) + 1 /\ Inserted(q, n, j, i) = q[i]
        BY <1>1, <1>4, <3>1 DEF Inserted
      <4> QED
        BY <1>2, <2>3, <4>1 DEF Waits
    <3>2. CASE i > n
      <4>1. i + 1 \in 1 .. Len(q) + 1 /\ Inserted(q, n, j, i + 1) = q[i]
        BY <1>1, <1>4, <3>2 DEF Inserted
      <4> QED
        BY <1>2, <2>3, <4>1 DEF Waits
    <3> QED
      BY <1>1, <3>1, <3>2
  <2> QED
    BY <2>1, <2>2, <2>3 DEF Waits
<1> QED
  BY <1>2, <1>5, <1>8, <1>7 DEF InOrder, r

------------------------------------------------------------------------------
(* The calls of gthreads.c.                                                 *)

\* The queue, and what its order is made of, are the same.
SameQueue(l, r) ==
  /\ r.queue = l.queue /\ r.scheme = l.scheme
  /\ \A k \in Job : Waits(l, k) =>
       /\ Key(l.scheme, r.info[k]) = Key(l.scheme, l.info[k])
       /\ r.info[k].arrivetime = l.info[k].arrivetime

\* A step that leaves the queue and what it is ordered by alone keeps it in order.
LEMMA SameOrder ==
  ASSUME NEW l, NEW r, InOrder(l), Library(r), SameQueue(l, r)
  PROVE  InOrder(r) /\ \A k \in Job : Waits(r, k) <=> Waits(l, k)
<1>1. \A i \in 1 .. Len(l.queue) : l.queue[i] \in Job /\ Waits(l, l.queue[i])
  BY ElementOfSeq DEF InOrder, Library, Waits
<1>2. \A i, k \in 1 .. Len(l.queue) : Before(r, l.queue[k], l.queue[i]) <=> Before(l, l.queue[k], l.queue[i])
  BY <1>1, BeforeSame DEF SameQueue
<1>3. Ordered(r)
  BY <1>2 DEF InOrder, Ordered, SameQueue
<1>4. Distinct(r)
  BY DEF InOrder, Distinct, SameQueue
<1> QED
  BY <1>3, <1>4 DEF InOrder, SameQueue, Waits

\* The counters and the times that a call leaves alone.
SameCounts(l, r) == r.arrived = l.arrived /\ r.finished = l.finished /\ r.total = l.total
SameJob(l, r, k) == r.info[k].arrivetime = l.info[k].arrivetime /\ r.info[k].runningtime = l.info[k].runningtime

Fresh(l, k) == l.info[k].timeremaining = l.info[k].runningtime

\* scheduler_new_job changes what is known of its job, and the queue not yet.
LEMMA NewJobArrives ==
  ASSUME NEW l, InOrder(l), NEW j \in Job, ~ Waits(l, j), NEW when \in Int,
         NEW data \in [priority : Int, running_time : Int],
         NEW r, r = NewJob(l, j, when, data)
  PROVE  /\ InOrder(r)
         /\ \A k \in Job : Waits(r, k) <=> Waits(l, k)
         /\ r.arrived = l.arrived \cup {j} /\ r.finished = l.finished /\ r.total = l.total
         /\ Fresh(r, j) /\ r.info[j].arrivetime = when
         /\ \A k \in Job \ {j} : r.info[k] = l.info[k]
<1> DEFINE i == [priority |-> data.priority, runningtime |-> data.running_time,
                 arrivetime |-> when, timeremaining |-> data.running_time,
                 starttime |-> 0, lastTimeRun |-> 0]
           m == [l EXCEPT !.info[j] = i, !.arrived = @ \cup {j}]
<1>1. i \in JobInfo /\ i.timeremaining = i.runningtime /\ i.arrivetime = when
  BY DEF JobInfo
<1>4. r = m
  BY DEF NewJob, i, m
<1> HIDE DEF i
<1>2. Library(l)
  BY DEF InOrder
<1>3. /\ Library(m) /\ m.queue = l.queue /\ m.scheme = l.scheme /\ m.current = l.current
      /\ m.arrived = l.arrived \cup {j} /\ m.finished = l.finished /\ m.total = l.total
      /\ m.info = [l.info EXCEPT ![j] = i]
  BY <1>1, <1>2 DEF Library
<1> HIDE DEF m
<1>5. m.info[j] = i /\ \A k \in Job \ {j} : m.info[k] = l.info[k]
  BY <1>2, <1>3 DEF Library
<1>6. InOrder(m) /\ \A k \in Job : Waits(m, k) <=> Waits(l, k)
  <2>1. SameQueue(l, m)
    BY <1>3, <1>5 DEF SameQueue
  <2> QED
    BY <1>3, <2>1, SameOrder
<1> QED
  BY <1>1, <1>3, <1>4, <1>5, <1>6 DEF Fresh

\* priqueue_offer puts the job, and no other, into the queue.
LEMMA OfferQueues ==
  ASSUME NEW l, InOrder(l), NEW j \in Job, ~ Waits(l, j), NEW r, r = Offer(l, j)
  PROVE  /\ InOrder(r)
         /\ \A k \in Job : Waits(r, k) <=> k = j \/ Waits(l, k)
         /\ r.info = l.info /\ r.arrived = l.arrived /\ r.finished = l.finished /\ r.total = l.total
<1>1. r.info = l.info /\ r.arrived = l.arrived /\ r.finished = l.finished /\ r.total = l.total
  BY AheadFits, OfferInserts DEF InOrder
<1>2. InOrder(r) /\ \A k \in Job : Waits(r, k) <=> k = j \/ Waits(l, k)
  BY OfferKeepsOrder
<1> QED
  BY <1>1, <1>2

\* priqueue_poll takes out a job that none that stays comes before.
LEMMA PollTakesHead ==
  ASSUME NEW l, InOrder(l), NEW p, p = Poll(l)
  PROVE  \/ /\ p.next = NULL /\ p.lib = l /\ \A k \in Job : ~ Waits(l, k)
         \/ /\ p.next \in Job /\ InOrder(p.lib) /\ SameCounts(l, p.lib)
            /\ p.lib.info = l.info /\ p.lib.scheme = l.scheme /\ p.lib.current = l.current
            /\ Waits(l, p.next) /\ ~ Waits(p.lib, p.next)
            /\ \A k \in Job : Waits(l, k) <=> k = p.next \/ Waits(p.lib, k)
            /\ \A k \in Job : Waits(p.lib, k) => ~ Before(p.lib, k, p.next)
<1> DEFINE q == l.queue
<1>1. Library(l) /\ Ordered(l) /\ Distinct(l) /\ q \in Seq(Job) /\ Len(q) \in Nat
  BY LenProperties DEF InOrder, Library
<1>2. CASE q = <<>>
  <2>1. p = [lib |-> l, next |-> NULL]
    BY <1>2 DEF Poll
  <2>2. \A k \in Job : ~ Waits(l, k)
    BY <1>2 DEF Waits
  <2> QED
    BY <2>1, <2>2
<1>3. CASE q # <<>>
  <2>1. /\ p.next = Head(q) /\ p.lib = [l EXCEPT !.queue = Tail(q)]
    BY <1>3 DEF Poll
  <2> DEFINE r == p.lib
  <2>2. /\ Head(q) \in Job /\ Head(q) = q[1] /\ Tail(q) \in Seq(Job) /\ Len(Tail(q)) = Len(q) - 1
        /\ \A i \in 1 .. Len(q) - 1 : Tail(q)[i] = q[i + 1]
        /\ Len(q) >= 1
    <3>1. Len(q) # 0
      BY <1>1, <1>3, EmptySeq
    <3> QED
      BY <1>1, <1>3, <3>1, HeadTailProperties
  <2>3. /\ Library(r) /\ r.queue = Tail(q) /\ r.info = l.info /\ r.scheme = l.scheme
        /\ r.current = l.current /\ SameCounts(l, r)
    BY <1>1, <2>1, <2>2 DEF Library, SameCounts
  <2> HIDE DEF r
  <2>4. \A a, b : Before(r, a, b) <=> Before(l, a, b)
    BY <2>3 DEF Before
  <2>5. \A i \in 1 .. Len(q) - 1 : r.queue[i] = q[i + 1] /\ i + 1 \in 1 .. Len(q)
    BY <1>1, <2>2, <2>3
  <2>6. Len(r.queue) = Len(q) - 1 /\ 1 \in 1 .. Len(q)
    BY <1>1, <2>2, <2>3
  <2>7. Ordered(r)
    <3> SUFFICES ASSUME NEW i \in 1 .. Len(q) - 1, NEW k \in 1 .. Len(q) - 1, i < k
                 PROVE  ~ Before(l, q[k + 1], q[i + 1])
      BY <2>4, <2>5, <2>6 DEF Ordered
    <3>1. i + 1 < k + 1
      OBVIOUS
    <3> QED
      BY <1>1, <2>5, <3>1 DEF Ordered
  <2>8. Distinct(r)
    <3> SUFFICES ASSUME NEW i \in 1 .. Len(q) - 1, NEW k \in 1 .. Len(q) - 1, q[i + 1] = q[k + 1]
                 PROVE  i = k
      BY <2>5, <2>6 DEF Distinct
    <3>1. i + 1 = k + 1
      BY <1>1, <2>5 DEF Distinct
    <3> QED
      BY <3>1
  <2>9. ASSUME NEW k \in Job
        PROVE  /\ Waits(l, k) <=> k = q[1] \/ Waits(r, k)
               /\ Waits(r, k) => k # q[1] /\ ~ Before(l, k, q[1])
    <3>1. ASSUME NEW i \in 1 .. Len(q), q[i] = k
          PROVE  k = q[1] \/ Waits(r, k)
      <4>1. CASE i = 1
        BY <3>1, <4>1
      <4>2. CASE i # 1
        <5>1. i - 1 \in 1 .. Len(q) - 1 /\ (i - 1) + 1 = i
          BY <1>1, <4>2
        <5>2. r.queue[i - 1] = k
          BY <2>5, <3>1, <5>1
        <5> QED
          BY <2>6, <5>1, <5>2 DEF Waits
      <4> QED
        BY <4>1, <4>2
    <3>2. ASSUME NEW i \in 1 .. Len(q) - 1, r.queue[i] = k
          PROVE  Waits(l, k) /\ k # q[1] /\ ~ Before(l, k, q[1])
      <4>1. q[i + 1] = k /\ i + 1 \in 1 .. Len(q) /\ 1 < i + 1 /\ i + 1 # 1
        BY <2>5, <3>2
      <4>2. k # q[1]
        BY <1>1, <2>6, <4>1 DEF Distinct
      <4>3. ~ Before(l, k, q[1])
        BY <1>1, <2>6, <4>1 DEF Ordered
      <4> QED
        BY <4>1, <4>2, <4>3 DEF Waits
    <3> QED
      BY <2>6, <3>1, <3>2 DEF Waits
  <2>10. InOrder(r) /\ Waits(l, q[1]) /\ ~ Waits(r, q[1])
    BY <2>2, <2>3, <2>6, <2>7, <2>8, <2>9 DEF InOrder, Waits
  <2> QED
    BY <2>1, <2>2, <2>3, <2>4, <2>9, <2>10 DEF r
<1> QED
  BY <1>2, <1>3

\* Recording a start changes the start of that job only, and only once.
LEMMA StartedStarts ==
  ASSUME NEW l, InOrder(l), NEW j \in Job, NEW when \in Int,
         NEW r, r = Started(l, j, when)
  PROVE  /\ InOrder(r) /\ r.queue = l.queue /\ r.scheme = l.scheme /\ SameCounts(l, r)
         /\ \A k \in Job : /\ SameJob(l, r, k)
                           /\ r.info[k].timeremaining = l.info[k].timeremaining
                           /\ r.info[k].starttime = IF k = j /\ Fresh(l, j) THEN when
                                                    ELSE l.info[k].starttime
         /\ \A a, b \in Job : Before(r, a, b) <=> Before(l, a, b)
<1>1. Library(l)
  BY DEF InOrder
<1>2. CASE ~ Fresh(l, j)
  <2>1. r = l
    BY <1>2 DEF Started, Fresh
  <2> QED
    BY <1>2, <2>1 DEF SameCounts, SameJob
<1>3. CASE Fresh(l, j)
  <2>1. r = [l EXCEPT !.info[j].starttime = when]
    BY <1>3 DEF Started, Fresh
  <2> DEFINE new == [l.info EXCEPT ![j].starttime = when]
  <2>0. new \in [Job -> JobInfo] /\ r = [l EXCEPT !.info = new]
    <3>1. new \in [Job -> JobInfo]
      BY <1>1 DEF Library, JobInfo
    <3>2. r = [l EXCEPT !.info = new]
      BY <2>1, Zenon
    <3> QED
      BY <3>1, <3>2
  <2>2. /\ Library(r) /\ r.queue = l.queue /\ r.scheme = l.scheme /\ SameCounts(l, r)
        /\ r.info = [l.info EXCEPT ![j].starttime = when]
    <3> HIDE DEF new
    <3>1. /\ Library(r) /\ r.queue = l.queue /\ r.scheme = l.scheme /\ SameCounts(l, r)
          /\ r.info = new
      BY <1>1, <2>0 DEF Library, SameCounts
    <3> QED
      BY <3>1 DEF new
  <2>3. /\ \A k \in Job \ {j} : r.info[k] = l.info[k]
        /\ r.info[j] = [l.info[j] EXCEPT !.starttime = when]
        /\ l.info[j] \in JobInfo
    BY <1>1, <2>2 DEF Library
  <2>4. /\ r.info[j].starttime = when
        /\ r.info[j].timeremaining = l.info[j].timeremaining
        /\ r.info[j].runningtime = l.info[j].runningtime
        /\ r.info[j].arrivetime = l.info[j].arrivetime
        /\ r.info[j].priority = l.info[j].priority
        /\ r.info[j].lastTimeRun = l.info[j].lastTimeRun
    BY <2>3 DEF JobInfo
  <2>5. \A k \in Job : Key(l.scheme, r.info[k]) = Key(l.scheme, l.info[k])
    BY <1>1, <2>3, <2>4 DEF Key, Library, Schemes
  <2>6. \A k \in Job : SameJob(l, r, k)
    BY <2>3, <2>4 DEF SameJob
  <2>7. InOrder(r)
    BY <2>2, <2>5, <2>6, SameOrder DEF SameQueue, SameJob
  <2>8. \A a, b \in Job : Before(r, a, b) <=> Before(l, a, b)
    BY <2>2, <2>5, <2>6, BeforeSame DEF SameJob
  <2> QED
    BY <1>3, <2>2, <2>3, <2>4, <2>6, <2>7, <2>8
<1> QED
  BY <1>2, <1>3

\* What scheduler_quantum_expired promises of the job it answers with.
Picked(l, evicted, when, p) ==
  /\ InOrder(p.lib) /\ p.lib.scheme = l.scheme /\ SameCounts(l, p.lib)
  /\ p.next \in Job \cup {NULL}
  /\ p.next = NULL => evicted = NULL /\ \A k \in Job : ~ Waits(p.lib, k)
  /\ \A k \in Job : Waits(p.lib, k) \/ k = p.next <=> Waits(l, k) \/ k = evicted
  /\ p.next \in Job => ~ Waits(p.lib, p.next)
  /\ \A k \in Job :
       /\ SameJob(l, p.lib, k)
       /\ k # evicted => p.lib.info[k].timeremaining = l.info[k].timeremaining
       /\ \/ p.lib.info[k].starttime = l.info[k].starttime
          \/ k = p.next /\ p.lib.info[k].starttime = when
       /\ k = p.next /\ k # evicted /\ Fresh(l, k) => p.lib.info[k].starttime = when
  /\ evicted \in Job /\ ~ Preemptive(l.scheme) => p.next = evicted
  /\ p.next \in Job /\ (evicted = NULL \/ Preemptive(l.scheme)) =>
       \A k \in Job : Waits(p.lib, k) => ~ Before(p.lib, k, p.next)

\* scheduler_quantum_expired loses no job and answers with one that is first
\* in the order, or under a scheme without preemption with the one it was told
\* of.
LEMMA ExpiredPicks ==
  ASSUME NEW l, InOrder(l), NEW evicted \in Job \cup {NULL},
         evicted \in Job => ~ Waits(l, evicted), NEW when \in Int,
         NEW p, p = QuantumExpired(l, evicted, when)
  PROVE  Picked(l, evicted, when, p)
<1> DEFINE charged == IF l.current # -1 /\ evicted # NULL
                      THEN [l EXCEPT !.info[evicted].timeremaining = @ - (when - l.current)]
                      ELSE l
           now == [charged EXCEPT !.current = Truncated(when)]
           ran == [now EXCEPT !.info[evicted].lastTimeRun = when]
           back == IF evicted = NULL THEN now ELSE Offer(ran, evicted)
           polled == Poll(back)
\* What happens to the jobs before one is taken from the queue.
<1> DEFINE Kept(r) == /\ Library(r) /\ r.scheme = l.scheme /\ SameCounts(l, r)
                      /\ \A k \in Job \ {evicted} : r.info[k] = l.info[k]
                      /\ \A k \in Job : SameJob(l, r, k) /\ r.info[k].starttime = l.info[k].starttime
<1>1. Library(l) /\ Truncated(when) \in Int
  BY SecondAssumption DEF InOrder, Truncated
<1>2. Kept(charged) /\ charged.queue = l.queue
  <2>1. CASE ~ (l.current # -1 /\ evicted # NULL)
    BY <1>1, <2>1 DEF SameCounts, SameJob
  <2>2. CASE l.current # -1 /\ evicted # NULL
    <3> DEFINE still == l.info[evicted].timeremaining - (when - l.current)
    <3>1. evicted \in Job /\ still \in Int
      BY <1>1, <2>2 DEF Library, JobInfo
    <3>2. charged = [l EXCEPT !.info[evicted].timeremaining = still]
      BY <2>2
    <3> HIDE DEF charged, still
    <3>3. /\ Library(charged) /\ charged.queue = l.queue /\ charged.scheme = l.scheme
          /\ SameCounts(l, charged)
          /\ charged.info = [l.info EXCEPT ![evicted].timeremaining = still]
      BY <1>1, <3>1, <3>2 DEF Library, SameCounts, JobInfo
    <3>4. /\ \A k \in Job \ {evicted} : charged.info[k] = l.info[k]
          /\ charged.info[evicted] = [l.info[evicted] EXCEPT !.timeremaining = still]
          /\ l.info[evicted] \in JobInfo
      BY <1>1, <3>1, <3>3 DEF Library
    <3>5. /\ charged.info[evicted].starttime = l.info[evicted].starttime
          /\ SameJob(l, charged, evicted)
      BY <3>4 DEF JobInfo, SameJob
    <3> QED
      BY <3>3, <3>4, <3>5 DEF SameJob
  <2> QED
    BY <2>1, <2>2
<1> HIDE DEF charged
<1>3. Kept(now) /\ now.queue = l.queue
  <2>1. /\ Library(now) /\ now.queue = charged.queue /\ now.scheme = charged.scheme
        /\ now.info = charged.info /\ now.arrived = charged.arrived
        /\ now.finished = charged.finished /\ now.total = charged.total
    BY <1>1, <1>2 DEF Library
  <2> QED
    BY <1>2, <2>1 DEF SameCounts, SameJob
<1> HIDE DEF now
<1>4. ASSUME NEW r, Kept(r), r.queue = l.queue
      PROVE  InOrder(r) /\ \A k \in Job : Waits(r, k) <=> Waits(l, k)
  <2>1. SameQueue(l, r)
    BY <1>4 DEF SameQueue
  <2> QED
    BY <1>4, <2>1, SameOrder
<1>5. evicted # NULL => Kept(ran) /\ ran.queue = l.queue
  <2> SUFFICES ASSUME evicted # NULL
               PROVE  Kept(ran) /\ ran.queue = l.queue
    OBVIOUS
  <2>0. evicted \in Job
    OBVIOUS
  <2>1. /\ Library(ran) /\ ran.queue = now.queue /\ ran.scheme = now.scheme
        /\ SameCounts(now, ran)
        /\ ran.info = [now.info EXCEPT ![evicted].lastTimeRun = when]
    <3> DEFINE new == [now.info EXCEPT ![evicted].lastTimeRun = when]
    <3>1. new \in [Job -> JobInfo] /\ ran = [now EXCEPT !.info = new]
      BY <1>3, <2>0 DEF Library, JobInfo
    <3> HIDE DEF new, ran
    <3>2. /\ Library(ran) /\ ran.queue = now.queue /\ ran.scheme = now.scheme
          /\ SameCounts(now, ran) /\ ran.info = new
      BY <1>3, <3>1 DEF Library, SameCounts
    <3> QED
      BY <3>2 DEF new
  <2>2. /\ \A k \in Job \ {evicted} : ran.info[k] = now.info[k]
        /\ ran.info[evicted] = [now.info[evicted] EXCEPT !.lastTimeRun = when]
        /\ now.info[evicted] \in JobInfo
    BY <1>3, <2>1 DEF Library
  <2>3. /\ ran.info[evicted].starttime = now.info[evicted].starttime
        /\ SameJob(now, ran, evicted)
    BY <2>2 DEF JobInfo, SameJob
  <2> HIDE DEF ran
  <2> QED
    BY <1>3, <2>1, <2>2, <2>3 DEF SameJob, SameCounts
<1> HIDE DEF ran
<1>6. CASE evicted # NULL /\ ~ Preemptive(l.scheme)
  <2>1. p = [lib |-> now, next |-> evicted]
    BY <1>6, Zenon DEF QuantumExpired, charged, now
  <2>2. p.lib = now /\ p.next = evicted
    BY <2>1
  <2>3. InOrder(now) /\ \A k \in Job : Waits(now, k) <=> Waits(l, k)
    BY <1>3, <1>4
  <2>4. evicted # NULL /\ evicted \in Job /\ ~ Waits(l, evicted) /\ ~ Preemptive(l.scheme)
    BY <1>6
  <2>5. \A k \in Job : /\ SameJob(l, now, k) /\ now.info[k].starttime = l.info[k].starttime
                       /\ k # evicted => now.info[k].timeremaining = l.info[k].timeremaining
    BY <1>3
  <2> QED
    BY <1>3, <2>2, <2>3, <2>4, <2>5 DEF Picked
<1>7. CASE evicted = NULL \/ Preemptive(l.scheme)
  <2>1. p = IF polled.next = NULL THEN polled
            ELSE [polled EXCEPT !.lib = Started(@, polled.next, when)]
    <3>1. ~ (evicted # NULL /\ ~ Preemptive(l.scheme))
      BY <1>7
    <3> QED
      BY <3>1, Zenon DEF QuantumExpired, charged, now, ran
  <2>2. /\ InOrder(back) /\ Kept(back)
        /\ \A k \in Job : Waits(back, k) <=> k = evicted \/ Waits(l, k)
    <3>1. CASE evicted = NULL
      BY <1>3, <1>4, <3>1, NoJobAssumption
    <3>2. CASE evicted # NULL
      <4>1. InOrder(ran) /\ \A k \in Job : Waits(ran, k) <=> Waits(l, k)
        BY <1>4, <1>5, <3>2
      <4>2. /\ back.info = ran.info /\ back.scheme = ran.scheme
            /\ SameCounts(ran, back)
        BY <3>2, <4>1, AheadFits, OfferInserts DEF InOrder, SameCounts
      <4>3. InOrder(back) /\ \A k \in Job : Waits(back, k) <=> k = evicted \/ Waits(ran, k)
        BY <3>2, <4>1, OfferKeepsOrder
      <4> HIDE DEF back
      <4> QED
        BY <1>5, <3>2, <4>1, <4>2, <4>3 DEF InOrder, SameCounts, SameJob
    <3> QED
      BY <3>1, <3>2
  <2> HIDE DEF back
  <2>3. CASE polled.next = NULL
    <3>1. p.lib = back /\ p.next = NULL /\ \A k \in Job : ~ Waits(back, k)
      BY <2>1, <2>2, <2>3, PollTakesHead, NoJobAssumption
    <3>2. evicted = NULL
      BY <2>2, <3>1
    <3> QED
      BY <2>2, <3>1, <3>2, NoJobAssumption DEF Picked
  <2>4. CASE polled.next # NULL
    <3> DEFINE j == polled.next
               m == polled.lib
    <3>1. /\ j \in Job /\ InOrder(m) /\ SameCounts(back, m)
          /\ m.info = back.info /\ m.scheme = back.scheme
          /\ Waits(back, j) /\ ~ Waits(m, j)
          /\ \A k \in Job : Waits(back, k) <=> k = j \/ Waits(m, k)
          /\ \A k \in Job : Waits(m, k) => ~ Before(m, k, j)
      BY <2>2, <2>4, PollTakesHead
    <3>2. p.lib = Started(m, j, when) /\ p.next = j
      <4>1. DOMAIN polled = {"lib", "next"}
        BY DEF Poll
      <4> HIDE DEF polled
      <4> QED
        BY <2>1, <2>4, <4>1
    <3> HIDE DEF j, m
    <3> DEFINE r == p.lib
    <3>3. /\ InOrder(r) /\ r.queue = m.queue /\ r.scheme = m.scheme /\ SameCounts(m, r)
          /\ \A k \in Job : /\ SameJob(m, r, k)
                            /\ r.info[k].timeremaining = m.info[k].timeremaining
                            /\ r.info[k].starttime = IF k = j /\ Fresh(m, j) THEN when
                                                     ELSE m.info[k].starttime
          /\ \A a, b \in Job : Before(r, a, b) <=> Before(m, a, b)
      <4>1. InOrder(m) /\ j \in Job /\ r = Started(m, j, when)
        BY <3>1, <3>2
      <4> HIDE DEF r
      <4> QED
        BY <4>1, StartedStarts
    <3> HIDE DEF r
    <3>4. \A k \in Job : Waits(r, k) <=> Waits(m, k)
      BY <3>3 DEF Waits
    <3>5. j # NULL /\ p.next = j /\ p.lib = r
      BY <3>1, <3>2, NoJobAssumption DEF r
    <3>6. \A k \in Job : SameJob(l, r, k)
      BY <2>2, <3>1, <3>3 DEF SameJob
    <3>7. ASSUME NEW k \in Job
          PROVE  /\ k # evicted => r.info[k].timeremaining = l.info[k].timeremaining
                 /\ \/ r.info[k].starttime = l.info[k].starttime
                    \/ k = j /\ r.info[k].starttime = when
                 /\ k = j /\ k # evicted /\ Fresh(l, k) => r.info[k].starttime = when
      <4>1. /\ m.info[k].starttime = l.info[k].starttime
            /\ k # evicted => m.info[k] = l.info[k]
        BY <2>2, <3>1
      <4>2. k # evicted => (Fresh(m, k) <=> Fresh(l, k))
        BY <4>1 DEF Fresh
      <4> QED
        BY <3>3, <4>1, <4>2
    <3>8. InOrder(r) /\ r.scheme = l.scheme /\ SameCounts(l, r)
      BY <2>2, <3>1, <3>3 DEF SameCounts
    <3>9. \A k \in Job : Waits(r, k) => ~ Before(r, k, j)
      BY <3>1, <3>3, <3>4
    <3>10. \A k \in Job : Waits(r, k) \/ k = j <=> Waits(l, k) \/ k = evicted
      BY <2>2, <3>1, <3>4
    <3> QED
      BY <1>7, <3>1, <3>4, <3>5, <3>6, <3>7, <3>8, <3>9, <3>10, NoJobAssumption DEF Picked
  <2> QED
    BY <2>3, <2>4
<1> QED
  BY <1>6, <1>7

\* scheduler_job_finished adds the times of the job that ended to the totals.
LEMMA FinishedCounts ==
  ASSUME NEW l, InOrder(l), NEW j \in Job, NEW when \in Int,
         NEW r, r = JobFinished(l, j, when)
  PROVE  /\ InOrder(r) /\ \A k \in Job : Waits(r, k) <=> Waits(l, k)
         /\ r.scheme = l.scheme /\ r.info = l.info /\ r.arrived = l.arrived
         /\ r.finished = l.finished \cup {j}
         /\ r.total.response = l.total.response + l.info[j].starttime - l.info[j].arrivetime
         /\ r.total.turnaround = l.total.turnaround + (when - l.info[j].arrivetime)
<1> DEFINE i == l.info[j]
           t == [wait |-> l.total.wait + (when - i.arrivetime) - i.runningtime,
                 turnaround |-> l.total.turnaround + (when - i.arrivetime),
                 response |-> l.total.response + i.starttime - i.arrivetime]
<1>1. Library(l) /\ i \in JobInfo /\ l.total \in Totals
  BY DEF InOrder, Library
<1>2. t \in Totals
  BY <1>1 DEF Totals, JobInfo
<1>3. r = [l EXCEPT !.finished = @ \cup {j}, !.total = t]
  BY Zenon DEF JobFinished, t, i
<1>4. /\ t.turnaround = l.total.turnaround + (when - l.info[j].arrivetime)
      /\ t.response = l.total.response + l.info[j].starttime - l.info[j].arrivetime
  OBVIOUS
<1> HIDE DEF t, i
<1>5. /\ Library(r) /\ r.queue = l.queue /\ r.scheme = l.scheme /\ r.info = l.info
      /\ r.arrived = l.arrived /\ r.finished = l.finished \cup {j} /\ r.total = t
  BY <1>1, <1>2, <1>3 DEF Library
<1>6. SameQueue(l, r)
  BY <1>5 DEF SameQueue
<1> QED
  BY <1>4, <1>5, <1>6, SameOrder

------------------------------------------------------------------------------
(* The threads.                                                             *)

States == {"none", "start", "user", "expire", "gone"}
Statement == Call \cup [op : {"info", "link", "stack"}, job : Job]

\* Integer division by a positive number is monotonic.
LEMMA DivGrows ==
  ASSUME NEW a \in Nat, NEW b \in Nat, a <= b, NEW n \in Nat \ {0}
  PROVE  0 <= a \div n /\ a \div n <= b \div n
OBVIOUS

------------------------------------------------------------------------------
(* The inductive invariant.                                                 *)

\* A statement of the script that its job arrives with, and what is left of a
\* gtgo that was begun.
Enters(c) == c.op \in {"gtgo", "info"}
Begun(c) == c.op \in {"info", "link"}
\* The job between gtgo's job_count++ and its call of scheduler_new_job.
Queueing == IF script # <<>> /\ script[1].op = "info" THEN {script[1].job} ELSE {}
Underway == /\ Len(script) >= 2 /\ script[1].op = "info"
            /\ script[2] = [op |-> "link", job |-> script[1].job]
ScriptInv ==
  /\ script \in Seq(Statement)
  /\ \A i \in 1 .. Len(script) : Enters(script[i]) => script[i].job \notin lib.arrived
  /\ \A i, k \in 1 .. Len(script) :
       Enters(script[i]) /\ Enters(script[k]) /\ script[i].job = script[k].job => i = k
  /\ \A i \in 1 .. Len(script) : Begun(script[i]) => i = 1 \/ (i = 2 /\ Underway)
  /\ script # <<>> /\ script[1].op = "info" => Underway

\* job_count counts the jobs that were started and have not returned.
Unfinished == (lib.arrived \cup Queueing) \ stopping
CountInv ==
  /\ lib.finished \subseteq stopping /\ stopping \subseteq lib.arrived
  /\ job_count = Cardinality(Unfinished)

\* A job waits, runs, is suspended while main has a quantum, or has finished.
Lives(j) == j \in lib.arrived /\ j \notin lib.finished
PlaceInv ==
  /\ currjob \in Thread /\ suspended \in Thread \cup {NULL}
  /\ currjob \in Job => Lives(currjob) /\ ~ Waits(lib, currjob) /\ suspended \notin Job
  /\ suspended \in Job => Lives(suspended) /\ ~ Waits(lib, suspended)
  /\ \A j \in Job : Waits(lib, j) => Lives(j)
  /\ \A j \in lib.arrived :
       j \in lib.finished \/ Waits(lib, j) \/ j = currjob \/ j = suspended \/ j \in Arriving
  /\ \A j \in Arriving : Lives(j) /\ ~ Waits(lib, j) /\ j # currjob /\ j # suspended

\* Main is in the middle of gtyield only when it was suspended for itself.
SwitchInv ==
  /\ ctx \in [Thread -> States]
  /\ ctx[MAIN] = "expire" => currjob = MAIN /\ suspended = MAIN
  /\ timer \in {"off", "once", "periodic"}
  /\ currjob \in Job => timer # "off"
  /\ counter \in 0 .. MAIN_FREQUENCY - 1

\* What ran has a start between its arrival and now, and what did not waits, or
\* is on its way into the queue, with all of its time.
Ran(l, j, now) == l.info[j].arrivetime <= l.info[j].starttime /\ l.info[j].starttime <= now
TimeInv ==
  /\ time \in Nat
  /\ \A j \in lib.arrived :
       /\ lib.info[j].arrivetime <= time
       /\ Ran(lib, j, time) \/ ((Waits(lib, j) \/ j \in Arriving) /\ Fresh(lib, j))
  /\ 0 <= lib.total.response /\ lib.total.response <= lib.total.turnaround

\* What main leaves behind.
AllDone == exited => lib.finished = lib.arrived /\ job_count = 0

\* What holds until an alarm has changed the queue inside priqueue_offer.
Inv ==
  /\ InOrder(lib) /\ sched_data \in [Job -> [priority : Int, running_time : Int]]
  /\ ScriptInv /\ CountInv /\ PlaceInv /\ SwitchInv /\ TimeInv
  /\ AllDone

------------------------------------------------------------------------------
(* The initial states.                                                      *)

\* The state main starts in has every part of the invariant.
LEMMA InitInv == Init => Inv
<1> SUFFICES ASSUME Init
             PROVE  Inv
  OBVIOUS
<1>1. PICK s \in Schemes : GtInit(s)
  BY DEF Init
<1>2. /\ lib = StartUp(s) /\ currjob = MAIN /\ suspended = NULL /\ counter = 1
      /\ job_count = 0 /\ timer = "off" /\ time = 0 /\ stopping = {} /\ exited = FALSE
      /\ ctx = [t \in Thread |-> IF t = MAIN THEN "user" ELSE "none"]
  BY <1>1 DEF GtInit, Init
<1>3. /\ lib.scheme = s /\ lib.queue = <<>> /\ lib.arrived = {} /\ lib.finished = {}
      /\ lib.total.response = 0 /\ lib.total.turnaround = 0
      /\ Library(lib)
  BY <1>2 DEF StartUp, Library, JobInfo, Totals
<1>4. InOrder(lib)
  BY <1>3 DEF InOrder, Ordered, Distinct
<1>5. script \in Scripts[s] /\ script \in Seq(Call) /\ StartsOnce(script)
  BY <1>3, ScriptAssumption DEF Init
<1>6. \A i \in 1 .. Len(script) : script[i] \in Call /\ ~ Begun(script[i])
  BY <1>5, ElementOfSeq DEF Call, Begun
<1>7. script \in Seq(Statement)
  BY <1>5 DEF Statement
<1>8. ScriptInv
  <2>1. script # <<>> => 1 \in 1 .. Len(script)
    BY <1>5, EmptySeq
  <2>2. script # <<>> => script[1].op # "info"
    BY <1>6, <2>1 DEF Begun
  <2>3. DOMAIN script = 1 .. Len(script)
    BY <1>5, LenProperties
  <2>4. \A i \in 1 .. Len(script) : Enters(script[i]) => script[i].op = "gtgo"
    BY <1>6 DEF Enters, Begun
  <2>5. ASSUME NEW i \in 1 .. Len(script), NEW k \in 1 .. Len(script),
               Enters(script[i]), Enters(script[k]), script[i].job = script[k].job
        PROVE  i = k
    BY <1>5, <2>3, <2>4, <2>5 DEF StartsOnce
  <2> QED
    BY <1>3, <1>6, <1>7, <2>2, <2>5 DEF ScriptInv
<1>9. CountInv
  <2>1. Queueing = {}
    <3>1. script # <<>> => 1 \in 1 .. Len(script)
      BY <1>5, EmptySeq
    <3> QED
      BY <1>6, <3>1 DEF Queueing, Begun
  <2> QED
    BY <1>2, <1>3, <2>1, FS_EmptySet DEF CountInv, Unfinished
<1>13. Arriving = {}
  <2>1. script # <<>> => 1 \in 1 .. Len(script) /\ Head(script) = script[1]
    BY <1>5, EmptySeq, HeadTailProperties
  <2> QED
    BY <1>6, <2>1 DEF Arriving, Linking, Begun
<1>10. PlaceInv
  BY <1>2, <1>3, <1>13, MainAssumption, NoJobAssumption DEF PlaceInv, Thread, Waits
<1>11. SwitchInv
  BY <1>2, MainAssumption DEF SwitchInv, States, Thread, MAIN_FREQUENCY
<1>12. TimeInv
  BY <1>2, <1>3 DEF TimeInv
<1> QED
  BY <1>2, <1>4, <1>8, <1>9, <1>10, <1>11, <1>12, InfoAssumption DEF Inv, Init, AllDone

------------------------------------------------------------------------------
(* The script.                                                              *)

\* A statement is over that is not on the way of a job into the queue.
Skips == script # <<>> /\ ~ Enters(script[1]) /\ ~ Begun(script[1]) /\ script' = Tail(script)

\* The job on its way into the queue is that of the first statement.
LEMMA ArrivingIsFirst ==
  ASSUME NEW S, script \in Seq(S)
  PROVE  Arriving = IF script # <<>> /\ script[1].op = "link" THEN {script[1].job} ELSE {}
<1>1. script # <<>> => Head(script) = script[1]
  BY HeadTailProperties
<1> QED
  BY <1>1 DEF Arriving, Linking
LEMMA ArrivingIsFirstNext ==
  ASSUME NEW S, script' \in Seq(S)
  PROVE  Arriving' = IF script' # <<>> /\ script'[1].op = "link" THEN {script'[1].job} ELSE {}
<1>1. script' # <<>> => Head(script') = script'[1]
  BY HeadTailProperties
<1> QED
  BY <1>1 DEF Arriving, Linking

\* What remains of the script stays well formed when statements are done.
LEMMA ScriptKept ==
  ASSUME ScriptInv, lib'.arrived = lib.arrived, script' = script \/ Skips
  PROVE  ScriptInv' /\ Queueing' = Queueing /\ Arriving' = Arriving
<1>1. CASE script' = script
  BY <1>1 DEF ScriptInv, Underway, Queueing, Arriving, Linking
<1>2. CASE Skips
  <2>1. /\ script \in Seq(Statement) /\ script # <<>> /\ ~ Enters(script[1]) /\ ~ Begun(script[1])
        /\ Len(script) \in Nat /\ Len(script) >= 1
    <3>1. Len(script) # 0 /\ Len(script) \in Nat
      BY <1>2, EmptySeq, LenProperties DEF Skips, ScriptInv
    <3> QED
      BY <1>2, <3>1 DEF Skips, ScriptInv
  <2>2. /\ script' \in Seq(Statement) /\ Len(script') = Len(script) - 1
        /\ \A i \in 1 .. Len(script) - 1 : script'[i] = script[i + 1]
    BY <1>2, <2>1, HeadTailProperties DEF Skips
  <2>3. \A i \in 1 .. Len(script) - 1 : i + 1 \in 1 .. Len(script) /\ i + 1 # 1
    BY <2>1
  <2>4. \A i \in 1 .. Len(script') : ~ Begun(script'[i])
    BY <2>1, <2>2, <2>3 DEF ScriptInv, Underway, Begun
  <2>5. \A i \in 1 .. Len(script') : Enters(script'[i]) => script'[i].job \notin lib'.arrived
    BY <2>2, <2>3 DEF ScriptInv
  <2>6. ASSUME NEW i \in 1 .. Len(script'), NEW k \in 1 .. Len(script'),
               Enters(script'[i]), Enters(script'[k]), script'[i].job = script'[k].job
        PROVE  i = k
    <3>1. i + 1 = k + 1
      BY <2>2, <2>3, <2>6 DEF ScriptInv
    <3> QED
      BY <2>2, <3>1
  <2>7. Queueing = {}
    BY <2>1 DEF Queueing, Enters
  <2>8. Queueing' = {}
    <3>1. script' # <<>> => 1 \in 1 .. Len(script')
      BY <2>2, EmptySeq
    <3> QED
      BY <2>4, <3>1 DEF Queueing, Begun
  <2>9. Arriving = {} /\ Arriving' = {}
    <3>1. script' # <<>> => 1 \in 1 .. Len(script')
      BY <2>2, EmptySeq
    <3>2. script' # <<>> => ~ Begun(script'[1])
      BY <2>4, <3>1
    <3>3. script' # <<>> => script'[1].op # "link"
      BY <3>2 DEF Begun
    <3>4. script[1].op # "link"
      BY <2>1 DEF Begun
    <3> QED
      BY <2>1, <2>2, <3>3, <3>4, ArrivingIsFirst, ArrivingIsFirstNext
  <2>10. script' # <<>> => script'[1].op # "info"
    BY <2>8 DEF Queueing
  <2> QED
    BY <2>2, <2>4, <2>5, <2>6, <2>7, <2>8, <2>9, <2>10 DEF ScriptInv
<1> QED
  BY <1>1, <1>2

------------------------------------------------------------------------------
(* The rest of gtyield.                                                     *)

\* What Expire needs of the thread it is called for, and the step that calls
\* it; sig is STOP only for a job on its way out.
YieldOf(sig) ==
  /\ sig \in {SIGALRM, GTSLEEP_SIG, YIELD, STOP}
  /\ sig = STOP => currjob \in stopping
  /\ time' \in Nat /\ time <= time'
  /\ UNCHANGED <<sched_data, job_count, stopping, exited, cut>> /\ ~ exited
  /\ script' = script \/ Skips

\* The library when the next thread is picked.
LEMMA EndedCounts ==
  ASSUME Inv, NEW sig, YieldOf(sig)
  PROVE  /\ InOrder(Ended(sig)) /\ \A k \in Job : Waits(Ended(sig), k) <=> Waits(lib, k)
         /\ Ended(sig).scheme = lib.scheme /\ Ended(sig).info = lib.info
         /\ Ended(sig).arrived = lib.arrived
         /\ Ended(sig).finished = lib.finished \cup (IF sig = STOP THEN {currjob} ELSE {})
         /\ 0 <= Ended(sig).total.response
         /\ Ended(sig).total.response <= Ended(sig).total.turnaround
<1>1. CASE sig # STOP
  BY <1>1 DEF Ended, Inv, TimeInv
<1>2. CASE sig = STOP
  <2>1. currjob \in Job /\ currjob \in lib.arrived /\ Library(lib) /\ InOrder(lib)
    BY <1>2 DEF YieldOf, Inv, CountInv, InOrder, Library
  <2>2. Ended(sig) = JobFinished(lib, currjob, time')
    BY <1>2 DEF Ended
  <2>3. time' \in Int
    BY DEF YieldOf
  <2> DEFINE r == Ended(sig)
  <2>4. /\ InOrder(r) /\ \A k \in Job : Waits(r, k) <=> Waits(lib, k)
        /\ r.scheme = lib.scheme /\ r.info = lib.info /\ r.arrived = lib.arrived
        /\ r.finished = lib.finished \cup {currjob}
        /\ r.total.response = lib.total.response + lib.info[currjob].starttime - lib.info[currjob].arrivetime
        /\ r.total.turnaround = lib.total.turnaround + (time' - lib.info[currjob].arrivetime)
    BY <2>1, <2>2, <2>3, FinishedCounts
  <2> HIDE DEF r
  <2>5. Ran(lib, currjob, time) /\ time <= time' /\ time \in Nat /\ time' \in Nat
    BY <2>1 DEF Inv, TimeInv, PlaceInv, YieldOf
  <2>6. /\ lib.info[currjob].starttime \in Int /\ lib.info[currjob].arrivetime \in Int
        /\ lib.total.response \in Int /\ lib.total.turnaround \in Int
    BY <2>1 DEF Library, JobInfo, Totals
  <2>7. 0 <= lib.total.response /\ lib.total.response <= lib.total.turnaround
    BY DEF Inv, TimeInv
  <2>8. 0 <= r.total.response /\ r.total.response <= r.total.turnaround
    BY <2>4, <2>5, <2>6, <2>7 DEF Ran
  <2> QED
    BY <1>2, <2>4, <2>8 DEF r
<1> QED
  BY <1>1, <1>2

\* Expire puts the thread that runs back in the queue, or takes it out of the
\* scheduler's hands, and gives the processor to the next one.
LEMMA ExpireSwitches ==
  ASSUME Inv, NEW sig, YieldOf(sig), Expire(sig)
  PROVE  /\ InOrder(lib') /\ lib'.scheme = lib.scheme /\ lib'.arrived = lib.arrived
         /\ lib'.finished = lib.finished \cup (IF sig = STOP THEN {currjob} ELSE {})
         /\ 0 <= lib'.total.response /\ lib'.total.response <= lib'.total.turnaround
         /\ currjob' \in Thread /\ suspended' = suspended /\ timer' = "periodic"
         /\ ctx' = [ctx EXCEPT ![currjob] = Parted(sig)]
         /\ currjob' = MAIN => Quantum(sig) = NULL /\ \A k \in Job : ~ Waits(lib', k)
         /\ currjob' \in Job => ~ Waits(lib', currjob')
         /\ \A k \in Job : Waits(lib', k) \/ k = currjob' <=> Waits(lib, k) \/ k = Quantum(sig)
         /\ \A k \in Job :
              /\ SameJob(lib, lib', k)
              /\ k # Quantum(sig) => lib'.info[k].timeremaining = lib.info[k].timeremaining
              /\ \/ lib'.info[k].starttime = lib.info[k].starttime
                 \/ k = currjob' /\ lib'.info[k].starttime = time'
              /\ k = currjob' /\ k # Quantum(sig) /\ Fresh(lib, k) => lib'.info[k].starttime = time'
         /\ Quantum(sig) \in Job /\ ~ Preemptive(lib.scheme) => currjob' = Quantum(sig)
         /\ currjob' \in Job /\ (Quantum(sig) = NULL \/ Preemptive(lib.scheme)) =>
              \A k \in Job : Waits(lib', k) => ~ Before(lib', k, currjob')
<1> DEFINE l == Ended(sig)
           ev == Quantum(sig)
           p == Expired(sig)
<1>1. /\ InOrder(l) /\ \A k \in Job : Waits(l, k) <=> Waits(lib, k)
      /\ l.scheme = lib.scheme /\ l.info = lib.info /\ l.arrived = lib.arrived
      /\ l.finished = lib.finished \cup (IF sig = STOP THEN {currjob} ELSE {})
      /\ 0 <= l.total.response /\ l.total.response <= l.total.turnaround
  BY EndedCounts
<1>2. ev \in Job \cup {NULL} /\ (ev \in Job => ~ Waits(l, ev))
  BY <1>1, NoJobAssumption DEF Quantum, Inv, PlaceInv, Thread
<1>3. time' \in Int /\ p = QuantumExpired(l, ev, time')
  BY DEF YieldOf, Expired
<1> HIDE DEF l, ev, p
<1>0. InOrder(l)
  BY <1>1
<1>4. /\ InOrder(p.lib) /\ p.lib.scheme = l.scheme /\ SameCounts(l, p.lib)
      /\ p.next \in Job \cup {NULL}
      /\ p.next = NULL => ev = NULL /\ \A k \in Job : ~ Waits(p.lib, k)
      /\ \A k \in Job : Waits(p.lib, k) \/ k = p.next <=> Waits(l, k) \/ k = ev
      /\ p.next \in Job => ~ Waits(p.lib, p.next)
      /\ \A k \in Job :
           /\ SameJob(l, p.lib, k)
           /\ k # ev => p.lib.info[k].timeremaining = l.info[k].timeremaining
           /\ \/ p.lib.info[k].starttime = l.info[k].starttime
              \/ k = p.next /\ p.lib.info[k].starttime = time'
           /\ k = p.next /\ k # ev /\ Fresh(l, k) => p.lib.info[k].starttime = time'
      /\ ev \in Job /\ ~ Preemptive(l.scheme) => p.next = ev
      /\ p.next \in Job /\ (ev = NULL \/ Preemptive(l.scheme)) =>
           \A k \in Job : Waits(p.lib, k) => ~ Before(p.lib, k, p.next)
  <2> DEFINE when == time'
  <2>1. when \in Int /\ p = QuantumExpired(l, ev, when)
    BY <1>3
  <2> HIDE DEF when
  <2>2. Picked(l, ev, when, p)
    BY <1>0, <1>2, <2>1, ExpiredPicks
  <2> QED
    BY <2>2 DEF Picked, when
<1>5. /\ lib' = p.lib /\ timer' = "periodic" /\ suspended' = suspended
      /\ currjob' = IF p.next = NULL THEN MAIN ELSE p.next
      /\ ctx' = [ctx EXCEPT ![currjob] = Parted(sig)]
  BY DEF Expire, Rearmed, SwitchTo, p
<1>6. /\ currjob' \in Thread
      /\ \A k \in Job : k = currjob' <=> k = p.next
      /\ currjob' = MAIN <=> p.next = NULL
      /\ currjob' \in Job => p.next = currjob'
  BY <1>4, <1>5, MainAssumption, NoJobAssumption DEF Thread
<1>7. \A k \in Job : SameJob(l, p.lib, k) => SameJob(lib, lib', k)
  BY <1>1, <1>5 DEF SameJob
<1>8. \A k \in Job : Fresh(l, k) <=> Fresh(lib, k)
  BY <1>1 DEF Fresh
<1>9. lib'.arrived = l.arrived /\ lib'.finished = l.finished /\ lib'.total = l.total
  BY <1>4, <1>5 DEF SameCounts
<1>10. \A k \in Job :
         /\ SameJob(lib, lib', k)
         /\ k # ev => lib'.info[k].timeremaining = lib.info[k].timeremaining
         /\ \/ lib'.info[k].starttime = lib.info[k].starttime
            \/ k = currjob' /\ lib'.info[k].starttime = time'
         /\ k = currjob' /\ k # ev /\ Fresh(lib, k) => lib'.info[k].starttime = time'
  BY <1>1, <1>4, <1>5, <1>6, <1>7, <1>8
<1>11. \A k \in Job : Waits(lib', k) \/ k = currjob' <=> Waits(lib, k) \/ k = ev
  BY <1>1, <1>4, <1>5, <1>6
<1>12. /\ currjob' = MAIN => ev = NULL /\ \A k \in Job : ~ Waits(lib', k)
       /\ currjob' \in Job => ~ Waits(lib', currjob')
  BY <1>4, <1>5, <1>6
<1>13. /\ ev \in Job /\ ~ Preemptive(lib.scheme) => currjob' = ev
       /\ currjob' \in Job /\ (ev = NULL \/ Preemptive(lib.scheme)) =>
            \A k \in Job : Waits(lib', k) => ~ Before(lib', k, currjob')
  BY <1>1, <1>4, <1>5, <1>6
<1> QED
  BY <1>1, <1>4, <1>5, <1>6, <1>9, <1>10, <1>11, <1>12, <1>13 DEF ev

\* An expired quantum loses nobody.
LEMMA ExpireKeepsPlaces ==
  ASSUME Inv, NEW sig, YieldOf(sig), Expire(sig), suspended \notin Job
  PROVE  PlaceInv' /\ TimeInv'
<1> DEFINE ev == Quantum(sig)
<1>1. /\ lib'.arrived = lib.arrived
      /\ lib'.finished = lib.finished \cup (IF sig = STOP THEN {currjob} ELSE {})
      /\ 0 <= lib'.total.response /\ lib'.total.response <= lib'.total.turnaround
      /\ currjob' \in Thread /\ suspended' = suspended
      /\ currjob' \in Job => ~ Waits(lib', currjob')
      /\ \A k \in Job : Waits(lib', k) \/ k = currjob' <=> Waits(lib, k) \/ k = ev
      /\ \A k \in Job :
           /\ SameJob(lib, lib', k)
           /\ k # ev => lib'.info[k].timeremaining = lib.info[k].timeremaining
           /\ \/ lib'.info[k].starttime = lib.info[k].starttime
              \/ k = currjob' /\ lib'.info[k].starttime = time'
           /\ k = currjob' /\ k # ev /\ Fresh(lib, k) => lib'.info[k].starttime = time'
  BY ExpireSwitches
<1>2. PlaceInv /\ TimeInv /\ CountInv /\ Library(lib) /\ Library(lib')
  BY ExpireSwitches DEF Inv, InOrder
<1>9. Arriving' = Arriving /\ Arriving \subseteq Job
  <2>1. Arriving \subseteq lib.arrived
    BY <1>2 DEF PlaceInv, Lives
  <2> QED
    BY <1>1, <1>2, <2>1, ScriptKept DEF Inv, YieldOf, Library
<1>3. /\ sig = STOP => currjob \in Job /\ ev = NULL
      /\ sig # STOP /\ currjob \in Job => ev = currjob
      /\ ev = NULL \/ (ev = currjob /\ sig # STOP)
      /\ \A k \in Job : k = ev => k = currjob /\ sig # STOP
  BY <1>2, MainAssumption, NoJobAssumption DEF Quantum, YieldOf, CountInv, Library
<1> HIDE DEF ev
<1>4. ASSUME NEW k \in Job, Waits(lib', k) \/ k = currjob'
      PROVE  Lives(k)'
  <2>1. CASE Waits(lib, k)
    <3>1. Lives(k) /\ (currjob \in Job => k # currjob)
      BY <1>2, <2>1 DEF PlaceInv
    <3> QED
      BY <1>1, <1>3, <3>1 DEF Lives
  <2>2. CASE k = ev
    BY <1>1, <1>2, <1>3, <2>2 DEF Lives, PlaceInv
  <2> QED
    BY <1>1, <1>4, <2>1, <2>2
<1>5. ASSUME NEW k \in lib.arrived
      PROVE  k \in lib'.finished \/ Waits(lib', k) \/ k = currjob' \/ k \in Arriving'
  <2>1. k \in Job /\ (k \in lib.finished \/ Waits(lib, k) \/ k = currjob \/ k \in Arriving)
    BY <1>2 DEF PlaceInv, Library
  <2> QED
    BY <1>1, <1>3, <1>9, <2>1
<1>10. ASSUME NEW k \in Arriving
       PROVE  Lives(k)' /\ ~ Waits(lib', k) /\ k # currjob' /\ k # suspended'
  <2>1. k \in Job /\ Lives(k) /\ ~ Waits(lib, k) /\ k # currjob /\ k # suspended
    BY <1>2, <1>9 DEF PlaceInv
  <2> QED
    BY <1>1, <1>3, <2>1 DEF Lives
<1>6. PlaceInv'
  <2>1. suspended' \in Thread \cup {NULL} /\ suspended' \notin Job
    BY <1>1, <1>2 DEF PlaceInv
  <2> QED
    BY <1>1, <1>4, <1>5, <1>9, <1>10, <2>1 DEF PlaceInv
<1>7. ASSUME NEW k \in lib.arrived
      PROVE  /\ lib'.info[k].arrivetime <= time'
             /\ Ran(lib', k, time') \/ ((Waits(lib', k) \/ k \in Arriving') /\ Fresh(lib', k))
  <2>1. /\ k \in Job /\ time \in Nat /\ time' \in Nat /\ time <= time'
        /\ lib.info[k].arrivetime \in Int /\ lib.info[k].starttime \in Int
        /\ lib.info[k].arrivetime <= time
        /\ Ran(lib, k, time) \/ ((Waits(lib, k) \/ k \in Arriving) /\ Fresh(lib, k))
    BY <1>2 DEF Library, JobInfo, YieldOf, TimeInv
  <2>2. lib'.info[k].arrivetime = lib.info[k].arrivetime /\ lib'.info[k].runningtime = lib.info[k].runningtime
    BY <1>1, <2>1 DEF SameJob
  <2>3. lib'.info[k].starttime = lib.info[k].starttime \/ lib'.info[k].starttime = time'
    BY <1>1, <2>1
  <2>4. lib'.info[k].arrivetime <= time'
    BY <2>1, <2>2
  <2>5. Ran(lib, k, time) => Ran(lib', k, time')
    BY <2>1, <2>2, <2>3 DEF Ran
  <2>6. CASE Waits(lib, k) /\ Fresh(lib, k)
    <3>1. k # ev
      BY <1>2, <1>3, <2>1, <2>6 DEF PlaceInv
    <3>2. Fresh(lib', k)
      BY <1>1, <2>1, <2>2, <2>6, <3>1 DEF Fresh
    <3>3. CASE k = currjob'
      <4>1. lib'.info[k].starttime = time'
        BY <1>1, <2>1, <2>6, <3>1, <3>3
      <4> QED
        BY <2>1, <2>4, <4>1 DEF Ran
    <3>4. CASE k # currjob'
      BY <1>1, <2>1, <2>4, <2>6, <3>2, <3>4
    <3> QED
      BY <2>4, <3>3, <3>4
  <2>7. CASE k \in Arriving /\ Fresh(lib, k)
    <3>1. k # ev
      BY <1>2, <1>3, <2>1, <2>7 DEF PlaceInv
    <3>2. Fresh(lib', k)
      BY <1>1, <2>1, <2>2, <2>7, <3>1 DEF Fresh
    <3> QED
      BY <1>9, <2>4, <2>7, <3>2
  <2> QED
    BY <2>1, <2>4, <2>5, <2>6, <2>7
<1>8. TimeInv'
  BY <1>1, <1>7 DEF TimeInv, YieldOf
<1> QED
  BY <1>6, <1>8

\* A quantum that ends keeps the whole invariant.
LEMMA ExpireKeepsInv ==
  ASSUME Inv, NEW sig, YieldOf(sig), Expire(sig), suspended \notin Job,
         counter' \in 0 .. MAIN_FREQUENCY - 1
  PROVE  Inv'
<1>1. PlaceInv' /\ TimeInv'
  BY ExpireKeepsPlaces
<1>2. /\ InOrder(lib') /\ lib'.arrived = lib.arrived
      /\ lib'.finished = lib.finished \cup (IF sig = STOP THEN {currjob} ELSE {})
      /\ timer' = "periodic" /\ suspended' = suspended
      /\ ctx' = [ctx EXCEPT ![currjob] = Parted(sig)]
  BY ExpireSwitches
<1>3. /\ UNCHANGED <<sched_data, job_count, stopping, exited>> /\ ~ exited
      /\ sig = STOP => currjob \in stopping
  BY DEF YieldOf
<1>4. ScriptInv' /\ Queueing' = Queueing
  BY <1>2, ScriptKept DEF Inv, YieldOf
<1>5. CountInv'
  BY <1>2, <1>3, <1>4 DEF Inv, CountInv, Unfinished
<1>6. SwitchInv'
  <2>1. currjob \in Thread /\ ctx \in [Thread -> States] /\ Parted(sig) \in {"user", "gone"}
    BY DEF Inv, PlaceInv, SwitchInv, Parted
  <2>2. ctx' \in [Thread -> States]
    BY <1>2, <2>1 DEF States
  <2>3. ctx'[MAIN] # "expire"
    BY <1>2, <2>1 DEF Inv, SwitchInv, Thread
  <2> QED
    BY <1>2, <2>2, <2>3 DEF SwitchInv
<1>7. AllDone'
  BY <1>3 DEF AllDone
<1> QED
  BY <1>1, <1>2, <1>3, <1>4, <1>5, <1>6, <1>7 DEF Inv

------------------------------------------------------------------------------
(* gtyield.                                                                 *)

\* A switch that leaves the library alone.
LEMMA SwitchKeepsRest ==
  ASSUME Inv, NEW sig, YieldOf(sig), lib' = lib, PlaceInv', SwitchInv'
  PROVE  Inv'
<1>1. /\ UNCHANGED <<sched_data, job_count, stopping, exited>> /\ ~ exited
      /\ time \in Nat /\ time' \in Nat /\ time <= time'
  BY DEF YieldOf, Inv, TimeInv
<1>2. ScriptInv' /\ CountInv'
  <2>1. ScriptInv' /\ Queueing' = Queueing
    BY ScriptKept DEF Inv, YieldOf
  <2> QED
    BY <1>1, <2>1 DEF Inv, CountInv, Unfinished
<1>3. TimeInv'
  <2> SUFFICES ASSUME NEW k \in lib.arrived
               PROVE  /\ lib.info[k].arrivetime <= time'
                      /\ Ran(lib, k, time') \/ ((Waits(lib, k) \/ k \in Arriving) /\ Fresh(lib, k))
    BY <1>1, ScriptKept DEF Inv, TimeInv, YieldOf
  <2>1. lib.info[k].arrivetime \in Int /\ lib.info[k].starttime \in Int
    BY DEF Inv, InOrder, Library, JobInfo
  <2>2. /\ lib.info[k].arrivetime <= time
        /\ Ran(lib, k, time) \/ ((Waits(lib, k) \/ k \in Arriving) /\ Fresh(lib, k))
    BY DEF Inv, TimeInv
  <2> QED
    BY <1>1, <2>1, <2>2 DEF Ran
<1>4. AllDone'
  BY <1>1 DEF AllDone
<1> QED
  BY <1>1, <1>2, <1>3, <1>4 DEF Inv

\* gtyield keeps it, whichever way it goes.
LEMMA YieldKeepsInv ==
  ASSUME Inv, NEW sig, YieldOf(sig), GtYield(sig)
  PROVE  Inv'
<1>1. PlaceInv /\ SwitchInv /\ MAIN \notin Job /\ MAIN # NULL /\ NULL \notin Job
  BY MainAssumption, NoJobAssumption DEF Inv
<1>5. Arriving \subseteq Job /\ (lib' = lib => Arriving' = Arriving)
  <2>1. Arriving \subseteq lib.arrived
    BY <1>1 DEF PlaceInv, Lives
  <2> QED
    BY <2>1, ScriptKept DEF Inv, YieldOf, InOrder, Library
<1>2. CASE currjob = MAIN /\ suspended # NULL /\ ToSuspended
  <2>1. /\ lib' = lib /\ counter' = counter /\ currjob' = suspended /\ suspended' = NULL
        /\ timer' = "periodic" /\ ctx' = [ctx EXCEPT ![MAIN] = "user"]
    BY <1>2 DEF ToSuspended, SwitchTo
  <2>2. PlaceInv'
    <3>1. currjob' \in Job => Lives(currjob)' /\ ~ Waits(lib', currjob')
      BY <1>1, <2>1 DEF PlaceInv, Lives
    <3>2. \A j \in Job : Waits(lib', j) => Lives(j)'
      BY <1>1, <2>1 DEF PlaceInv, Lives
    <3>3. \A j \in lib'.arrived : j \in lib'.finished \/ Waits(lib', j) \/ j = currjob' \/ j \in Arriving'
      <4>1. \A j \in lib.arrived : j \in Job
        BY DEF Inv, InOrder, Library
      <4> QED
        BY <1>1, <1>2, <1>5, <2>1, <4>1 DEF PlaceInv
    <3>4. \A j \in Arriving' : Lives(j)' /\ ~ Waits(lib', j) /\ j # currjob' /\ j # suspended'
      BY <1>1, <1>5, <2>1 DEF PlaceInv, Lives
    <3> QED
      BY <1>1, <1>2, <2>1, <3>1, <3>2, <3>3, <3>4 DEF PlaceInv
  <2>3. SwitchInv'
    BY <1>1, <1>2, <2>1 DEF SwitchInv, Thread, States
  <2> QED
    BY <2>1, <2>2, <2>3, SwitchKeepsRest
<1>3. CASE /\ ~ (currjob = MAIN /\ suspended # NULL)
           /\ counter' = Counted(sig) /\ ToMain
  <2>1. /\ lib' = lib /\ currjob' = MAIN /\ suspended' = currjob /\ timer' = "once"
        /\ ctx' = [ctx EXCEPT ![currjob] = "expire"]
    BY <1>3 DEF ToMain, SwitchTo
  <2>2. suspended \notin Job
    BY <1>1, <1>3 DEF PlaceInv, Thread
  <2>3. PlaceInv'
    <3>1. suspended' \in Job => Lives(suspended)' /\ ~ Waits(lib', suspended')
      BY <1>1, <2>1 DEF PlaceInv, Lives
    <3>2. \A j \in Job : Waits(lib', j) => Lives(j)'
      BY <1>1, <2>1 DEF PlaceInv, Lives
    <3>3. \A j \in lib'.arrived : j \in lib'.finished \/ Waits(lib', j) \/ j = suspended' \/ j \in Arriving'
      <4>1. \A j \in lib.arrived : j \in Job
        BY DEF Inv, InOrder, Library
      <4> QED
        BY <1>1, <1>5, <2>1, <2>2, <4>1 DEF PlaceInv
    <3>4. \A j \in Arriving' : Lives(j)' /\ ~ Waits(lib', j) /\ j # currjob' /\ j # suspended'
      BY <1>1, <1>5, <2>1 DEF PlaceInv, Lives
    <3> QED
      BY <1>1, <2>1, <3>1, <3>2, <3>3, <3>4 DEF PlaceInv, Thread
  <2>4. counter' \in 0 .. MAIN_FREQUENCY - 1
    BY <1>1, <1>3 DEF Counted, SwitchInv, MAIN_FREQUENCY
  <2>5. SwitchInv'
    <3>1. ctx' \in [Thread -> States]
      BY <1>1, <2>1 DEF SwitchInv, PlaceInv, States
    <3>2. ctx'[MAIN] = "expire" => currjob = MAIN
      BY <1>1, <2>1 DEF SwitchInv, Thread
    <3> QED
      BY <1>1, <2>1, <2>4, <3>1, <3>2 DEF SwitchInv
  <2> QED
    BY <2>1, <2>3, <2>5, SwitchKeepsRest
<1>4. CASE /\ ~ (currjob = MAIN /\ suspended # NULL)
           /\ counter' = Counted(sig) /\ Expire(sig)
  <2>1. suspended \notin Job
    BY <1>1, <1>4 DEF PlaceInv, Thread
  <2>2. counter' \in 0 .. MAIN_FREQUENCY - 1
    BY <1>1, <1>4 DEF Counted, SwitchInv, MAIN_FREQUENCY
  <2> QED
    BY <1>4, <2>1, <2>2, ExpireKeepsInv
<1> QED
  BY <1>2, <1>3, <1>4 DEF GtYield

\* The steps that call gtyield, and the rest of one they were interrupted in.
Yields ==
  \/ Alarm \/ GtSleep \/ GtRet
  \/ \E j \in Job : Leave(j) \/ \E sig \in {YIELD, GTSLEEP_SIG} : JobYield(j, sig)

\* The three callers of gtyield pass it the signal their context says.
LEMMA YieldsYield ==
  ASSUME Inv, Yields
  PROVE  \E sig : YieldOf(sig) /\ GtYield(sig)
<1>1. time \in Nat
  BY DEF Inv, TimeInv
<1>2. CASE Alarm
  BY <1>1, <1>2 DEF Alarm, YieldOf, InUser, SIGALRM, STOP
<1>3. CASE GtSleep
  <2>1. Skips
    <3>1. /\ script # <<>> /\ Head(script).op = "gtsleep" /\ script \in Seq(Statement)
          /\ script' = <<>> \o Tail(script)
      BY <1>3 DEF GtSleep, Calls, Then, Inv, ScriptInv
    <3>2. Head(script) = script[1] /\ Tail(script) \in Seq(Statement)
      BY <3>1, HeadTailProperties
    <3>3. script' = Tail(script)
      BY <3>1, <3>2, ConcatEmptySeq
    <3> QED
      BY <3>1, <3>2, <3>3 DEF Skips, Enters, Begun
  <2>2. YieldOf(GTSLEEP_SIG) /\ GtYield(GTSLEEP_SIG)
    BY <1>1, <1>3, <2>1 DEF GtSleep, Calls, YieldOf, InUser, GTSLEEP_SIG, STOP
  <2> QED
    BY <2>2
<1>4. CASE GtRet
  BY <1>1, <1>4 DEF GtRet, YieldOf, InUser, YIELD, STOP
<1>5. ASSUME NEW j \in Job, Leave(j)
      PROVE  \E sig : YieldOf(sig) /\ GtYield(sig)
  BY <1>1, <1>5 DEF Leave, YieldOf, InUser
<1>6. ASSUME NEW j \in Job, NEW sig \in {YIELD, GTSLEEP_SIG}, JobYield(j, sig)
      PROVE  YieldOf(sig) /\ GtYield(sig)
  BY <1>1, <1>6 DEF JobYield, Step, YieldOf, InUser, YIELD, GTSLEEP_SIG, STOP
<1> QED
  BY <1>2, <1>3, <1>4, <1>5, <1>6 DEF Yields

\* Main, back in gtyield, goes on to end its quantum.
LEMMA FallThroughExpires ==
  ASSUME Inv, FallThrough
  PROVE  /\ YieldOf(SIGALRM) /\ Expire(SIGALRM) /\ suspended \notin Job
         /\ counter' = counter
<1>1. YieldOf(SIGALRM)
  BY DEF FallThrough, YieldOf, Inv, TimeInv, SIGALRM, STOP
<1>2. suspended \notin Job
  BY MainAssumption DEF FallThrough, InYield, Inv, SwitchInv, PlaceInv, Thread
<1> QED
  BY <1>1, <1>2 DEF FallThrough

------------------------------------------------------------------------------
(* The other steps.                                                         *)

\* gtgo, up to the call of scheduler_new_job, keeps it.
LEMMA GtGoKeepsInv ==
  ASSUME Inv, GtGo
  PROVE  Inv'
<1> DEFINE j == Head(script).job
           ops == <<[op |-> "info", job |-> j], [op |-> "link", job |-> j], [op |-> "stack", job |-> j]>>
<1>1. /\ script \in Seq(Statement) /\ script # <<>> /\ script[1].op = "gtgo" /\ j = script[1].job
      /\ script[1] \in Statement /\ Tail(script) \in Seq(Statement)
      /\ Len(Tail(script)) = Len(script) - 1
      /\ \A i \in 1 .. Len(script) - 1 : Tail(script)[i] = script[i + 1]
      /\ Len(script) \in Nat /\ Len(script) >= 1
  <2>1. script \in Seq(Statement) /\ script # <<>> /\ Head(script).op = "gtgo"
    BY DEF GtGo, Calls, Inv, ScriptInv
  <2>2. Len(script) \in Nat /\ Len(script) # 0
    BY <2>1, EmptySeq, LenProperties
  <2> QED
    BY <2>1, <2>2, HeadTailProperties
<1>2. j \in Job
  BY <1>1 DEF Statement, Call
<1>3. /\ UNCHANGED <<lib, time, currjob, suspended, counter, ctx, timer, crashed, sched_data, stopping, exited>>
      /\ job_count' = job_count + 1 /\ script' = ops \o Tail(script) /\ ~ exited
  <2>1. Steps(<<"info", "link", "stack">>, j) = ops
    BY DEF Steps
  <2>2. script' = Steps(<<"info", "link", "stack">>, j) \o Tail(script)
    BY DEF GtGo, Then
  <2> HIDE DEF ops
  <2> QED
    BY <2>1, <2>2 DEF GtGo, gvars, Calls, InUser
<1>4. /\ ops \in Seq(Statement) /\ Len(ops) = 3
      /\ ops[1] = [op |-> "info", job |-> j] /\ ops[2] = [op |-> "link", job |-> j]
      /\ ops[3] = [op |-> "stack", job |-> j]
  BY <1>2 DEF Statement
<1> HIDE DEF ops, j
<1>5. /\ script' \in Seq(Statement) /\ Len(script') = Len(script) + 2
      /\ script'[1] = [op |-> "info", job |-> j] /\ script'[2] = [op |-> "link", job |-> j]
      /\ script'[3] = [op |-> "stack", job |-> j]
      /\ \A i \in 4 .. Len(script) + 2 : script'[i] = script[i - 2] /\ i - 2 \in 1 .. Len(script) /\ i - 2 # 1
  <2>1. /\ ops \o Tail(script) \in Seq(Statement)
        /\ Len(ops \o Tail(script)) = Len(ops) + Len(Tail(script))
        /\ \A i \in 1 .. Len(ops) + Len(Tail(script)) : (ops \o Tail(script))[i] =
             IF i <= Len(ops) THEN ops[i] ELSE Tail(script)[i - Len(ops)]
    BY <1>1, <1>4, ConcatProperties
  <2>2. Len(ops \o Tail(script)) = Len(script) + 2
    BY <1>1, <1>4, <2>1
  <2>3. \A i \in 1 .. 3 : (ops \o Tail(script))[i] = ops[i]
    BY <1>1, <1>4, <2>1
  <2>4. ASSUME NEW i \in 4 .. Len(script) + 2
        PROVE  (ops \o Tail(script))[i] = script[i - 2] /\ i - 2 \in 1 .. Len(script) /\ i - 2 # 1
    <3>1. /\ i - 3 \in 1 .. Len(script) - 1 /\ (i - 3) + 1 = i - 2 /\ ~ (i <= 3)
          /\ i \in 1 .. 3 + (Len(script) - 1)
      BY <1>1
    <3>2. (ops \o Tail(script))[i] = Tail(script)[i - 3]
      BY <1>1, <1>4, <2>1, <3>1
    <3>3. Tail(script)[i - 3] = script[(i - 3) + 1]
      BY <1>1, <3>1
    <3>4. i - 2 \in 1 .. Len(script) /\ i - 2 # 1
      BY <1>1
    <3> QED
      BY <3>1, <3>2, <3>3, <3>4
  <2> QED
    BY <1>3, <1>4, <2>1, <2>2, <2>3, <2>4
<1>6. /\ 1 \in 1 .. Len(script) /\ Enters(script[1]) /\ j \notin lib.arrived
      /\ \A i \in 1 .. Len(script) : ~ Begun(script[i])
  <2>1. 1 \in 1 .. Len(script) /\ Enters(script[1]) /\ ~ Begun(script[1]) /\ script[1].op # "info"
    BY <1>1 DEF Enters, Begun
  <2> QED
    BY <1>1, <2>1 DEF Inv, ScriptInv, Underway
<1>7. \A i \in 1 .. Len(script') : i = 1 \/ i = 2 \/ i = 3 \/ i \in 4 .. Len(script) + 2
  BY <1>1, <1>5
<1>8. /\ ~ Enters(script'[2]) /\ ~ Enters(script'[3]) /\ ~ Begun(script'[3])
      /\ script'[1].job = j /\ Underway'
  BY <1>1, <1>5 DEF Enters, Begun, Underway
<1>9. ASSUME NEW i \in 4 .. Len(script) + 2
      PROVE  /\ ~ Begun(script'[i])
             /\ Enters(script'[i]) => script'[i].job \notin lib.arrived /\ script'[i].job # j
  <2>1. script'[i] = script[i - 2] /\ i - 2 \in 1 .. Len(script) /\ i - 2 # 1
    BY <1>5
  <2> QED
    BY <1>1, <1>6, <2>1 DEF Inv, ScriptInv
<1>10. ScriptInv'
  <2>1. \A i \in 1 .. Len(script') : Enters(script'[i]) => script'[i].job \notin lib'.arrived
    BY <1>3, <1>6, <1>7, <1>8, <1>9
  <2>2. \A i \in 1 .. Len(script') : Begun(script'[i]) => i = 1 \/ (i = 2 /\ Underway')
    BY <1>7, <1>8, <1>9
  <2>3. ASSUME NEW i \in 1 .. Len(script'), NEW k \in 1 .. Len(script'),
               Enters(script'[i]), Enters(script'[k]), script'[i].job = script'[k].job
        PROVE  i = k
    <3>1. CASE i = 1 \/ k = 1
      BY <1>7, <1>8, <1>9, <2>3, <3>1
    <3>2. CASE i \in 4 .. Len(script) + 2 /\ k \in 4 .. Len(script) + 2
      <4>1. i - 2 = k - 2
        BY <1>5, <2>3, <3>2 DEF Inv, ScriptInv
      <4> QED
        BY <3>2, <4>1
    <3> QED
      BY <1>7, <1>8, <2>3, <3>1, <3>2
  <2> QED
    BY <1>5, <1>8, <2>1, <2>2, <2>3 DEF ScriptInv
<1>12. script' # <<>>
  BY <1>1, <1>5, EmptySeq
<1>11. CountInv'
  <2>1. Queueing = {}
    BY <1>1 DEF Queueing
  <2>2. Queueing' = {j}
    BY <1>5, <1>12 DEF Queueing
  <2>3. Unfinished' = Unfinished \cup {j} /\ j \notin Unfinished
    BY <1>3, <1>6, <2>1, <2>2 DEF Unfinished, Inv, CountInv
  <2>4. IsFiniteSet(Unfinished)
    <3>1. Unfinished \subseteq Job
      BY <2>1 DEF Unfinished, Inv, InOrder, Library
    <3> QED
      BY <3>1, JobAssumption, FS_Subset
  <2>5. Cardinality(Unfinished \cup {j}) = Cardinality(Unfinished) + 1
    BY <2>3, <2>4, FS_AddElement
  <2> QED
    BY <1>3, <2>3, <2>5 DEF Inv, CountInv
<1>13. Arriving' = Arriving
  <2>1. script' \in Seq(Statement) /\ script'[1].op # "link"
    BY <1>5
  <2>2. script \in Seq(Statement) /\ script[1].op # "link"
    BY <1>1
  <2>3. Arriving' = {}
    BY <2>1, ArrivingIsFirstNext
  <2>4. Arriving = {}
    BY <2>2, ArrivingIsFirst
  <2> QED
    BY <2>3, <2>4
<1> QED
  BY <1>3, <1>10, <1>11, <1>13 DEF Inv, PlaceInv, Lives, SwitchInv, TimeInv, AllDone

\* The new job is nowhere before scheduler_new_job, and after its first half on
\* its way into the queue.
LEMMA NewJobMadeKeepsInv ==
  ASSUME Inv, NewJobMade
  PROVE  Inv'
<1> DEFINE j == script[1].job
<1>1. /\ script \in Seq(Statement) /\ script # <<>> /\ script[1].op = "info"
      /\ script[1] \in Statement /\ Tail(script) \in Seq(Statement)
      /\ Len(Tail(script)) = Len(script) - 1 /\ Head(script) = script[1]
      /\ \A i \in 1 .. Len(script) - 1 : Tail(script)[i] = script[i + 1]
      /\ Len(script) \in Nat /\ Len(script) >= 1
  <2>1. script \in Seq(Statement) /\ script # <<>> /\ Head(script).op = "info"
    BY DEF NewJobMade, Calls, Inv, ScriptInv
  <2>2. Len(script) \in Nat /\ Len(script) # 0
    BY <2>1, EmptySeq, LenProperties
  <2> QED
    BY <2>1, <2>2, HeadTailProperties
<1>2. j \in Job
  BY <1>1 DEF Statement, Call
<1>3. /\ UNCHANGED <<time, currjob, suspended, counter, ctx, timer, sched_data, job_count, stopping, exited>>
      /\ script' = Tail(script) /\ ~ exited
      /\ lib' = NewJob(lib, j, time, sched_data[j])
  <2>1. script' = <<>> \o Tail(script)
    BY DEF NewJobMade, Then
  <2>2. script' = Tail(script)
    BY <1>1, <2>1, ConcatEmptySeq
  <2> QED
    BY <1>1, <2>2 DEF NewJobMade, Calls, InUser
<1>4. 1 \in 1 .. Len(script) /\ Enters(script[1]) /\ j \notin lib.arrived
  BY <1>1 DEF Enters, Inv, ScriptInv
<1>5. /\ ~ Waits(lib, j) /\ j # currjob /\ j # suspended /\ j \notin lib.finished /\ j \notin stopping
  BY <1>2, <1>4 DEF Inv, PlaceInv, CountInv, Lives
<1>6. /\ InOrder(lib')
      /\ \A k \in Job : Waits(lib', k) <=> Waits(lib, k)
      /\ lib'.arrived = lib.arrived \cup {j} /\ lib'.finished = lib.finished /\ lib'.total = lib.total
      /\ Fresh(lib', j) /\ lib'.info[j].arrivetime = time
      /\ \A k \in Job \ {j} : lib'.info[k] = lib.info[k]
  <2>1. InOrder(lib) /\ sched_data[j] \in [priority : Int, running_time : Int] /\ time \in Int
    BY <1>2 DEF Inv, TimeInv
  <2> QED
    BY <1>2, <1>3, <1>5, <2>1, NewJobArrives
<1> HIDE DEF j
<1>7. \A i \in 1 .. Len(script') : /\ script'[i] = script[i + 1]
                                   /\ i + 1 \in 1 .. Len(script) /\ i + 1 # 1
  BY <1>1, <1>3
<1>12. /\ Len(script') \in Nat /\ 1 \in 1 .. Len(script') /\ script' # <<>>
       /\ script'[1] = [op |-> "link", job |-> j]
  <2>1. Len(script) >= 2 /\ script[2] = [op |-> "link", job |-> j]
    BY <1>1 DEF Inv, ScriptInv, Underway, j
  <2>4. script' \in Seq(Statement) /\ Len(script') \in Nat /\ Len(script') >= 1
    BY <1>1, <1>3, <2>1
  <2>2. script' # <<>> /\ Len(script') \in Nat /\ 1 \in 1 .. Len(script')
    BY <2>4, EmptySeq
  <2>3. script'[1] = script[1 + 1]
    BY <1>7, <2>2
  <2> QED
    BY <2>1, <2>2, <2>3
<1>8. ScriptInv'
  <2>2. ASSUME NEW i \in 1 .. Len(script')
        PROVE  Enters(script'[i]) => script'[i].job \notin lib'.arrived
    BY <1>1, <1>4, <1>6, <1>7 DEF Inv, ScriptInv, j
  <2>4. ASSUME NEW i \in 1 .. Len(script'), Begun(script'[i])
        PROVE  i = 1
    <3>1. i + 1 = 2
      BY <1>7, <2>4 DEF Inv, ScriptInv
    <3> QED
      BY <1>12, <3>1
  <2>3. ASSUME NEW i \in 1 .. Len(script'), NEW k \in 1 .. Len(script'),
               Enters(script'[i]), Enters(script'[k]), script'[i].job = script'[k].job
        PROVE  i = k
    <3>1. /\ i + 1 \in 1 .. Len(script) /\ k + 1 \in 1 .. Len(script)
          /\ Enters(script[i + 1]) /\ Enters(script[k + 1]) /\ script[i + 1].job = script[k + 1].job
      BY <1>7, <2>3
    <3>2. i + 1 = k + 1
      BY <3>1 DEF Inv, ScriptInv
    <3> QED
      BY <1>12, <3>2
  <2>5. script'[1].op # "info"
    BY <1>12
  <2> QED
    BY <1>1, <1>3, <1>12, <2>2, <2>3, <2>4, <2>5 DEF ScriptInv
<1>9. CountInv'
  <2>1. Queueing = {j}
    BY <1>1 DEF Queueing, j
  <2>2. Queueing' = {}
    BY <1>12 DEF Queueing
  <2>3. Unfinished' = Unfinished
    BY <1>3, <1>6, <2>1, <2>2 DEF Unfinished
  <2> QED
    BY <1>3, <1>6, <2>3 DEF Inv, CountInv
<1>13. Arriving = {} /\ Arriving' = {j}
  <2>1. script' \in Seq(Statement)
    BY <1>1, <1>3
  <2> QED
    BY <1>1, <1>12, <2>1, ArrivingIsFirst, ArrivingIsFirstNext
<1>10. PlaceInv'
  <2>1. \A k \in Job : Lives(k) => Lives(k)'
    BY <1>6 DEF Lives
  <2>2. j \in lib'.arrived /\ j \notin lib'.finished
    BY <1>5, <1>6
  <2>3. currjob' \in Job => Lives(currjob)' /\ ~ Waits(lib', currjob') /\ suspended' \notin Job
    BY <1>3, <1>6, <2>1 DEF Inv, PlaceInv, Lives
  <2>4. suspended' \in Job => Lives(suspended)' /\ ~ Waits(lib', suspended')
    BY <1>3, <1>6, <2>1 DEF Inv, PlaceInv, Lives
  <2>5. \A k \in Job : Waits(lib', k) => Lives(k)'
    BY <1>6, <2>1 DEF Inv, PlaceInv
  <2>6. ASSUME NEW k \in lib'.arrived
        PROVE  k \in lib'.finished \/ Waits(lib', k) \/ k = currjob' \/ k = suspended' \/ k \in Arriving'
    <3>1. CASE k = j
      BY <1>13, <3>1
    <3>2. CASE k # j
      <4>1. k \in lib.arrived /\ k \in Job
        BY <1>6, <3>2 DEF Inv, InOrder, Library
      <4> QED
        BY <1>3, <1>6, <1>13, <4>1 DEF Inv, PlaceInv
    <3> QED
      BY <3>1, <3>2
  <2>7. ASSUME NEW k \in Arriving'
        PROVE  Lives(k)' /\ ~ Waits(lib', k) /\ k # currjob' /\ k # suspended'
    <3>1. k = j
      BY <1>13
    <3> QED
      BY <1>2, <1>3, <1>5, <1>6, <2>2, <3>1 DEF Lives
  <2>8. currjob' \in Thread /\ suspended' \in Thread \cup {NULL}
    BY <1>3 DEF Inv, PlaceInv
  <2> QED
    BY <2>3, <2>4, <2>5, <2>6, <2>7, <2>8 DEF PlaceInv
<1>11. TimeInv'
  <2> SUFFICES ASSUME NEW k \in lib'.arrived
               PROVE  /\ lib'.info[k].arrivetime <= time
                      /\ Ran(lib', k, time) \/ ((Waits(lib', k) \/ k \in Arriving') /\ Fresh(lib', k))
    BY <1>3, <1>6 DEF Inv, TimeInv
  <2>1. CASE k = j
    BY <1>6, <1>13, <2>1 DEF Inv, TimeInv
  <2>2. CASE k # j
    <3>1. k \in lib.arrived /\ k \in Job
      BY <1>6, <2>2 DEF Inv, InOrder, Library
    <3>2. lib'.info[k] = lib.info[k] /\ (Waits(lib', k) <=> Waits(lib, k))
      BY <1>6, <2>2, <3>1
    <3> QED
      BY <1>13, <3>1, <3>2 DEF Inv, TimeInv, Ran, Fresh
  <2> QED
    BY <2>1, <2>2
<1> QED
  BY <1>3, <1>6, <1>8, <1>9, <1>10, <1>11 DEF Inv, SwitchInv, AllDone

\* priqueue_offer puts it there, if no alarm has changed the queue meanwhile.
LEMMA NewJobQueuedKeepsInv ==
  ASSUME Inv, NewJobQueued, ~ cut'
  PROVE  Inv'
<1> DEFINE j == script[1].job
<1>1. /\ script \in Seq(Statement) /\ script # <<>> /\ script[1].op = "link"
      /\ script[1] \in Statement /\ Tail(script) \in Seq(Statement)
      /\ Len(Tail(script)) = Len(script) - 1 /\ Head(script) = script[1]
      /\ \A i \in 1 .. Len(script) - 1 : Tail(script)[i] = script[i + 1]
      /\ Len(script) \in Nat /\ Len(script) >= 1
  <2>1. script \in Seq(Statement) /\ script # <<>> /\ Head(script).op = "link"
    BY DEF NewJobQueued, Calls, Inv, ScriptInv
  <2>2. Len(script) \in Nat /\ Len(script) # 0
    BY <2>1, EmptySeq, LenProperties
  <2> QED
    BY <2>1, <2>2, HeadTailProperties
<1>2. j \in Job
  BY <1>1 DEF Statement, Call
<1>3. /\ UNCHANGED <<time, currjob, suspended, counter, ctx, timer, sched_data, job_count, stopping, exited>>
      /\ script' = Tail(script) /\ ~ exited
      /\ lib' = Offer(lib, j)
  <2>1. script' = <<>> \o Tail(script)
    BY DEF NewJobQueued, Then
  <2>2. script' = Tail(script)
    BY <1>1, <2>1, ConcatEmptySeq
  <2>3. ~ moved
    <3>1. cut' = (cut \/ moved)
      BY DEF NewJobQueued
    <3> QED
      BY <3>1, Zenon
  <2>4. lib' = Offer(lib, j)
    <3>1. \/ ~ moved /\ lib' = Offer(lib, Head(script).job)
          \/ moved
      BY Zenon DEF NewJobQueued
    <3>2. lib' = Offer(lib, Head(script).job)
      BY <2>3, <3>1, Zenon
    <3> QED
      BY <1>1, <3>2
  <2> QED
    BY <1>1, <2>2, <2>4 DEF NewJobQueued, Calls, InUser
<1>4. Arriving = {j}
  BY <1>1, ArrivingIsFirst
<1>5. Lives(j) /\ ~ Waits(lib, j) /\ j # currjob /\ j # suspended
  BY <1>4 DEF Inv, PlaceInv
<1>6. /\ InOrder(lib')
      /\ \A k \in Job : Waits(lib', k) <=> k = j \/ Waits(lib, k)
      /\ lib'.info = lib.info /\ lib'.arrived = lib.arrived
      /\ lib'.finished = lib.finished /\ lib'.total = lib.total
  BY <1>2, <1>3, <1>5, OfferQueues DEF Inv
<1> HIDE DEF j
<1>7. \A i \in 1 .. Len(script') : /\ script'[i] = script[i + 1] /\ i + 1 # 1
                                   /\ i + 1 \in 1 .. Len(script)
  BY <1>1, <1>3
<1>8. \A i \in 1 .. Len(script') : ~ Begun(script'[i])
  BY <1>1, <1>7 DEF Inv, ScriptInv, Underway
<1>9. script' # <<>> => script'[1].op # "info" /\ script'[1].op # "link"
  <2>1. script' # <<>> => 1 \in 1 .. Len(script')
    BY <1>1, <1>3, EmptySeq
  <2> QED
    BY <1>8, <2>1 DEF Begun
<1>10. ScriptInv'
  <2>1. ASSUME NEW i \in 1 .. Len(script')
        PROVE  Enters(script'[i]) => script'[i].job \notin lib'.arrived
    BY <1>6, <1>7 DEF Inv, ScriptInv
  <2>2. ASSUME NEW i \in 1 .. Len(script'), NEW k \in 1 .. Len(script'),
               Enters(script'[i]), Enters(script'[k]), script'[i].job = script'[k].job
        PROVE  i = k
    <3>1. /\ i + 1 \in 1 .. Len(script) /\ k + 1 \in 1 .. Len(script)
          /\ Enters(script[i + 1]) /\ Enters(script[k + 1]) /\ script[i + 1].job = script[k + 1].job
      BY <1>7, <2>2
    <3>2. i + 1 = k + 1
      BY <3>1 DEF Inv, ScriptInv
    <3>3. Len(script') \in Nat
      BY <1>1, <1>3
    <3> QED
      BY <3>2, <3>3
  <2> QED
    BY <1>1, <1>3, <1>8, <1>9, <2>1, <2>2 DEF ScriptInv
<1>11. CountInv'
  <2>1. Queueing = {} /\ Queueing' = {}
    BY <1>1, <1>9 DEF Queueing
  <2>2. Unfinished' = Unfinished
    BY <1>3, <1>6, <2>1 DEF Unfinished
  <2> QED
    BY <1>3, <1>6, <2>2 DEF Inv, CountInv
<1>12. Arriving' = {}
  <2>1. script' \in Seq(Statement)
    BY <1>1, <1>3
  <2> QED
    BY <1>9, <2>1, ArrivingIsFirstNext
<1>13. PlaceInv'
  <2>1. \A k \in Job : Lives(k) => Lives(k)'
    BY <1>6 DEF Lives
  <2>2. currjob' \in Job => Lives(currjob)' /\ ~ Waits(lib', currjob') /\ suspended' \notin Job
    BY <1>3, <1>5, <1>6, <2>1 DEF Inv, PlaceInv, Lives
  <2>3. suspended' \in Job => Lives(suspended)' /\ ~ Waits(lib', suspended')
    BY <1>3, <1>5, <1>6, <2>1 DEF Inv, PlaceInv, Lives
  <2>4. \A k \in Job : Waits(lib', k) => Lives(k)'
    BY <1>5, <1>6, <2>1 DEF Inv, PlaceInv
  <2>5. ASSUME NEW k \in lib'.arrived
        PROVE  k \in lib'.finished \/ Waits(lib', k) \/ k = currjob' \/ k = suspended'
    <3>1. k \in lib.arrived /\ k \in Job
      BY <1>6 DEF Inv, InOrder, Library
    <3> QED
      BY <1>3, <1>4, <1>6, <3>1 DEF Inv, PlaceInv
  <2> QED
    BY <1>3, <1>12, <2>2, <2>3, <2>4, <2>5 DEF Inv, PlaceInv
<1>14. TimeInv'
  <2> SUFFICES ASSUME NEW k \in lib.arrived
               PROVE  /\ lib.info[k].arrivetime <= time
                      /\ Ran(lib, k, time) \/ (Waits(lib', k) /\ Fresh(lib, k))
    BY <1>3, <1>6 DEF Inv, TimeInv, Ran, Fresh
  <2>1. k \in Job
    BY DEF Inv, InOrder, Library
  <2> QED
    BY <1>4, <1>6, <2>1 DEF Inv, TimeInv
<1> QED
  BY <1>3, <1>6, <1>10, <1>11, <1>13, <1>14 DEF Inv, SwitchInv, AllDone

\* So does the end of gtgo,
LEMMA StackReadyKeepsInv ==
  ASSUME Inv, StackReady
  PROVE  Inv'
<1>1. /\ script \in Seq(Statement) /\ script # <<>> /\ script[1].op = "stack"
      /\ script[1] \in Statement /\ Head(script) = script[1] /\ Tail(script) \in Seq(Statement)
  <2>1. script \in Seq(Statement) /\ script # <<>> /\ Head(script).op = "stack"
    BY DEF StackReady, Calls, Inv, ScriptInv
  <2> QED
    BY <2>1, HeadTailProperties
<1>2. script[1].job \in Job
  BY <1>1 DEF Statement, Call
<1>3. /\ UNCHANGED <<lib, time, currjob, suspended, counter, timer, sched_data, job_count, stopping, exited>>
      /\ script' = Tail(script) /\ ~ exited /\ ctx' = [ctx EXCEPT ![script[1].job] = "start"]
  <2>1. script' = <<>> \o Tail(script)
    BY DEF StackReady, Then
  <2>2. script' = Tail(script)
    BY <1>1, <2>1, ConcatEmptySeq
  <2> QED
    BY <1>1, <2>2 DEF StackReady, Calls, InUser
<1>4. ScriptInv' /\ Queueing' = Queueing /\ Arriving' = Arriving
  BY <1>1, <1>3, ScriptKept DEF Inv, Skips, Enters, Begun
<1>5. CountInv'
  BY <1>3, <1>4 DEF Inv, CountInv, Unfinished
<1>6. SwitchInv'
  BY <1>2, <1>3, MainAssumption DEF Inv, SwitchInv, States, Thread
<1> QED
  BY <1>3, <1>4, <1>5, <1>6 DEF Inv, PlaceInv, Lives, TimeInv, AllDone

\* the start of the timer,
LEMMA GtStartKeepsInv ==
  ASSUME Inv, GtStart
  PROVE  Inv'
<1>1. /\ script \in Seq(Statement) /\ script # <<>> /\ script[1].op = "gtstart"
      /\ Head(script) = script[1] /\ Tail(script) \in Seq(Statement)
  <2>1. script \in Seq(Statement) /\ script # <<>> /\ Head(script).op = "gtstart"
    BY DEF GtStart, Calls, Inv, ScriptInv
  <2> QED
    BY <2>1, HeadTailProperties
<1>2. /\ UNCHANGED <<lib, time, currjob, suspended, counter, ctx, sched_data, job_count, stopping, exited>>
      /\ script' = Tail(script) /\ ~ exited /\ timer' = "periodic"
  <2>1. script' = <<>> \o Tail(script)
    BY DEF GtStart, Then
  <2>2. script' = Tail(script)
    BY <1>1, <2>1, ConcatEmptySeq
  <2> QED
    BY <2>2 DEF GtStart, Calls, InUser
<1>3. ScriptInv' /\ Queueing' = Queueing /\ Arriving' = Arriving
  BY <1>1, <1>2, ScriptKept DEF Inv, Skips, Enters, Begun
<1>4. CountInv'
  BY <1>2, <1>3 DEF Inv, CountInv, Unfinished
<1> QED
  BY <1>2, <1>3, <1>4 DEF Inv, PlaceInv, Lives, SwitchInv, TimeInv, AllDone

\* the end of the program,
LEMMA ExitKeepsInv ==
  ASSUME Inv, Exit
  PROVE  Inv'
<1>1. /\ currjob = MAIN /\ script = <<>> /\ suspended = NULL /\ lib.queue = <<>>
      /\ lib' = [lib EXCEPT !.queue = <<>>]
      /\ UNCHANGED <<time, currjob, suspended, counter, ctx, timer, sched_data, job_count, script, stopping>>
  BY DEF Exit, InUser, NothingToRun, CleanUp
<1>2. /\ Library(lib') /\ lib'.queue = lib.queue /\ lib'.scheme = lib.scheme /\ lib'.info = lib.info
      /\ lib'.arrived = lib.arrived /\ lib'.finished = lib.finished /\ lib'.total = lib.total
  BY <1>1 DEF Inv, InOrder, Library
<1>3. \A k \in Job : ~ Waits(lib, k) /\ ~ Waits(lib', k)
  BY <1>1, <1>2 DEF Waits
<1>9. Arriving = {} /\ Arriving' = {}
  BY <1>1 DEF Arriving, Linking
<1>7. InOrder(lib')
  BY <1>2, SameOrder DEF SameQueue, Inv
<1>8. TimeInv'
  <2>1. \A k \in lib.arrived : k \in Job /\ lib.info[k].arrivetime <= time /\ Ran(lib, k, time)
    BY <1>3, <1>9 DEF Inv, TimeInv, InOrder, Library
  <2>2. \A k \in lib.arrived : Ran(lib', k, time)
    BY <1>2, <2>1 DEF Ran
  <2> QED
    BY <1>1, <1>2, <2>1, <2>2 DEF Inv, TimeInv
<1>4. lib.finished = lib.arrived
  <2>1. lib.finished \subseteq lib.arrived
    BY DEF Inv, CountInv
  <2>2. ASSUME NEW j \in lib.arrived
        PROVE  j \in lib.finished
    <3>1. j \in Job
      BY DEF Inv, InOrder, Library
    <3>2. j # currjob /\ j # suspended
      BY <1>1, <3>1, MainAssumption, NoJobAssumption
    <3> QED
      BY <1>3, <1>9, <3>1, <3>2 DEF Inv, PlaceInv
  <2> QED
    BY <2>1, <2>2
<1>5. job_count = 0
  <2>1. Queueing = {}
    BY <1>1 DEF Queueing
  <2>2. Unfinished = {}
    BY <1>4, <2>1 DEF Unfinished, Inv, CountInv
  <2> QED
    BY <2>2, FS_EmptySet DEF Inv, CountInv
<1>6. ScriptInv' /\ CountInv'
  BY <1>1, <1>2 DEF Inv, ScriptInv, Underway, CountInv, Unfinished, Queueing
<1> QED
  BY <1>1, <1>2, <1>3, <1>4, <1>5, <1>6, <1>7, <1>8, <1>9 DEF Inv, PlaceInv, Lives, SwitchInv, AllDone

\* and gtstop up to its gtyield.
LEMMA GtStopKeepsInv ==
  ASSUME Inv, NEW j \in Job, GtStop(j)
  PROVE  Inv'
<1>1. /\ UNCHANGED <<lib, time, currjob, suspended, counter, ctx, timer, sched_data, script, exited>>
      /\ stopping' = stopping \cup {j} /\ job_count' = job_count - 1
      /\ j \notin stopping /\ currjob = j /\ ~ exited
  BY DEF GtStop, gvars, InUser
<1>2. j \in lib.arrived
  BY <1>1 DEF Inv, PlaceInv, Lives
<1>3. Queueing' = Queueing /\ Arriving' = Arriving /\ ScriptInv'
  BY <1>1 DEF Inv, ScriptInv, Underway, Queueing, Arriving, Linking
<1>4. Queueing \subseteq Job
  BY ElementOfSeq, EmptySeq DEF Queueing, Inv, ScriptInv, Statement, Call
<1>5. IsFiniteSet(Unfinished)
  <2>1. Unfinished \subseteq Job
    BY <1>4 DEF Unfinished, Inv, InOrder, Library
  <2> QED
    BY <2>1, JobAssumption, FS_Subset
<1>6. Unfinished' = Unfinished \ {j} /\ j \in Unfinished
  BY <1>1, <1>2, <1>3 DEF Unfinished
<1>7. Cardinality(Unfinished \ {j}) = Cardinality(Unfinished) - 1
  BY <1>5, <1>6, FS_RemoveElement
<1>8. CountInv'
  BY <1>1, <1>2, <1>6, <1>7 DEF Inv, CountInv
<1> QED
  BY <1>1, <1>3, <1>8 DEF Inv, PlaceInv, Lives, SwitchInv, TimeInv, AllDone

\* Every step keeps the invariant that does not link into a changed queue.
LEMMA NextKeepsInv ==
  ASSUME Inv, [Next]_vars, ~ cut'
  PROVE  Inv'
<1>1. CASE UNCHANGED <<gvars, sched_data, job_count, script, stopping, exited>>
  BY <1>1 DEF gvars, Inv, ScriptInv, Underway, CountInv, Unfinished, Queueing, PlaceInv, Arriving, Linking,
              Lives, SwitchInv, TimeInv, AllDone
<1>2. CASE Yields
  BY <1>2, YieldsYield, YieldKeepsInv
<1>3. CASE FallThrough
  <2>1. counter' \in 0 .. MAIN_FREQUENCY - 1
    BY <1>3, FallThroughExpires DEF Inv, SwitchInv
  <2> QED
    BY <1>3, <2>1, FallThroughExpires, ExpireKeepsInv
<1>4. CASE GtGo
  BY <1>4, GtGoKeepsInv
<1>5. CASE NewJobMade
  BY <1>5, NewJobMadeKeepsInv
<1>11. CASE NewJobQueued
  BY <1>11, NewJobQueuedKeepsInv
<1>6. CASE StackReady
  BY <1>6, StackReadyKeepsInv
<1>7. CASE GtStart
  BY <1>7, GtStartKeepsInv
<1>8. CASE Exit
  BY <1>8, ExitKeepsInv
<1>9. ASSUME NEW j \in Job, GtStop(j)
      PROVE  Inv'
  BY <1>9, GtStopKeepsInv
<1>10. ASSUME NEW j \in Job, Run(j)
       PROVE  Inv'
  BY <1>1, <1>10 DEF Run
<1> QED
  BY <1>1, <1>2, <1>3, <1>4, <1>5, <1>6, <1>7, <1>8, <1>9, <1>10, <1>11
     DEF Next, Threads, Main, JobStep, Yields, vars

\* What is cut stays so.
LEMMA CutStays ==
  ASSUME [Next]_vars, cut
  PROVE  cut'
<1>1. CASE NewJobQueued
  <2>1. cut' = (cut \/ moved)
    BY <1>1 DEF NewJobQueued
  <2> QED
    BY <2>1, Zenon
<1>2. CASE UNCHANGED cut
  BY <1>2
<1> QED
  BY <1>1, <1>2, Zenon
     DEF Next, Threads, Main, JobStep, vars, Alarm, FallThrough, GtGo, NewJobMade, StackReady,
         GtStart, GtSleep, GtRet, Exit, Run, GtStop, Leave, JobYield

\* The invariant holds in every state of every behaviour until an alarm has
\* changed the queue inside priqueue_offer.
LEMMA SpecInv == Spec => [](~ cut => Inv)
<1>1. Init => (~ cut => Inv)
  BY InitInv
<1>2. (~ cut => Inv) /\ [Next]_vars => (~ cut => Inv)'
  BY NextKeepsInv, CutStays
<1> QED
  BY <1>1, <1>2, PTL DEF Spec

------------------------------------------------------------------------------
(* What the invariant says.                                                 *)

\* The globals of the library and of gthreads.c have their types, and job_count
\* never exceeds the jobs there are, until an alarm has changed the queue inside
\* priqueue_offer.
THEOREM TypesHold == Spec => [](~ cut => TypeOK)
<1>1. (~ cut => Inv) => (~ cut => TypeOK)
  <2> SUFFICES ASSUME Inv
               PROVE  TypeOK
    OBVIOUS
  <2>1. Library(lib) /\ lib.finished \subseteq lib.arrived
    BY DEF Inv, InOrder, CountInv
  <2>2. job_count \in 0 .. Cardinality(Job)
    <3>1. Queueing \subseteq Job
      BY ElementOfSeq, EmptySeq DEF Queueing, Inv, ScriptInv, Statement, Call
    <3>2. Unfinished \subseteq Job
      BY <2>1, <3>1 DEF Unfinished, Library
    <3>3. Cardinality(Unfinished) \in Nat /\ Cardinality(Job) \in Nat /\ Cardinality(Unfinished) <= Cardinality(Job)
      BY <3>2, JobAssumption, FS_Subset, FS_CardinalityType
    <3> QED
      BY <3>3 DEF Inv, CountInv
  <2>3. \A j \in Job : lib.info[j].timeremaining \in Int
    BY <2>1 DEF Library, JobInfo
  <2> QED
    BY <2>1, <2>2, <2>3 DEF TypeOK, Inv, Library, PlaceInv, SwitchInv, States
<1> QED
  BY <1>1, SpecInv, PTL

\* A job that has arrived and is not on its way into the queue waits once, runs,
\* is suspended or has finished: no switch loses or doubles a job, wherever an
\* alarm forces it, but inside priqueue_offer with a change of the queue.
THEOREM EveryJobInOnePlace == Spec => []OnePlace
<1>1. (~ cut => Inv) => OnePlace
  <2> SUFFICES ASSUME Inv, NEW j \in lib.arrived \ Arriving
               PROVE  Places(j) = 1
    BY DEF OnePlace
  <2> DEFINE at == {i \in DOMAIN lib.queue : lib.queue[i] = j}
  <2>1. j \in Job /\ lib.queue \in Seq(Job) /\ DOMAIN lib.queue = 1 .. Len(lib.queue)
    BY LenProperties DEF Inv, InOrder, Library
  <2>2. Cardinality(at) = IF Waits(lib, j) THEN 1 ELSE 0
    <3>1. CASE Waits(lib, j)
      <4>1. PICK i \in 1 .. Len(lib.queue) : lib.queue[i] = j
        BY <3>1 DEF Waits
      <4>2. at = {i}
        BY <2>1, <4>1 DEF Inv, InOrder, Distinct
      <4> HIDE DEF at
      <4> QED
        BY <3>1, <4>2, FS_Singleton
    <3>2. CASE ~ Waits(lib, j)
      <4>1. at = {}
        BY <2>1, <3>2 DEF Waits
      <4> HIDE DEF at
      <4> QED
        BY <3>2, <4>1, FS_EmptySet
    <3> QED
      BY <3>1, <3>2
  <2> HIDE DEF at
  <2>3. Places(j) = Cardinality(at) + One(currjob = j) + One(suspended = j) + One(j \in lib.finished)
    BY DEF Places, at
  <2>4. /\ j = currjob => ~ Waits(lib, j) /\ suspended # j /\ j \notin lib.finished
        /\ j = suspended => ~ Waits(lib, j) /\ currjob # j /\ j \notin lib.finished
        /\ Waits(lib, j) => j \notin lib.finished
        /\ j \in lib.finished \/ Waits(lib, j) \/ j = currjob \/ j = suspended
    BY <2>1 DEF Inv, PlaceInv, Lives
  <2> QED
    BY <2>2, <2>3, <2>4 DEF One
<1> QED
  BY <1>1, SpecInv, PTL

\* No path through gtyield gives the processor to a job with the alarm off.
THEOREM JobsArePreempted == Spec => []Preemptible
<1>1. Init => Preemptible
  BY MainAssumption DEF Init, GtInit, Preemptible
<1>2. ASSUME NEW sig, GtYield(sig)
      PROVE  timer' # "off"
  BY <1>2 DEF GtYield, ToSuspended, ToMain, Expire, Rearmed
<1>3. Preemptible /\ [Next]_vars => Preemptible'
  <2> SUFFICES ASSUME Preemptible, [Next]_vars
               PROVE  currjob' \in Job => timer' # "off"
    BY DEF Preemptible
  <2>1. CASE UNCHANGED <<currjob, timer>>
    BY <2>1 DEF Preemptible
  <2>2. CASE FallThrough
    BY <2>2 DEF FallThrough, Expire, Rearmed
  <2>3. CASE \E sig : GtYield(sig)
    BY <1>2, <2>3
  <2>4. CASE GtStart
    BY <2>4 DEF GtStart
  <2>5. ASSUME NEW j \in Job, JobStep(j)
        PROVE  UNCHANGED <<currjob, timer>> \/ \E sig : GtYield(sig)
    BY <2>5 DEF JobStep, Run, GtStop, Leave, JobYield, gvars
  <2> QED
    BY <2>1, <2>2, <2>3, <2>4, <2>5
       DEF Next, Threads, Main, vars, gvars, Alarm, GtGo, NewJobMade, NewJobQueued, StackReady,
           GtSleep, GtRet, Exit
<1> QED
  BY <1>1, <1>3, PTL DEF Spec

\* Main leaves gtret only when every job it started has finished, or an alarm
\* has changed the queue inside priqueue_offer.
THEOREM MainWaitsForAll == Spec => []ExitMeansFinished
<1>1. (~ cut => Inv) => ExitMeansFinished
  BY DEF Inv, AllDone, ExitMeansFinished
<1> QED
  BY <1>1, SpecInv, PTL

\* No job started before it arrived or after it ended, so the averages printed
\* at the end make sense under every scheme, as long as no freed entry was used.
THEOREM AveragesMakeSense == Spec => []StatisticsMakeSense
<1>1. (~ cut => Inv) => StatisticsMakeSense
  <2> SUFFICES ASSUME Inv, lib.finished # {}
               PROVE  /\ 0 <= print_stats(lib).response
                      /\ print_stats(lib).response <= print_stats(lib).turnaround
    BY DEF StatisticsMakeSense
  <2> DEFINE n == Cardinality(lib.finished)
  <2>1. n \in Nat \ {0}
    <3>1. IsFiniteSet(lib.finished)
      BY JobAssumption, FS_Subset DEF Inv, InOrder, Library
    <3> QED
      BY <3>1, FS_CardinalityType, FS_EmptySet
  <2>2. /\ lib.total.response \in Nat /\ lib.total.turnaround \in Nat
        /\ lib.total.response <= lib.total.turnaround
    BY DEF Inv, TimeInv, InOrder, Library, Totals
  <2>3. /\ print_stats(lib).response = lib.total.response \div n
        /\ print_stats(lib).turnaround = lib.total.turnaround \div n
    BY DEF print_stats
  <2> HIDE DEF n
  <2> QED
    BY <2>1, <2>2, <2>3, DivGrows
<1> QED
  BY <1>1, SpecInv, PTL

------------------------------------------------------------------------------
(* The schemes.                                                             *)

Obeyed ==
  /\ \A j \in Job : j = currjob' /\ j # currjob /\ j # suspended =>
       \A i \in DOMAIN lib'.queue : ~ Before(lib', lib'.queue[i], j)
  /\ ~ Preemptive(lib.scheme) /\ currjob \in Job /\ currjob' \in Job \ {currjob}
       => currjob \in lib'.finished

\* A quantum that ends hands the processor to the job its scheme names.
LEMMA ExpireObeys ==
  ASSUME Inv, NEW sig, YieldOf(sig), Expire(sig)
  PROVE  Obeyed
<1> DEFINE ev == Quantum(sig)
<1>1. /\ InOrder(lib')
      /\ lib'.finished = lib.finished \cup (IF sig = STOP THEN {currjob} ELSE {})
      /\ ev \in Job /\ ~ Preemptive(lib.scheme) => currjob' = ev
      /\ currjob' \in Job /\ (ev = NULL \/ Preemptive(lib.scheme)) =>
           \A k \in Job : Waits(lib', k) => ~ Before(lib', k, currjob')
  BY ExpireSwitches
<1>2. /\ ev = NULL \/ (ev = currjob /\ ev \in Job)
      /\ currjob \in Job /\ sig # STOP => ev = currjob
  BY MainAssumption DEF Quantum, Inv, PlaceInv, Thread
<1> HIDE DEF ev
<1>3. \A i \in DOMAIN lib'.queue : lib'.queue[i] \in Job /\ Waits(lib', lib'.queue[i])
  BY <1>1, ElementOfSeq, LenProperties DEF InOrder, Library, Waits
<1>4. ASSUME currjob' \in Job, currjob' # currjob, NEW i \in DOMAIN lib'.queue
      PROVE  ~ Before(lib', lib'.queue[i], currjob')
  BY <1>1, <1>2, <1>3, <1>4
<1>5. ASSUME ~ Preemptive(lib.scheme), currjob \in Job, currjob' # currjob
      PROVE  currjob \in lib'.finished
  BY <1>1, <1>2, <1>5
<1> QED
  BY <1>4, <1>5 DEF Obeyed

\* So does gtyield.
LEMMA YieldObeys ==
  ASSUME Inv, NEW sig, YieldOf(sig), GtYield(sig)
  PROVE  Obeyed
<1>1. CASE currjob = MAIN /\ ToSuspended
  BY <1>1, MainAssumption DEF ToSuspended, SwitchTo, Obeyed
<1>2. CASE ToMain
  BY <1>2, MainAssumption DEF ToMain, SwitchTo, Obeyed
<1>3. CASE Expire(sig)
  BY <1>3, ExpireObeys
<1> QED
  BY <1>1, <1>2, <1>3 DEF GtYield

\* The job the queue gives the processor to is one that no waiting job goes
\* before, although the keys were compared when each was queued; and without
\* preemption a job gives way to another only when it has finished; until an
\* alarm has changed the queue inside priqueue_offer.
THEOREM SchemesAreObeyed == Spec => SchemeObeyed
<1>1. (~ cut => Inv) /\ [Next]_vars => [~ cut' => Obeyed]_vars
  <2> SUFFICES ASSUME Inv, Next
               PROVE  Obeyed
    BY CutStays
  <2>1. CASE currjob' = currjob
    BY <2>1 DEF Obeyed
  <2>2. CASE Yields
    BY <2>2, YieldsYield, YieldObeys
  <2>3. CASE FallThrough
    BY <2>3, FallThroughExpires, ExpireObeys
  <2> QED
    BY <2>1, <2>2, <2>3 DEF Next, Threads, Main, JobStep, Yields, GtGo, NewJobMade, NewJobQueued, StackReady, GtStart, Exit, Run, GtStop, gvars
<1>2. SchemeObeyed <=> [][~ cut' => Obeyed]_vars
  BY DEF SchemeObeyed, Obeyed
<1> QED
  BY <1>1, <1>2, SpecInv, PTL DEF Spec

------------------------------------------------------------------------------
(* Programs that start the timer last.                                      *)

\* A statement of the script that is, or becomes, an insertion into the queue,
\* and one after which alarms come.
Inserts(c) == c.op \in {"gtgo", "info", "link"}
Starts(c) == c.op \in {"gtstart", "gtsleep"}

\* The program calls gtstart and gtsleep after its last gtgo, as rr_fcfs_sjf_test
\* of main.c does.
InsertsFirst(p) == \A i, k \in 1 .. Len(p) : Starts(p[i]) /\ Inserts(p[k]) => k < i
StartsLast == \A s \in Schemes : \A p \in Scripts[s] : InsertsFirst(p)

\* While insertions are left the alarm is off, and main is not in gtyield.
Quiet ==
  /\ InsertsFirst(script)
  /\ timer # "off" => \A i \in 1 .. Len(script) : ~ Inserts(script[i])
  /\ ctx[MAIN] = "expire" => timer # "off"
  /\ ~ moved /\ ~ cut

\* Such a program starts quiet.
LEMMA QuietInit == StartsLast /\ Init => Quiet
<1> SUFFICES ASSUME StartsLast, Init
             PROVE  Quiet
  OBVIOUS
<1>1. PICK s \in Schemes : GtInit(s)
  BY DEF Init
<1>2. /\ lib.scheme = s /\ currjob = MAIN /\ timer = "off" /\ moved = FALSE /\ cut = FALSE
      /\ ctx = [t \in Thread |-> IF t = MAIN THEN "user" ELSE "none"]
  BY <1>1 DEF GtInit, StartUp, Init
<1>3. script \in Scripts[s] /\ script \in Seq(Call)
  BY <1>2, ScriptAssumption DEF Init
<1>4. script \in Seq(Statement) /\ InsertsFirst(script)
  BY <1>3 DEF StartsLast, Statement
<1>5. ctx \in [Thread -> States] /\ ctx[MAIN] # "expire"
  BY <1>2 DEF States, Thread
<1>6. ~ moved /\ ~ cut
  BY <1>2
<1> QED
  BY <1>2, <1>4, <1>5, <1>6 DEF Quiet

\* What is left of a script with its insertions first has them first.
LEMMA RestInsertsFirst ==
  ASSUME NEW p \in Seq(Statement), p # <<>>, InsertsFirst(p), NEW r, r = Tail(p)
  PROVE  /\ r \in Seq(Statement) /\ InsertsFirst(r)
         /\ Head(p) = p[1] /\ p[1] \in Statement /\ Len(p) \in Nat /\ 1 \in 1 .. Len(p)
         /\ Len(r) = Len(p) - 1
         /\ \A i \in 1 .. Len(r) : r[i] = p[i + 1] /\ i + 1 \in 1 .. Len(p)
         /\ Starts(p[1]) => \A i \in 1 .. Len(r) : ~ Inserts(r[i])
         /\ (\A i \in 1 .. Len(p) : ~ Inserts(p[i])) => \A i \in 1 .. Len(r) : ~ Inserts(r[i])
<1>1. /\ r \in Seq(Statement) /\ Head(p) = p[1] /\ p[1] \in Statement /\ Len(r) = Len(p) - 1
      /\ \A i \in 1 .. Len(p) - 1 : r[i] = p[i + 1]
      /\ Len(p) \in Nat /\ Len(p) # 0
  BY HeadTailProperties, EmptySeq, LenProperties
<1>2. \A i \in 1 .. Len(r) : r[i] = p[i + 1] /\ i + 1 \in 1 .. Len(p) /\ i + 1 > 1
  BY <1>1
<1>3. 1 \in 1 .. Len(p)
  BY <1>1
<1>4. ASSUME NEW i \in 1 .. Len(r), NEW k \in 1 .. Len(r), Starts(r[i]), Inserts(r[k])
      PROVE  k < i
  <2>1. k + 1 < i + 1
    BY <1>2, <1>4 DEF InsertsFirst
  <2> QED
    BY <1>1, <2>1
<1>5. ASSUME Starts(p[1]), NEW i \in 1 .. Len(r)
      PROVE  ~ Inserts(r[i])
  <2>1. ~ (i + 1 < 1)
    BY <1>1
  <2> QED
    BY <1>2, <1>3, <1>5, <2>1 DEF InsertsFirst
<1>6. InsertsFirst(r)
  BY <1>4 DEF InsertsFirst
<1> QED
  BY <1>1, <1>2, <1>3, <1>5, <1>6

\* A step of main that does not call gtyield, nor start the timer.
LEMMA MainQuiet ==
  ASSUME Inv, Quiet, GtGo \/ NewJobMade \/ NewJobQueued \/ StackReady
  PROVE  Quiet'
<1> DEFINE j == Head(script).job
           r == Tail(script)
<1>1. /\ script # <<>> /\ script \in Seq(Statement) /\ InsertsFirst(script)
      /\ Head(script).op \in {"gtgo", "info", "link", "stack"}
  BY DEF GtGo, NewJobMade, NewJobQueued, StackReady, Calls, Quiet, Inv, ScriptInv
<1>2. /\ r \in Seq(Statement) /\ InsertsFirst(r)
      /\ Head(script) = script[1] /\ script[1] \in Statement
      /\ Len(script) \in Nat /\ 1 \in 1 .. Len(script) /\ Len(r) = Len(script) - 1
      /\ \A i \in 1 .. Len(r) : r[i] = script[i + 1] /\ i + 1 \in 1 .. Len(script)
      /\ (\A i \in 1 .. Len(script) : ~ Inserts(script[i])) => \A i \in 1 .. Len(r) : ~ Inserts(r[i])
  BY <1>1, RestInsertsFirst
<1>3. j \in Job
  BY <1>1, <1>2 DEF Statement, Call
<1>4. timer' = timer /\ ctx'[MAIN] = ctx[MAIN]
  <2>1. CASE GtGo \/ NewJobMade \/ NewJobQueued
    BY <2>1 DEF GtGo, NewJobMade, NewJobQueued, gvars
  <2>2. CASE StackReady
    BY <1>3, <2>2, MainAssumption DEF StackReady, Inv, SwitchInv, Thread
  <2> QED
    BY <2>1, <2>2
<1>5. ~ moved /\ ~ cut
  BY DEF Quiet
<1>8. ~ moved'
  <2>1. NewJobMade => moved' = FALSE
    BY DEF NewJobMade
  <2>2. GtGo \/ NewJobQueued \/ StackReady => moved' = moved
    BY DEF GtGo, NewJobQueued, StackReady, gvars
  <2> QED
    BY <1>5, <2>1, <2>2
<1>9. ~ cut'
  <2>1. GtGo \/ NewJobMade \/ StackReady => cut' = cut
    BY DEF GtGo, NewJobMade, StackReady
  <2>2. NewJobQueued => ~ cut'
    <3> SUFFICES ASSUME NewJobQueued
                 PROVE  ~ cut'
      OBVIOUS
    <3>1. cut' = (cut \/ moved)
      BY Zenon DEF NewJobQueued
    <3> QED
      BY <1>5, <3>1, Zenon
  <2> QED
    BY <1>5, <2>1, <2>2
<1>10. ~ moved' /\ ~ cut'
  BY <1>8, <1>9
<1>6. CASE GtGo
  <2> DEFINE ops == <<[op |-> "info", job |-> j], [op |-> "link", job |-> j], [op |-> "stack", job |-> j]>>
  <2>1. script' = ops \o r /\ script[1].op = "gtgo"
    <3>1. script' = Steps(<<"info", "link", "stack">>, j) \o r
      BY <1>6 DEF GtGo, Then
    <3>2. Steps(<<"info", "link", "stack">>, j) = ops
      BY DEF Steps
    <3>3. script[1].op = "gtgo"
      BY <1>2, <1>6 DEF GtGo, Calls
    <3> HIDE DEF ops
    <3> QED
      BY <3>1, <3>2, <3>3
  <2>2. /\ ops \in Seq(Statement) /\ Len(ops) = 3 /\ ops[1].op = "info"
        /\ \A i \in 1 .. 3 : ~ Starts(ops[i])
    <3>1. /\ ops[1] = [op |-> "info", job |-> j] /\ ops[2] = [op |-> "link", job |-> j]
          /\ ops[3] = [op |-> "stack", job |-> j] /\ ops \in Seq(Statement) /\ Len(ops) = 3
      BY <1>3 DEF Statement
    <3>2. ~ Starts(ops[1]) /\ ~ Starts(ops[2]) /\ ~ Starts(ops[3]) /\ ops[1].op = "info"
      BY <3>1 DEF Starts
    <3>3. \A i \in 1 .. 3 : i = 1 \/ i = 2 \/ i = 3
      OBVIOUS
    <3> HIDE DEF ops
    <3> QED
      BY <3>1, <3>2, <3>3
  <2> HIDE DEF ops, j, r
  <2>3. /\ ops \o r \in Seq(Statement) /\ Len(ops \o r) = 3 + Len(r)
        /\ \A i \in 1 .. 3 + Len(r) : (ops \o r)[i] = IF i <= 3 THEN ops[i] ELSE r[i - 3]
    <3>1. r \in Seq(Statement) /\ ops \in Seq(Statement)
      BY <1>2, <2>2
    <3> HIDE DEF Statement
    <3>2. /\ ops \o r \in Seq(Statement) /\ Len(ops \o r) = Len(ops) + Len(r)
          /\ \A i \in 1 .. Len(ops) + Len(r) :
               (ops \o r)[i] = IF i <= Len(ops) THEN ops[i] ELSE r[i - Len(ops)]
      BY <3>1, ConcatProperties
    <3> QED
      BY <2>2, <3>2
  <2>4. timer = "off"
    BY <1>2, <2>1 DEF Quiet, Inserts
  <2>5. \A i \in 1 .. 3 + Len(r) : Starts((ops \o r)[i]) => i > 3 /\ i - 3 \in 1 .. Len(r) /\ Starts(r[i - 3])
    BY <1>2, <2>2, <2>3
  <2>6. ASSUME NEW i \in 1 .. 3 + Len(r), NEW k \in 1 .. 3 + Len(r),
               Starts((ops \o r)[i]), Inserts((ops \o r)[k])
        PROVE  k < i
    <3>1. i > 3 /\ i - 3 \in 1 .. Len(r) /\ Starts(r[i - 3])
      BY <2>5, <2>6
    <3>2. CASE k <= 3
      BY <3>1, <3>2
    <3>3. CASE k > 3
      <4>1. k - 3 \in 1 .. Len(r) /\ Inserts(r[k - 3])
        BY <1>2, <2>3, <2>6, <3>3
      <4>2. k - 3 < i - 3
        BY <1>2, <3>1, <4>1 DEF InsertsFirst
      <4> QED
        BY <4>2
    <3> QED
      BY <3>2, <3>3
  <2>7. InsertsFirst(ops \o r)
    BY <2>3, <2>6 DEF InsertsFirst
  <2> QED
    BY <1>4, <1>10, <2>1, <2>3, <2>4, <2>7 DEF Quiet
<1>7. CASE ~ GtGo
  <2>1. script' = r
    <3>1. script' = <<>> \o r
      BY <1>7 DEF NewJobMade, NewJobQueued, StackReady, Then
    <3> HIDE DEF r
    <3> QED
      BY <1>2, <3>1, ConcatEmptySeq
  <2> QED
    BY <1>2, <1>4, <1>10, <2>1 DEF Quiet
<1> QED
  BY <1>6, <1>7

\* A step after which the timer runs, with no insertion left.
LEMMA StartedQuiet ==
  ASSUME Inv, Quiet,
         \/ script' = script /\ \A i \in 1 .. Len(script) : ~ Inserts(script[i])
         \/ script # <<>> /\ Starts(script[1]) /\ script' = Tail(script),
         timer' # "off", cut' = cut,
         moved' = moved \/ moved' = (Linking /\ (moved \/ lib'.queue # lib.queue))
  PROVE  Quiet'
<1>0. script \in Seq(Statement) /\ InsertsFirst(script)
  BY DEF Inv, ScriptInv, Quiet
<1>1. InsertsFirst(script') /\ \A i \in 1 .. Len(script') : ~ Inserts(script'[i])
  <2>1. CASE script' = script /\ \A i \in 1 .. Len(script) : ~ Inserts(script[i])
    BY <1>0, <2>1
  <2>2. CASE script # <<>> /\ Starts(script[1]) /\ script' = Tail(script)
    BY <1>0, <2>2, RestInsertsFirst
  <2> QED
    BY <2>1, <2>2
<1>2. ~ Linking
  <2>1. ASSUME script # <<>>
        PROVE  Head(script) = script[1] /\ ~ Inserts(script[1])
    <3>1. Head(script) = script[1] /\ 1 \in 1 .. Len(script)
      BY <1>0, <2>1, RestInsertsFirst
    <3>2. Starts(script[1]) => ~ Inserts(script[1])
      BY DEF Starts, Inserts
    <3> QED
      BY <3>1, <3>2
  <2> QED
    BY <2>1 DEF Linking, Inserts
<1>3. ~ moved' /\ ~ cut'
  <2>1. ~ moved /\ ~ cut
    BY DEF Quiet
  <2>2. ~ cut'
    BY <2>1
  <2>3. moved' = (Linking /\ (moved \/ lib'.queue # lib.queue)) => ~ moved'
    BY <1>2
  <2> QED
    BY <2>1, <2>2, <2>3
<1> QED
  BY <1>1, <1>3 DEF Quiet

\* gtyield leaves the timer running.
LEMMA YieldStarts ==
  ASSUME NEW sig, GtYield(sig) \/ Expire(sig)
  PROVE  /\ timer' # "off"
         /\ moved' = moved \/ moved' = (Linking /\ (moved \/ lib'.queue # lib.queue))
<1>1. CASE Expire(sig)
  <2>1. timer' # "off"
    BY <1>1 DEF Expire, Rearmed
  <2>2. moved' = (Linking /\ (moved \/ lib'.queue # lib.queue))
    BY <1>1, Zenon DEF Expire
  <2> QED
    BY <2>1, <2>2
<1>2. CASE ToSuspended \/ ToMain
  BY <1>2 DEF ToSuspended, ToMain
<1> QED
  BY <1>1, <1>2 DEF GtYield

\* The first statement, when main is at one.
LEMMA CallIsFirst ==
  ASSUME Inv, NEW op, Calls(op), Then(<<>>)
  PROVE  script # <<>> /\ script[1].op = op /\ script' = Tail(script)
<1>1. script \in Seq(Statement) /\ script # <<>> /\ Head(script).op = op
  BY DEF Inv, ScriptInv, Calls
<1>2. Head(script) = script[1] /\ Tail(script) \in Seq(Statement)
  BY <1>1, HeadTailProperties
<1>3. script' = Tail(script)
  BY <1>2, ConcatEmptySeq DEF Then
<1> QED
  BY <1>1, <1>2, <1>3

\* Every step keeps such a program quiet.
LEMMA NextQuiet ==
  ASSUME Inv, Quiet, [Next]_vars
  PROVE  Quiet'
<1>1. CASE UNCHANGED <<gvars, script, cut>>
  BY <1>1 DEF gvars, Quiet, InsertsFirst
<1>2. CASE GtGo \/ NewJobMade \/ NewJobQueued \/ StackReady
  BY <1>2, MainQuiet
<1>3. CASE GtStart
  <2>1. script # <<>> /\ Starts(script[1]) /\ script' = Tail(script)
    BY <1>3, CallIsFirst DEF GtStart, Starts
  <2>2. timer' # "off" /\ moved' = moved /\ cut' = cut
    BY <1>3 DEF GtStart
  <2> QED
    BY <2>1, <2>2, StartedQuiet
<1>4. CASE GtSleep
  <2>1. script # <<>> /\ Starts(script[1]) /\ script' = Tail(script)
    BY <1>4, CallIsFirst DEF GtSleep, Starts
  <2>2. GtYield(GTSLEEP_SIG) /\ cut' = cut
    BY <1>4 DEF GtSleep
  <2> QED
    BY <2>1, <2>2, YieldStarts, StartedQuiet
<1>5. ASSUME NEW sig, GtYield(sig) \/ Expire(sig), script' = script, cut' = cut,
             timer # "off" \/ script = <<>>
      PROVE  Quiet'
  <2>1. \A i \in 1 .. Len(script) : ~ Inserts(script[i])
    <3>1. CASE timer # "off"
      BY <3>1 DEF Quiet
    <3>2. CASE script = <<>>
      BY <3>2
    <3> QED
      BY <1>5, <3>1, <3>2
  <2> QED
    BY <1>5, <2>1, YieldStarts, StartedQuiet
<1>6. CASE Alarm
  BY <1>5, <1>6 DEF Alarm
<1>7. CASE GtRet
  BY <1>5, <1>7 DEF GtRet
<1>8. currjob \in Job => timer # "off"
  BY DEF Inv, SwitchInv
<1>9. CASE FallThrough
  <2>1. timer # "off"
    BY <1>8, <1>9 DEF FallThrough, InYield, Quiet, Inv, PlaceInv, Thread
  <2> QED
    BY <1>5, <1>9, <2>1 DEF FallThrough
<1>10. ASSUME NEW k \in Job, Leave(k) \/ \E sig \in {YIELD, GTSLEEP_SIG} : JobYield(k, sig)
       PROVE  Quiet'
  <2>1. timer # "off"
    BY <1>8, <1>10 DEF Leave, JobYield, Step, InUser
  <2> QED
    BY <1>5, <1>10, <2>1 DEF Leave, JobYield
<1>11. CASE Exit
  BY <1>11 DEF Exit, Quiet, InsertsFirst
<1>12. ASSUME NEW k \in Job, Run(k) \/ GtStop(k)
       PROVE  Quiet'
  BY <1>1, <1>12 DEF Run, GtStop
<1> QED
  BY <1>1, <1>2, <1>3, <1>4, <1>6, <1>7, <1>9, <1>10, <1>11, <1>12
     DEF Next, Threads, Main, JobStep, vars

\* In a program that calls gtstart and gtsleep only after its last gtgo no alarm
\* comes inside priqueue_offer, so that nothing of the above ends.
THEOREM NeverCut == StartsLast /\ Spec => []~ cut
<1>1. StartsLast /\ Init => Quiet
  BY QuietInit
<1>2. Quiet /\ (~ cut => Inv) /\ [Next]_vars => Quiet'
  BY NextQuiet DEF Quiet
<1>3. Quiet => ~ cut
  BY DEF Quiet
<1> QED
  BY <1>1, <1>2, <1>3, SpecInv, PTL DEF Spec
==============================================================================
