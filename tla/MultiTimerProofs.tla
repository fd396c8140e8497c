-------------------------- MODULE MultiTimerProofs --------------------------
(***************************************************************************)
(* What holds of the timer package for any clients, times, periods and     *)
(* depth of recursion.  The pending timers are looked at as a set of cells *)
(* with at most one per client; timer_set removes the client's cell and    *)
(* puts another one in its place in time order.  And that the operations   *)
(* on the times of vam_time.h are right, for words and units of any size.  *)
(***************************************************************************)
EXTENDS MultiTimer, VamTime, NatRecursion, SequenceTheorems

NormalTv == {t \in timeval : Normal(t)}
Cells == [time : NormalTv, interval : NormalTv, client : Clients \cup {NULL}]

-----------------------------------------------------------------------------
(* timevals.                                                               *)

\* A timeval's value is a number.
LEMMA ValueIsInt ==
  ASSUME NEW t \in timeval
  PROVE  Value(t) \in Int
BY UsecAssumption DEF timeval, Value

\* A number of microseconds becomes a normal timeval.
LEMMA TvIsNormal ==
  ASSUME NEW n \in Int
  PROVE  tv(n) \in NormalTv /\ Zero \in NormalTv
<1>1. n \div UsecPerSec \in Int /\ n % UsecPerSec \in 0..UsecPerSec - 1
  BY UsecAssumption
<1> QED
  BY <1>1, UsecAssumption DEF tv, NormalTv, timeval, Normal, Zero

\* The comparison of timevals compares their values, if they are normal.
LEMMA LessIsLess ==
  ASSUME NEW a \in NormalTv, NEW b \in NormalTv
  PROVE  timerless(a, b) <=> Value(a) < Value(b)
<1> DEFINE U == UsecPerSec
<1>1. /\ a.sec \in Int /\ b.sec \in Int /\ a.usec \in 0..U - 1 /\ b.usec \in 0..U - 1
      /\ U \in Nat \ {0}
  BY UsecAssumption DEF NormalTv, timeval, Normal
<1>2. ASSUME NEW x \in Int, NEW y \in Int, NEW u \in 0..U - 1, NEW v \in 0..U - 1, x < y
      PROVE  x * U + u < y * U + v
  <2>1. (y - x) * U >= U
    BY <1>1, <1>2
  <2>2. (y - x) * U = y * U - x * U /\ x * U \in Int /\ y * U \in Int
    BY <1>1
  <2> QED
    BY <1>1, <2>1, <2>2
<1>3. CASE a.sec < b.sec
  BY <1>1, <1>2, <1>3 DEF timerless, Value
<1>4. CASE b.sec < a.sec
  <2>1. Value(b) < Value(a)
    BY <1>1, <1>2, <1>4 DEF Value
  <2> QED
    BY <1>1, <1>4, <2>1, ValueIsInt DEF timerless, NormalTv
<1>5. CASE a.sec = b.sec
  BY <1>1, <1>5 DEF timerless, Value
<1> QED
  BY <1>1, <1>3, <1>4, <1>5

\* timeradd carries.
LEMMA AddIsNormal ==
  ASSUME NEW a \in NormalTv, NEW b \in NormalTv
  PROVE  timeradd(a, b) \in NormalTv
BY UsecAssumption DEF timeradd, NormalTv, timeval, Normal

\* The subtraction in timer_get borrows.
LEMMA UntilIsDifference ==
  ASSUME NEW a \in NormalTv, NEW b \in NormalTv
  PROVE  Until(a, b) \in NormalTv /\ Value(Until(a, b)) = Value(a) - Value(b)
<1> DEFINE U == UsecPerSec
<1>1. /\ a.sec \in Int /\ b.sec \in Int /\ a.usec \in 0..U - 1 /\ b.usec \in 0..U - 1
      /\ U \in Nat \ {0}
  BY UsecAssumption DEF NormalTv, timeval, Normal
<1>2. Until(a, b) \in NormalTv
  BY <1>1 DEF Until, NormalTv, timeval, Normal
<1>3. /\ (a.sec - b.sec) * U = a.sec * U - b.sec * U
      /\ (a.sec - b.sec - 1) * U = a.sec * U - b.sec * U - U
      /\ a.sec * U \in Int /\ b.sec * U \in Int
  BY <1>1
<1>4. CASE a.usec - b.usec < 0
  <2>1. Until(a, b) = [sec |-> a.sec - b.sec - 1, usec |-> a.usec - b.usec + U]
    BY <1>4 DEF Until
  <2> QED
    BY <1>1, <1>2, <1>3, <2>1 DEF Value
<1>5. CASE ~(a.usec - b.usec < 0)
  <2>1. Until(a, b) = [sec |-> a.sec - b.sec, usec |-> a.usec - b.usec]
    BY <1>5 DEF Until
  <2> QED
    BY <1>1, <1>2, <1>3, <2>1 DEF Value
<1> QED
  BY <1>4, <1>5

-----------------------------------------------------------------------------
(* Sequences without one of their places.                                  *)

\* r is q without its p-th element.
Without(q, p, r) ==
  /\ p \in 1..Len(q) /\ Len(q) = Len(r) + 1
  /\ \A i \in 1..Len(r) : r[i] = IF i < p THEN q[i] ELSE q[i + 1]

\* RemoveAt, as timer_set unlinks the client's element.
LEMMA RemoveAtIs ==
  ASSUME NEW S, NEW q \in Seq(S), NEW p \in 1..Len(q)
  PROVE  RemoveAt(q, p) \in Seq(S) /\ Without(q, p, RemoveAt(q, p))
<1> DEFINE a == SubSeq(q, 1, p - 1)
           b == SubSeq(q, p + 1, Len(q))
<1>0. Len(q) \in Nat /\ p \in Nat
  BY LenProperties
<1>1. /\ a \in Seq(S) /\ Len(a) = p - 1 /\ \A i \in 1..p - 1 : a[i] = q[i]
  <2>1. \A i \in 1..p - 1 : q[i] \in S
    BY <1>0
  <2>2. /\ a \in Seq(S) /\ Len(a) = IF 1 <= p - 1 THEN p - 1 - 1 + 1 ELSE 0
        /\ \A i \in 1..p - 1 - 1 + 1 : a[i] = q[1 + i - 1]
    BY <1>0, <2>1, SubSeqProperties
  <2> HIDE DEF a
  <2> QED
    BY <1>0, <2>2
<1>2. /\ b \in Seq(S) /\ Len(b) = Len(q) - p
      /\ \A i \in 1..Len(q) - p : b[i] = q[p + i]
  <2>1. \A i \in p + 1..Len(q) : q[i] \in S
    BY <1>0
  <2>2. /\ b \in Seq(S)
        /\ Len(b) = IF p + 1 <= Len(q) THEN Len(q) - (p + 1) + 1 ELSE 0
        /\ \A i \in 1..Len(q) - (p + 1) + 1 : b[i] = q[p + 1 + i - 1]
    BY <1>0, <2>1, SubSeqProperties
  <2> HIDE DEF b
  <2> QED
    BY <1>0, <2>2
<1>3. RemoveAt(q, p) = a \o b
  BY DEF RemoveAt
<1> HIDE DEF a, b
<1>4. /\ a \o b \in Seq(S) /\ Len(a \o b) = Len(a) + Len(b)
      /\ \A i \in 1..Len(a) + Len(b) : (a \o b)[i] = IF i <= Len(a) THEN a[i] ELSE b[i - Len(a)]
  BY <1>1, <1>2, ConcatProperties
<1> DEFINE r == a \o b
<1>5. r \in Seq(S) /\ Len(q) = Len(r) + 1
  BY <1>0, <1>1, <1>2, <1>4
<1>6. ASSUME NEW i \in 1..Len(r)
      PROVE  r[i] = IF i < p THEN q[i] ELSE q[i + 1]
  <2>1. i \in 1..Len(a) + Len(b)
    BY <1>4
  <2>2. CASE i < p
    BY <1>0, <1>1, <1>4, <2>1, <2>2
  <2>3. CASE ~(i < p)
    <3>1. i - (p - 1) \in 1..Len(q) - p /\ p + (i - (p - 1)) = i + 1
      BY <1>0, <1>1, <1>2, <2>1, <2>3
    <3>2. r[i] = b[i - (p - 1)]
      BY <1>0, <1>1, <1>4, <2>1, <2>3
    <3> QED
      BY <1>2, <2>3, <3>1, <3>2
  <2> QED
    BY <2>2, <2>3
<1> QED
  BY <1>3, <1>5, <1>6 DEF Without

\* InsertAt, as timer_set links the element before another.
LEMMA InsertAtIs ==
  ASSUME NEW S, NEW q \in Seq(S), NEW p \in 1..Len(q), NEW e \in S
  PROVE  /\ InsertAt(q, p, e) \in Seq(S) /\ Without(InsertAt(q, p, e), p, q)
         /\ InsertAt(q, p, e)[p] = e
<1> DEFINE a == SubSeq(q, 1, p - 1)
           b == SubSeq(q, p, Len(q))
           one == <<e>>
<1>0. Len(q) \in Nat /\ p \in Nat
  BY LenProperties
<1>1. /\ a \in Seq(S) /\ Len(a) = p - 1 /\ \A i \in 1..p - 1 : a[i] = q[i]
  <2>1. \A i \in 1..p - 1 : q[i] \in S
    BY <1>0
  <2>2. /\ a \in Seq(S) /\ Len(a) = IF 1 <= p - 1 THEN p - 1 - 1 + 1 ELSE 0
        /\ \A i \in 1..p - 1 - 1 + 1 : a[i] = q[1 + i - 1]
    BY <1>0, <2>1, SubSeqProperties
  <2> HIDE DEF a
  <2> QED
    BY <1>0, <2>2
<1>2. /\ b \in Seq(S) /\ Len(b) = Len(q) - p + 1
      /\ \A i \in 1..Len(q) - p + 1 : b[i] = q[p + i - 1]
  <2>1. \A i \in p..Len(q) : q[i] \in S
    BY <1>0
  <2>2. /\ b \in Seq(S)
        /\ Len(b) = IF p <= Len(q) THEN Len(q) - p + 1 ELSE 0
        /\ \A i \in 1..Len(q) - p + 1 : b[i] = q[p + i - 1]
    BY <1>0, <2>1, SubSeqProperties
  <2> HIDE DEF b
  <2> QED
    BY <1>0, <2>2
<1>3. InsertAt(q, p, e) = (a \o one) \o b
  BY DEF InsertAt
<1>4. one \in Seq(S) /\ Len(one) = 1 /\ one[1] = e
  OBVIOUS
<1> HIDE DEF a, b, one
<1> DEFINE c == a \o one
<1>5. /\ c \in Seq(S) /\ Len(c) = p /\ c[p] = e
      /\ \A i \in 1..p - 1 : c[i] = q[i]
  <2>1. /\ c \in Seq(S) /\ Len(c) = Len(a) + Len(one)
        /\ \A i \in 1..Len(a) + Len(one) : c[i] = IF i <= Len(a) THEN a[i] ELSE one[i - Len(a)]
    BY <1>1, <1>4, ConcatProperties
  <2> HIDE DEF c
  <2> QED
    BY <1>0, <1>1, <1>4, <2>1
<1>6. InsertAt(q, p, e) = c \o b
  BY <1>3
<1> HIDE DEF c
<1> DEFINE r == c \o b
<1>7. /\ r \in Seq(S) /\ Len(r) = Len(c) + Len(b)
      /\ \A i \in 1..Len(c) + Len(b) : r[i] = IF i <= Len(c) THEN c[i] ELSE b[i - Len(c)]
  BY <1>2, <1>5, ConcatProperties
<1> HIDE DEF r
<1>8. Len(r) = Len(q) + 1 /\ p \in 1..Len(r) /\ r[p] = e
  BY <1>0, <1>2, <1>5, <1>7
<1>9. ASSUME NEW i \in 1..Len(q)
      PROVE  q[i] = IF i < p THEN r[i] ELSE r[i + 1]
  <2>1. CASE i < p
    <3>1. i \in 1..p - 1 /\ i \in 1..Len(c) + Len(b) /\ i <= Len(c)
      BY <1>0, <1>2, <1>5, <2>1
    <3> QED
      BY <1>5, <1>7, <2>1, <3>1
  <2>2. CASE ~(i < p)
    <3>1. i + 1 - p \in 1..Len(q) - p + 1 /\ p + (i + 1 - p) - 1 = i
      BY <1>0, <2>2
    <3>2. r[i + 1] = b[i + 1 - p]
      BY <1>0, <1>2, <1>5, <1>7, <2>2
    <3> QED
      BY <1>2, <2>2, <3>1, <3>2
  <2> QED
    BY <2>1, <2>2
<1>10. InsertAt(q, p, e) = r
  BY <1>6 DEF r
<1> QED
  BY <1>7, <1>8, <1>9, <1>10 DEF Without

\* Append, at the end of the queue.
LEMMA AppendIs ==
  ASSUME NEW S, NEW q \in Seq(S), NEW e \in S
  PROVE  /\ Append(q, e) \in Seq(S) /\ Without(Append(q, e), Len(q) + 1, q)
         /\ Append(q, e)[Len(q) + 1] = e
<1>0. Len(q) \in Nat
  BY LenProperties
<1> QED
  BY <1>0, AppendProperties DEF Without

\* Cons, at the head of the free list.
LEMMA ConsIs ==
  ASSUME NEW S, NEW q \in Seq(S), NEW e \in S
  PROVE  Cons(e, q) \in Seq(S) /\ Without(Cons(e, q), 1, q) /\ Cons(e, q)[1] = e
<1> DEFINE one == <<e>>
           r == one \o q
<1>0. Len(q) \in Nat
  BY LenProperties
<1>1. one \in Seq(S) /\ Len(one) = 1 /\ one[1] = e
  OBVIOUS
<1> HIDE DEF one
<1>2. /\ r \in Seq(S) /\ Len(r) = Len(one) + Len(q)
      /\ \A i \in 1..Len(one) + Len(q) : r[i] = IF i <= Len(one) THEN one[i] ELSE q[i - Len(one)]
  BY <1>1, ConcatProperties
<1>3. Cons(e, q) = r
  BY DEF Cons, one
<1> HIDE DEF r
<1>4. Len(r) = Len(q) + 1 /\ r[1] = e
  BY <1>0, <1>1, <1>2
<1>5. \A i \in 1..Len(q) : q[i] = r[i + 1] /\ ~(i < 1)
  BY <1>0, <1>1, <1>2
<1> QED
  BY <1>0, <1>2, <1>3, <1>4, <1>5 DEF Without

\* Head and Tail, of the queue or of the free list.
LEMMA TailIs ==
  ASSUME NEW S, NEW q \in Seq(S), q # << >>
  PROVE  Head(q) = q[1] /\ Head(q) \in S /\ Tail(q) \in Seq(S) /\ Without(q, 1, Tail(q))
<1>1. Len(q) \in Nat \ {0} /\ Head(q) = q[1]
  BY EmptySeq
<1>2. /\ Head(q) \in S /\ Tail(q) \in Seq(S) /\ Len(Tail(q)) = Len(q) - 1
      /\ \A i \in 1..Len(Tail(q)) : Tail(q)[i] = q[i + 1]
  BY HeadTailProperties
<1>3. \A i \in 1..Len(Tail(q)) : ~(i < 1)
  BY <1>1, <1>2
<1> QED
  BY <1>1, <1>2, <1>3 DEF Without

-----------------------------------------------------------------------------
(* The two lists share out the heap.                                       *)

Distinct(q) == \A i, j \in 1..Len(q) : q[i] = q[j] => i = j
Has(q, k) == \E i \in 1..Len(q) : q[i] = k
\* Each element of D is on one of the lists, once, and nothing else is.
Shared(D, q, f) ==
  /\ q \in Seq(D) /\ f \in Seq(D)
  /\ Distinct(q) /\ Distinct(f)
  /\ \A i \in 1..Len(q), j \in 1..Len(f) : q[i] # f[j]
  /\ \A k \in D : Has(q, k) \/ Has(f, k)

\* The elements of r are those of q at other places than p.
OthersOf(q, p, r) ==
  /\ \A i \in 1..Len(r) : \E j \in 1..Len(q) : j # p /\ r[i] = q[j]
  /\ \A j \in 1..Len(q) : j # p => \E i \in 1..Len(r) : r[i] = q[j]

\* Where the elements of q are once the p-th is gone.
LEMMA Places ==
  ASSUME NEW q, NEW r, NEW p, Len(q) \in Nat, Len(r) \in Nat, Without(q, p, r)
  PROVE  OthersOf(q, p, r)
<1>1. /\ Len(q) \in Nat /\ Len(r) \in Nat /\ p \in 1..Len(q) /\ Len(q) = Len(r) + 1
      /\ \A i \in 1..Len(r) : r[i] = IF i < p THEN q[i] ELSE q[i + 1]
  BY DEF Without
<1>2. ASSUME NEW i \in 1..Len(r)
      PROVE  \E j \in 1..Len(q) : j # p /\ r[i] = q[j]
  <2>1. CASE i < p
    <3>1. i \in 1..Len(q) /\ i # p /\ r[i] = q[i]
      BY <1>1, <2>1
    <3> QED
      BY <3>1
  <2>2. CASE ~(i < p)
    <3>1. i + 1 \in 1..Len(q) /\ i + 1 # p /\ r[i] = q[i + 1]
      BY <1>1, <2>2
    <3> QED
      BY <3>1
  <2> QED
    BY <2>1, <2>2
<1>3. ASSUME NEW j \in 1..Len(q), j # p
      PROVE  \E i \in 1..Len(r) : r[i] = q[j]
  <2>1. CASE j < p
    <3>1. j \in 1..Len(r) /\ r[j] = q[j]
      BY <1>1, <2>1
    <3> QED
      BY <3>1
  <2>2. CASE ~(j < p)
    <3>1. j - 1 \in 1..Len(r) /\ ~(j - 1 < p) /\ (j - 1) + 1 = j
      BY <1>1, <1>3, <2>2
    <3>2. r[j - 1] = q[j]
      BY <1>1, <3>1
    <3> QED
      BY <3>1, <3>2
  <2> QED
    BY <2>1, <2>2
<1> QED
  BY <1>1, <1>2, <1>3 DEF OthersOf

\* A list of distinct elements without its p-th is one of the others.
LEMMA DistinctWithout ==
  ASSUME NEW q, NEW r, NEW p, Len(q) \in Nat, Len(r) \in Nat, Without(q, p, r)
  PROVE  Distinct(q) <=> Distinct(r) /\ ~Has(r, q[p])
<1>1. /\ Len(q) \in Nat /\ Len(r) \in Nat /\ p \in 1..Len(q) /\ Len(q) = Len(r) + 1
      /\ \A i \in 1..Len(r) : r[i] = IF i < p THEN q[i] ELSE q[i + 1]
  BY DEF Without
<1> DEFINE at(j) == IF j < p THEN j ELSE j - 1
           back(i) == IF i < p THEN i ELSE i + 1
<1>2. ASSUME NEW j \in 1..Len(q), j # p
      PROVE  at(j) \in 1..Len(r) /\ r[at(j)] = q[j]
  <2>1. CASE j < p
    BY <1>1, <2>1
  <2>2. CASE ~(j < p)
    <3>1. j - 1 \in 1..Len(r) /\ ~(j - 1 < p) /\ (j - 1) + 1 = j /\ at(j) = j - 1
      BY <1>1, <1>2, <2>2
    <3> QED
      BY <1>1, <3>1
  <2> QED
    BY <2>1, <2>2
<1>3. ASSUME NEW i \in 1..Len(r)
      PROVE  back(i) \in 1..Len(q) /\ back(i) # p /\ r[i] = q[back(i)]
  BY <1>1
<1>4. ASSUME NEW i \in 1..Len(q), NEW j \in 1..Len(q), i # p, j # p, at(i) = at(j)
      PROVE  i = j
  BY <1>1, <1>4
<1>5. ASSUME NEW i \in 1..Len(r), NEW j \in 1..Len(r), back(i) = back(j)
      PROVE  i = j
  BY <1>1, <1>5
<1> HIDE DEF at, back
<1>6. ASSUME Distinct(q)
      PROVE  Distinct(r) /\ ~Has(r, q[p])
  BY <1>1, <1>3, <1>5, <1>6 DEF Distinct, Has
<1>7. ASSUME Distinct(r), ~Has(r, q[p])
      PROVE  Distinct(q)
  <2> SUFFICES ASSUME NEW i \in 1..Len(q), NEW j \in 1..Len(q), q[i] = q[j]
               PROVE  i = j
    BY DEF Distinct
  <2>1. i # p => at(i) \in 1..Len(r) /\ r[at(i)] = q[i]
    BY <1>2
  <2>2. j # p => at(j) \in 1..Len(r) /\ r[at(j)] = q[j]
    BY <1>2
  <2>3. i = p <=> j = p
    BY <1>7, <2>1, <2>2 DEF Has
  <2>4. CASE i # p
    <3>1. at(i) = at(j)
      BY <1>7, <2>1, <2>2, <2>3, <2>4 DEF Distinct
    <3> QED
      BY <1>4, <2>3, <2>4, <3>1
  <2> QED
    BY <2>3, <2>4
<1> QED
  BY <1>6, <1>7

\* The lists are shared out alike whichever is named first.
LEMMA SharedSwaps ==
  ASSUME NEW D, NEW q, NEW f, Shared(D, q, f)
  PROVE  Shared(D, f, q)
BY DEF Shared

\* Unlinking an element leaves the others shared out.
LEMMA SharedWithout ==
  ASSUME NEW D, NEW q, NEW f, NEW p, NEW r \in Seq(D), Shared(D, q, f), Without(q, p, r)
  PROVE  Shared(D \ {q[p]}, r, f) /\ q[p] \in D
<1>0. /\ q \in Seq(D) /\ f \in Seq(D) /\ Distinct(q) /\ Distinct(f) /\ p \in 1..Len(q)
      /\ Len(q) \in Nat /\ Len(r) \in Nat
  BY LenProperties DEF Shared, Without
<1>1. Distinct(r) /\ ~Has(r, q[p])
  BY <1>0, DistinctWithout
<1>2. q[p] \in D /\ \A j \in 1..Len(f) : f[j] # q[p]
  BY <1>0 DEF Shared
<1> DEFINE E == D \ {q[p]}
<1>3. r \in Seq(E)
  <2>1. \A i \in 1..Len(r) : r[i] \in E
    BY <1>0, <1>1 DEF Has
  <2>2. r \in [1..Len(r) -> D] /\ Len(r) \in Nat
    BY LenProperties
  <2>3. r \in [1..Len(r) -> E]
    BY <2>1, <2>2
  <2> QED
    BY <2>2, <2>3, SeqDef
<1>4. f \in Seq(E)
  <2>1. \A i \in 1..Len(f) : f[i] \in E
    BY <1>0, <1>2
  <2>2. f \in [1..Len(f) -> D] /\ Len(f) \in Nat
    BY <1>0, LenProperties
  <2>3. f \in [1..Len(f) -> E]
    BY <2>1, <2>2
  <2> QED
    BY <2>2, <2>3, SeqDef
<1>5. ASSUME NEW i \in 1..Len(r), NEW j \in 1..Len(f)
      PROVE  r[i] # f[j]
  <2>1. OthersOf(q, p, r)
    BY <1>0, Places
  <2>2. PICK k \in 1..Len(q) : r[i] = q[k]
    BY <2>1 DEF OthersOf
  <2> QED
    BY <2>2 DEF Shared
<1>6. ASSUME NEW k \in E
      PROVE  Has(r, k) \/ Has(f, k)
  <2>1. CASE Has(q, k)
    <3>1. PICK j \in 1..Len(q) : q[j] = k
      BY <2>1 DEF Has
    <3>2. j # p
      BY <3>1
    <3>3. OthersOf(q, p, r)
      BY <1>0, Places
    <3>4. \E i \in 1..Len(r) : r[i] = q[j]
      BY <3>2, <3>3 DEF OthersOf
    <3> QED
      BY <3>1, <3>4 DEF Has
  <2> QED
    BY <2>1 DEF Shared
<1> QED
  BY <1>0, <1>1, <1>2, <1>3, <1>4, <1>5, <1>6 DEF Shared

\* Linking an element that was on neither list shares it out too.
LEMMA SharedWith ==
  ASSUME NEW D, NEW q, NEW f, NEW p, NEW E, NEW r \in Seq(E), Shared(D, q, f),
         Without(r, p, q), r[p] \notin D, E = D \cup {r[p]}
  PROVE  Shared(E, r, f)
<1>1. /\ q \in Seq(D) /\ f \in Seq(D) /\ p \in 1..Len(r)
      /\ Distinct(q) /\ Distinct(f) /\ \A k \in D : Has(q, k) \/ Has(f, k)
      /\ \A i \in 1..Len(q), j \in 1..Len(f) : q[i] # f[j]
      /\ Len(q) \in Nat /\ Len(r) \in Nat
  BY LenProperties DEF Shared, Without
<1>2. ~Has(q, r[p]) /\ \A j \in 1..Len(f) : f[j] \in D
  BY <1>1 DEF Has
<1>3. Distinct(r)
  BY <1>1, <1>2, DistinctWithout
<1>4. f \in Seq(E)
  BY <1>1, SeqMonotonic
<1>5. ASSUME NEW i \in 1..Len(r), NEW j \in 1..Len(f)
      PROVE  r[i] # f[j]
  <2>1. CASE i = p
    BY <1>2, <2>1
  <2>2. CASE i # p
    <3>1. OthersOf(r, p, q)
      BY <1>1, Places
    <3>2. PICK k \in 1..Len(q) : q[k] = r[i]
      BY <2>2, <3>1 DEF OthersOf
    <3> QED
      BY <1>1, <3>2
  <2> QED
    BY <2>1, <2>2
<1>6. ASSUME NEW k \in E
      PROVE  Has(r, k) \/ Has(f, k)
  <2>1. CASE k = r[p]
    BY <1>1, <2>1 DEF Has
  <2>2. CASE Has(q, k)
    <3>1. PICK i \in 1..Len(q) : q[i] = k
      BY <2>2 DEF Has
    <3>2. OthersOf(r, p, q)
      BY <1>1, Places
    <3> QED
      BY <3>1, <3>2 DEF Has, OthersOf
  <2> QED
    BY <1>1, <2>1, <2>2
<1> QED
  BY <1>1, <1>3, <1>4, <1>5, <1>6 DEF Shared

-----------------------------------------------------------------------------
(* The pending timers, in order and one per client.                        *)

CellsOf(h, q) == {h[q[i]] : i \in 1..Len(q)}
OneEach(h, q) == \A i, j \in 1..Len(q) : h[q[i]].client = h[q[j]].client => i = j
Sorted(h, q) ==
  \A i, j \in 1..Len(q) : i < j => Value(h[q[i]].time) <= Value(h[q[j]].time)
Queued(h, q) == q \in Seq(1..Len(h)) /\ OneEach(h, q) /\ Sorted(h, q)

\* The queue without its p-th timer is the queue without that client's timer.
LEMMA UnlinkKeeps ==
  ASSUME NEW h \in Seq(Cells), NEW q, Queued(h, q),
         NEW r \in Seq(1..Len(h)), NEW p, Without(q, p, r)
  PROVE  /\ Queued(h, r)
         /\ CellsOf(h, r) = {x \in CellsOf(h, q) : x.client # h[q[p]].client}
<1>1. /\ q \in Seq(1..Len(h)) /\ Len(q) \in Nat /\ Len(r) \in Nat /\ p \in 1..Len(q)
      /\ Len(q) = Len(r) + 1
      /\ \A i \in 1..Len(r) : r[i] = IF i < p THEN q[i] ELSE q[i + 1]
  BY LenProperties DEF Without, Queued
<1> DEFINE back(i) == IF i < p THEN i ELSE i + 1
<1>2. ASSUME NEW i \in 1..Len(r)
      PROVE  back(i) \in 1..Len(q) /\ r[i] = q[back(i)]
  BY <1>1
<1>3. ASSUME NEW i \in 1..Len(r), NEW j \in 1..Len(r)
      PROVE  (back(i) = back(j) => i = j) /\ (i < j => back(i) < back(j))
  <2>1. i \in Int /\ j \in Int /\ p \in Int
    BY <1>1
  <2> QED
    BY <2>1
<1> HIDE DEF back
<1>4. OneEach(h, r)
  <2> SUFFICES ASSUME NEW i \in 1..Len(r), NEW j \in 1..Len(r),
                      h[r[i]].client = h[r[j]].client
               PROVE  i = j
    BY DEF OneEach
  <2>1. /\ back(i) \in 1..Len(q) /\ r[i] = q[back(i)]
        /\ back(j) \in 1..Len(q) /\ r[j] = q[back(j)]
    BY <1>2
  <2>2. back(i) = back(j)
    BY <2>1 DEF OneEach, Queued
  <2> QED
    BY <1>3, <2>2
<1>5. Sorted(h, r)
  <2> SUFFICES ASSUME NEW i \in 1..Len(r), NEW j \in 1..Len(r), i < j
               PROVE  Value(h[r[i]].time) <= Value(h[r[j]].time)
    BY DEF Sorted
  <2>1. /\ back(i) \in 1..Len(q) /\ r[i] = q[back(i)]
        /\ back(j) \in 1..Len(q) /\ r[j] = q[back(j)]
    BY <1>2
  <2>2. back(i) < back(j)
    BY <1>3
  <2> QED
    BY <2>1, <2>2 DEF Sorted, Queued
<1>6. OthersOf(q, p, r)
  BY <1>1, Places
<1>7. ASSUME NEW j \in 1..Len(q)
      PROVE  j # p <=> h[q[j]].client # h[q[p]].client
  BY <1>1 DEF Queued, OneEach
<1>8. ASSUME NEW x \in CellsOf(h, r)
      PROVE  x \in CellsOf(h, q) /\ x.client # h[q[p]].client
  <2>1. PICK i \in 1..Len(r) : x = h[r[i]]
    BY DEF CellsOf
  <2>2. PICK j \in 1..Len(q) : j # p /\ r[i] = q[j]
    BY <1>6 DEF OthersOf
  <2> QED
    BY <1>7, <2>1, <2>2 DEF CellsOf
<1>9. ASSUME NEW x \in CellsOf(h, q), x.client # h[q[p]].client
      PROVE  x \in CellsOf(h, r)
  <2>1. PICK j \in 1..Len(q) : x = h[q[j]]
    BY DEF CellsOf
  <2>2. PICK i \in 1..Len(r) : r[i] = q[j]
    BY <1>6, <1>7, <1>9, <2>1 DEF OthersOf
  <2> QED
    BY <2>1, <2>2 DEF CellsOf
<1> QED
  BY <1>4, <1>5, <1>8, <1>9 DEF Queued

\* Where a timer goes in the queue: behind those that expire no later.
Fits(h, q, i, p, r) ==
  /\ r \in Seq(1..Len(h)) /\ Without(r, p, q) /\ r[p] = i
  /\ \A k \in 1..Len(q) :
       IF k < p THEN Value(h[q[k]].time) <= Value(h[i].time)
                ELSE Value(h[i].time) <= Value(h[q[k]].time)

\* No timer of the queue is the client's.
NoneOf(h, q, c) == \A x \in CellsOf(h, q) : x.client # c

\* Linking another client's timer where it belongs in time.
LEMMA LinkKeeps ==
  ASSUME NEW h \in Seq(Cells), NEW q, Queued(h, q),
         NEW r, NEW k, NEW p, Fits(h, q, k, p, r), NoneOf(h, q, h[k].client)
  PROVE  Queued(h, r) /\ CellsOf(h, r) = CellsOf(h, q) \cup {h[k]}
<1>0. /\ r \in Seq(1..Len(h)) /\ Without(r, p, q) /\ r[p] = k
      /\ \A x \in CellsOf(h, q) : x.client # h[r[p]].client
      /\ \A i \in 1..Len(q) :
           IF i < p THEN Value(h[q[i]].time) <= Value(h[r[p]].time)
                    ELSE Value(h[r[p]].time) <= Value(h[q[i]].time)
  BY DEF Fits, NoneOf
<1>1. /\ q \in Seq(1..Len(h)) /\ Len(q) \in Nat /\ Len(r) \in Nat /\ p \in 1..Len(r)
      /\ Len(r) = Len(q) + 1
      /\ \A i \in 1..Len(q) : q[i] = IF i < p THEN r[i] ELSE r[i + 1]
  BY <1>0, LenProperties DEF Without, Queued
<1> DEFINE at(j) == IF j < p THEN j ELSE j - 1
<1>2. ASSUME NEW j \in 1..Len(r), j # p
      PROVE  at(j) \in 1..Len(q) /\ r[j] = q[at(j)] /\ (at(j) < p <=> j < p)
  <2>1. CASE j < p
    BY <1>1, <2>1
  <2>2. CASE ~(j < p)
    <3>1. j - 1 \in 1..Len(q) /\ ~(j - 1 < p) /\ (j - 1) + 1 = j /\ at(j) = j - 1
      BY <1>1, <1>2, <2>2
    <3> QED
      BY <1>1, <2>2, <3>1
  <2> QED
    BY <2>1, <2>2
<1>3. ASSUME NEW i \in 1..Len(r), NEW j \in 1..Len(r), i # p, j # p
      PROVE  (at(i) = at(j) => i = j) /\ (i < j => at(i) < at(j))
  BY <1>1, <1>3
<1> HIDE DEF at
<1>4. ASSUME NEW j \in 1..Len(r), j # p
      PROVE  h[r[j]] \in CellsOf(h, q) /\ h[r[j]].client # h[r[p]].client
  BY <1>0, <1>2, <1>4 DEF CellsOf
<1>5. OneEach(h, r)
  <2> SUFFICES ASSUME NEW i \in 1..Len(r), NEW j \in 1..Len(r),
                      h[r[i]].client = h[r[j]].client
               PROVE  i = j
    BY DEF OneEach
  <2>1. i = p <=> j = p
    BY <1>4
  <2>2. CASE i # p
    <3>1. /\ at(i) \in 1..Len(q) /\ r[i] = q[at(i)]
          /\ at(j) \in 1..Len(q) /\ r[j] = q[at(j)]
      BY <1>2, <2>1, <2>2
    <3>2. at(i) = at(j)
      BY <3>1 DEF OneEach, Queued
    <3> QED
      BY <1>3, <2>1, <2>2, <3>2
  <2> QED
    BY <2>1, <2>2
<1>6. Sorted(h, r)
  <2> SUFFICES ASSUME NEW i \in 1..Len(r), NEW j \in 1..Len(r), i < j
               PROVE  Value(h[r[i]].time) <= Value(h[r[j]].time)
    BY DEF Sorted
  <2>1. CASE i # p /\ j # p
    <3>1. /\ at(i) \in 1..Len(q) /\ r[i] = q[at(i)]
          /\ at(j) \in 1..Len(q) /\ r[j] = q[at(j)]
      BY <1>2, <2>1
    <3>2. at(i) < at(j)
      BY <1>3, <2>1
    <3> QED
      BY <3>1, <3>2 DEF Sorted, Queued
  <2>2. CASE i = p
    <3>1. j # p /\ ~(j < p)
      BY <1>1, <2>2
    <3>2. at(j) \in 1..Len(q) /\ r[j] = q[at(j)] /\ ~(at(j) < p)
      BY <1>2, <3>1
    <3> QED
      BY <1>0, <2>2, <3>2
  <2>3. CASE j = p
    <3>1. i # p /\ i < p
      BY <1>1, <2>3
    <3>2. at(i) \in 1..Len(q) /\ r[i] = q[at(i)] /\ at(i) < p
      BY <1>2, <3>1
    <3> QED
      BY <1>0, <2>3, <3>2
  <2> QED
    BY <2>1, <2>2, <2>3
<1>7. ASSUME NEW x \in CellsOf(h, r)
      PROVE  x \in CellsOf(h, q) \cup {h[r[p]]}
  BY <1>4 DEF CellsOf
<1>8. ASSUME NEW x \in CellsOf(h, q)
      PROVE  x \in CellsOf(h, r)
  <2>1. PICK i \in 1..Len(q) : x = h[q[i]]
    BY DEF CellsOf
  <2>2. OthersOf(r, p, q)
    BY <1>0, <1>1, Places
  <2> QED
    BY <2>1, <2>2 DEF CellsOf, OthersOf
<1>9. h[r[p]] \in CellsOf(h, r)
  BY <1>1 DEF CellsOf
<1> QED
  BY <1>0, <1>5, <1>6, <1>7, <1>8, <1>9 DEF Queued

\* A queue does not change with the cells that are not on it.
LEMMA HeapElsewhere ==
  ASSUME NEW h \in Seq(Cells), NEW g \in Seq(Cells), NEW q, Queued(h, q),
         Len(h) <= Len(g), \A i \in 1..Len(q) : g[q[i]] = h[q[i]]
  PROVE  Queued(g, q) /\ CellsOf(g, q) = CellsOf(h, q)
<1>1. q \in Seq(1..Len(g))
  <2>1. Len(h) \in Nat /\ Len(g) \in Nat
    BY LenProperties
  <2>2. 1..Len(h) \subseteq 1..Len(g)
    BY <2>1
  <2> QED
    BY <2>2, SeqMonotonic DEF Queued
<1>2. OneEach(g, q) /\ Sorted(g, q)
  BY DEF Queued, OneEach, Sorted
<1>3. CellsOf(g, q) = CellsOf(h, q)
  BY DEF CellsOf
<1> QED
  BY <1>1, <1>2, <1>3 DEF Queued

-----------------------------------------------------------------------------
(* Finding the client's timer, and the place for a new one.                *)

\* The least of a set of numbers.
LEMMA MinIs ==
  ASSUME NEW S, S \subseteq Nat, S # {}
  PROVE  Min(S) \in S /\ \A k \in S : Min(S) <= k
<1>1. \E m \in S : \A k \in S : m <= k
  BY LeastNumber
<1> QED
  BY <1>1 DEF Min

\* Pending finds the client's timer, if it has one.
LEMMA PendingIs ==
  ASSUME NEW L, NEW c, Len(L.timerQ) \in Nat
  PROVE  \/ /\ Pending(L, c) = 0
            /\ \A x \in CellsOf(L.tqe, L.timerQ) : x.client # c
         \/ /\ Pending(L, c) \in 1..Len(L.timerQ)
            /\ L.tqe[L.timerQ[Pending(L, c)]].client = c
<1> DEFINE I == {i \in 1..Len(L.timerQ) : L.tqe[L.timerQ[i]].client = c}
<1>1. Pending(L, c) = IF I # {} THEN Min(I) ELSE 0
  BY DEF Pending, SelectInSeq
<1>2. CASE I = {}
  <2>1. Pending(L, c) = 0
    BY <1>1, <1>2
  <2>2. \A x \in CellsOf(L.tqe, L.timerQ) : x.client # c
    BY <1>2 DEF CellsOf
  <2> QED
    BY <2>1, <2>2
<1>3. CASE I # {}
  <2>1. I \subseteq Nat
    OBVIOUS
  <2>2. Min(I) \in I
    BY <1>3, <2>1, MinIs
  <2>3. Pending(L, c) \in I
    BY <1>1, <1>3, <2>2
  <2> QED
    BY <2>3
<1> QED
  BY <1>2, <1>3

\* Inserted keeps the time order.
LEMMA InsertedIs ==
  ASSUME NEW h \in Seq(Cells), NEW q \in Seq(1..Len(h)), Sorted(h, q), NEW i \in 1..Len(h)
  PROVE  \E p : Fits(h, q, i, p, Inserted(q, i, h))
<1> DEFINE I == {j \in 1..Len(q) : timerless(h[i].time, h[q[j]].time)}
           m == IF I # {} THEN Min(I) ELSE 0
<1>0. Len(q) \in Nat
  BY LenProperties
<1>1. Inserted(q, i, h) = IF m = 0 THEN Append(q, i) ELSE InsertAt(q, m, i)
  BY DEF Inserted, SelectInSeq
<1>2. \A k \in 1..Len(h) : h[k].time \in NormalTv
  <2>1. \A k \in 1..Len(h) : h[k] \in Cells
    OBVIOUS
  <2> QED
    BY <2>1 DEF Cells
<1>3. \A k \in 1..Len(q) : q[k] \in 1..Len(h)
  OBVIOUS
<1>4. \A k \in 1..Len(h) : Value(h[k].time) \in Int
  BY <1>2, ValueIsInt DEF NormalTv
<1>5. ASSUME NEW k \in 1..Len(q)
      PROVE  k \in I <=> Value(h[i].time) < Value(h[q[k]].time)
  BY <1>2, <1>3, LessIsLess
<1>6. CASE I = {}
  <2>1. ASSUME NEW k \in 1..Len(q)
        PROVE  Value(h[q[k]].time) <= Value(h[i].time) /\ k < Len(q) + 1
    <3>1. ~(Value(h[i].time) < Value(h[q[k]].time))
      BY <1>5, <1>6
    <3>2. Value(h[q[k]].time) \in Int /\ Value(h[i].time) \in Int
      BY <1>3, <1>4
    <3> QED
      BY <1>0, <3>1, <3>2
  <2>2. Inserted(q, i, h) = Append(q, i)
    BY <1>1, <1>6
  <2>3. /\ Append(q, i) \in Seq(1..Len(h)) /\ Without(Append(q, i), Len(q) + 1, q)
        /\ Append(q, i)[Len(q) + 1] = i
    BY AppendIs
  <2>4. Fits(h, q, i, Len(q) + 1, Append(q, i))
    BY <2>1, <2>3 DEF Fits
  <2> QED
    BY <2>2, <2>4
<1>7. CASE I # {}
  <2>1. I \subseteq Nat /\ I \subseteq 1..Len(q)
    BY <1>0
  <2>2. Min(I) \in I /\ \A k \in I : Min(I) <= k
    BY <1>7, <2>1, MinIs
  <2>3. m \in I /\ (\A k \in I : m <= k) /\ m \in 1..Len(q)
    BY <1>7, <2>1, <2>2
  <2> HIDE DEF m, I
  <2>4. Inserted(q, i, h) = InsertAt(q, m, i)
    <3>1. m # 0
      BY <1>0, <2>3
    <3> QED
      BY <1>1, <3>1
  <2>5. ASSUME NEW k \in 1..Len(q)
        PROVE  IF k < m THEN Value(h[q[k]].time) <= Value(h[i].time)
                        ELSE Value(h[i].time) <= Value(h[q[k]].time)
    <3>1. CASE k < m
      <4>1. k \notin I
        BY <1>0, <2>3, <3>1
      <4> QED
        BY <1>3, <1>4, <1>5, <3>1, <4>1
    <3>2. CASE k = m
      BY <1>0, <1>3, <1>4, <1>5, <2>3, <3>2
    <3>3. CASE m < k
      <4>1. Value(h[q[m]].time) <= Value(h[q[k]].time)
        BY <2>3, <3>3 DEF Sorted
      <4>2. Value(h[i].time) < Value(h[q[m]].time)
        BY <1>5, <2>3
      <4>3. Value(h[q[m]].time) \in Int /\ Value(h[q[k]].time) \in Int /\ Value(h[i].time) \in Int
        BY <1>3, <1>4, <2>3
      <4>4. ~(k < m)
        BY <1>0, <2>3, <3>3
      <4> QED
        BY <4>1, <4>2, <4>3, <4>4
    <3> QED
      BY <1>0, <2>3, <3>1, <3>2, <3>3
  <2>6. /\ InsertAt(q, m, i) \in Seq(1..Len(h)) /\ Without(InsertAt(q, m, i), m, q)
        /\ InsertAt(q, m, i)[m] = i
    BY <2>3, InsertAtIs
  <2>7. Fits(h, q, i, m, InsertAt(q, m, i))
    BY <2>5, <2>6 DEF Fits
  <2> QED
    BY <2>4, <2>7
<1> QED
  BY <1>6, <1>7

-----------------------------------------------------------------------------
(* timer_set on the two lists.                                             *)

ListsOK(L) ==
  /\ L \in [tqe : Seq(Cells), timerQ : Seq(Nat), free : Seq(Nat)]
  /\ Shared(1..Len(L.tqe), L.timerQ, L.free)
  /\ Queued(L.tqe, L.timerQ)
Timers(L) == CellsOf(L.tqe, L.timerQ)
Others(L, c) == {x \in Timers(L) : x.client # c}

\* Unlinking the client's timer, as both uses of timer_set begin.
LEMMA UnlinkIs ==
  ASSUME NEW L, ListsOK(L), NEW c, Pending(L, c) # 0
  PROVE  LET p == Pending(L, c)
             r == RemoveAt(L.timerQ, p)
             k == L.timerQ[p]
         IN  /\ p \in 1..Len(L.timerQ) /\ k \in 1..Len(L.tqe) /\ L.tqe[k].client = c
             /\ r \in Seq(1..Len(L.tqe)) /\ Queued(L.tqe, r)
             /\ Shared((1..Len(L.tqe)) \ {k}, r, L.free)
             /\ CellsOf(L.tqe, r) = Others(L, c)
<1> DEFINE p == Pending(L, c)
           r == RemoveAt(L.timerQ, p)
           k == L.timerQ[p]
           D == 1..Len(L.tqe)
<1>1. /\ L.timerQ \in Seq(D) /\ Len(L.timerQ) \in Nat /\ L.tqe \in Seq(Cells)
      /\ Queued(L.tqe, L.timerQ) /\ Shared(D, L.timerQ, L.free)
  BY LenProperties DEF ListsOK, Queued
<1>2. p \in 1..Len(L.timerQ) /\ L.tqe[k].client = c
  BY <1>1, PendingIs
<1> HIDE DEF p
<1>3. r \in Seq(D) /\ Without(L.timerQ, p, r)
  BY <1>1, <1>2, RemoveAtIs
<1>4. k \in D
  BY <1>1, <1>2
<1> HIDE DEF r
<1>5. Shared(D \ {k}, r, L.free)
  BY <1>1, <1>3, SharedWithout
<1>6. /\ Queued(L.tqe, r)
      /\ CellsOf(L.tqe, r) = {x \in CellsOf(L.tqe, L.timerQ) : x.client # L.tqe[k].client}
  BY <1>1, <1>3, UnlinkKeeps
<1>7. CellsOf(L.tqe, r) = Others(L, c)
  BY <1>2, <1>6 DEF Others, Timers
<1> QED
  BY <1>2, <1>3, <1>4, <1>5, <1>6, <1>7 DEF p, r

\* A cell k of heap h off both lists, with the other clients' timers queued.
Room(L, c, h, q, f, k) ==
  /\ h \in Seq(Cells) /\ k \in 1..Len(h)
  /\ Shared((1..Len(h)) \ {k}, q, f)
  /\ Queued(h, q) /\ CellsOf(h, q) = Others(L, c)

\* timer_set finds a cell: the client's own, a free one or a new one.
LEMMA RoomIs ==
  ASSUME NEW L, ListsOK(L), NEW c
  PROVE  LET p == Pending(L, c)
             A == Allocated(L)
         IN  /\ p # 0 => Room(L, c, L.tqe, RemoveAt(L.timerQ, p), L.free, L.timerQ[p])
             /\ p = 0 => /\ Room(L, c, A.tqe, L.timerQ, Tail(A.free), Head(A.free))
                         /\ L.free # << >> => A = L
<1> DEFINE p == Pending(L, c)
           A == Allocated(L)
           n == Len(L.tqe)
<1>1. /\ L.tqe \in Seq(Cells) /\ n \in Nat /\ Len(L.timerQ) \in Nat
      /\ L.timerQ \in Seq(1..n) /\ L.free \in Seq(1..n)
      /\ Queued(L.tqe, L.timerQ) /\ Shared(1..n, L.timerQ, L.free)
  BY LenProperties DEF ListsOK, Shared
<1>2. CASE p # 0
  BY <1>1, <1>2, UnlinkIs DEF Room
<1>3. p = 0 => CellsOf(L.tqe, L.timerQ) = Others(L, c)
  <2>1. p # 0 \/ \A x \in CellsOf(L.tqe, L.timerQ) : x.client # c
    BY <1>1, PendingIs
  <2> HIDE DEF p
  <2> QED
    BY <2>1 DEF Others, Timers
<1>4. CASE p = 0 /\ L.free # << >>
  <2> DEFINE f == L.free
             k == Head(f)
  <2>1. A = L
    BY <1>4 DEF Allocated
  <2>2. k = f[1] /\ k \in 1..n /\ Tail(f) \in Seq(1..n) /\ Without(f, 1, Tail(f))
    BY <1>1, <1>4, TailIs
  <2> HIDE DEF k
  <2>3. Shared((1..n) \ {k}, Tail(f), L.timerQ)
    <3>1. Shared(1..n, f, L.timerQ)
      BY <1>1, SharedSwaps
    <3> HIDE DEF f
    <3>2. Shared((1..n) \ {f[1]}, Tail(f), L.timerQ)
      BY <2>2, <3>1, SharedWithout
    <3> QED
      BY <2>2, <3>2
  <2>4. Shared((1..n) \ {k}, L.timerQ, Tail(f))
    BY <2>3, SharedSwaps
  <2>5. Room(L, c, L.tqe, L.timerQ, Tail(f), k)
    BY <1>1, <1>3, <1>4, <2>2, <2>4 DEF Room
  <2> QED
    BY <1>4, <2>1, <2>5 DEF k
<1>5. CASE p = 0 /\ L.free = << >>
  <2> DEFINE blank == [time |-> Zero, interval |-> Zero, client |-> NULL]
             h == Append(L.tqe, blank)
  <2>1. A.tqe = h /\ A.free = <<n + 1>>
    BY <1>5 DEF Allocated, ListsOK
  <2>2. Head(A.free) = n + 1 /\ Tail(A.free) = << >>
    BY <2>1
  <2>3. blank \in Cells
    BY TvIsNormal DEF Cells
  <2> HIDE DEF blank
  <2>4. h \in Seq(Cells) /\ Len(h) = n + 1 /\ \A i \in 1..n : h[i] = L.tqe[i]
    BY <1>1, <2>3, AppendProperties
  <2> HIDE DEF h, n
  <2>5. (1..Len(h)) \ {n + 1} = 1..n /\ n + 1 \in 1..Len(h) /\ Len(L.tqe) <= Len(h)
    <3>0. n = Len(L.tqe)
      BY DEF n
    <3>1. \A i \in 1..n + 1 : i # n + 1 <=> i \in 1..n
      BY <1>1
    <3>2. (1..n + 1) \ {n + 1} = 1..n
      BY <1>1, <3>1
    <3> QED
      BY <1>1, <2>4, <3>0, <3>2
  <2>6. Shared((1..Len(h)) \ {n + 1}, L.timerQ, << >>)
    BY <1>1, <1>5, <2>5
  <2>7. \A i \in 1..Len(L.timerQ) : h[L.timerQ[i]] = L.tqe[L.timerQ[i]]
    BY <1>1, <2>4
  <2>8. Queued(h, L.timerQ) /\ CellsOf(h, L.timerQ) = CellsOf(L.tqe, L.timerQ)
    BY <1>1, <2>4, <2>5, <2>7, HeapElsewhere
  <2>9. Room(L, c, h, L.timerQ, << >>, n + 1)
    BY <1>3, <1>5, <2>4, <2>5, <2>6, <2>8 DEF Room
  <2> QED
    BY <1>5, <2>1, <2>2, <2>9 DEF n
<1> QED
  BY <1>2, <1>4, <1>5

\* Cell k given to the client, for the time.
Filled(h, k, c, time) == [h EXCEPT ![k].time = time, ![k].client = c]

\* Filling the cell in and linking it completes the lists.
LEMMA FilledIs ==
  ASSUME NEW L, NEW c \in Clients \cup {NULL}, NEW time \in NormalTv,
         NEW h, NEW q, NEW f, NEW k, Room(L, c, h, q, f, k)
  PROVE  LET g == Filled(h, k, c, time)
             N == [tqe |-> g, timerQ |-> Inserted(q, k, g), free |-> f]
         IN  /\ ListsOK(N) /\ g[k] \in Cells
             /\ g[k] = [time |-> time, interval |-> h[k].interval, client |-> c]
             /\ Timers(N) = Others(L, c) \cup {g[k]}
<1> DEFINE g == Filled(h, k, c, time)
           x == [time |-> time, interval |-> h[k].interval, client |-> c]
           D == 1..Len(h)
<1>1. /\ h \in Seq(Cells) /\ k \in D /\ h[k] \in Cells /\ Len(h) \in Nat
      /\ Shared(D \ {k}, q, f) /\ Queued(h, q) /\ CellsOf(h, q) = Others(L, c)
  BY LenProperties DEF Room
<1>2. x \in Cells
  BY <1>1 DEF Cells
<1>3. g = [h EXCEPT ![k] = x]
  <2>1. h \in [D -> Cells]
    BY <1>1, LenProperties
  <2>2. [[h[k] EXCEPT !.time = time] EXCEPT !.client = c] = x
    <3> DEFINE y == h[k]
    <3>1. y \in Cells /\ x = [time |-> time, interval |-> y.interval, client |-> c]
      BY <1>1
    <3> HIDE DEF x, y
    <3> DEFINE z == [y EXCEPT !.time = time]
               w == [z EXCEPT !.client = c]
    <3>2. z \in Cells /\ z.time = time /\ z.interval = y.interval
      BY <3>1 DEF Cells
    <3> HIDE DEF z
    <3>3. w \in Cells /\ w.time = time /\ w.interval = y.interval /\ w.client = c
      BY <3>2 DEF Cells
    <3> HIDE DEF w
    <3>4. w = [time |-> time, interval |-> y.interval, client |-> c]
      BY <3>3 DEF Cells
    <3> QED
      BY <3>1, <3>4 DEF w, z, y
  <2>3. [h EXCEPT ![k].time = time][k] = [h[k] EXCEPT !.time = time]
    BY <1>1, <2>1
  <2>4. g = [[h EXCEPT ![k].time = time] EXCEPT ![k] = x]
    BY <2>2, <2>3 DEF Filled
  <2> HIDE DEF x
  <2> QED
    BY <1>1, <2>1, <2>4
<1> HIDE DEF x
<1>4. /\ g \in Seq(Cells) /\ Len(g) = Len(h) /\ g[k] = x
      /\ \A j \in D : j # k => g[j] = h[j]
  <2> DEFINE e == [h EXCEPT ![k] = x]
  <2>1. /\ e \in Seq(Cells) /\ Len(e) = Len(h)
        /\ \A j \in 1..Len(h) : e[j] = IF j = k THEN x ELSE h[j]
    BY <1>1, <1>2, ExceptSeq
  <2> HIDE DEF e
  <2>2. g = e
    BY <1>3 DEF e
  <2> HIDE DEF g
  <2> QED
    BY <1>1, <2>1, <2>2
<1> HIDE DEF g
<1>5. q \in Seq(D \ {k}) /\ \A i \in 1..Len(q) : q[i] \in D \ {k}
  BY <1>1 DEF Shared
<1>6. Queued(g, q) /\ CellsOf(g, q) = Others(L, c)
  <2>1. \A i \in 1..Len(q) : g[q[i]] = h[q[i]]
    BY <1>4, <1>5
  <2>2. Len(h) <= Len(g)
    BY <1>1, <1>4
  <2> QED
    BY <1>1, <1>4, <2>1, <2>2, HeapElsewhere
<1> DEFINE r == Inserted(q, k, g)
<1>7. PICK p : Fits(g, q, k, p, r)
  <2>1. k \in 1..Len(g) /\ q \in Seq(1..Len(g)) /\ Sorted(g, q)
    BY <1>1, <1>4, <1>6 DEF Queued
  <2> QED
    BY <1>4, <2>1, InsertedIs
<1> HIDE DEF r
<1>8. r \in Seq(1..Len(g)) /\ r \in Seq(D) /\ Without(r, p, q) /\ r[p] = k
  BY <1>4, <1>7 DEF Fits
<1>9. Shared(1..Len(g), r, f)
  <2>1. D = (D \ {k}) \cup {r[p]} /\ r[p] \notin D \ {k}
    BY <1>1, <1>8
  <2> HIDE DEF D
  <2>2. Shared(D, r, f)
    BY <1>1, <1>8, <2>1, SharedWith
  <2> QED
    BY <1>4, <2>2 DEF D
<1>10. Queued(g, r) /\ CellsOf(g, r) = Others(L, c) \cup {g[k]}
  <2>1. NoneOf(g, q, g[k].client)
    BY <1>4, <1>6 DEF NoneOf, Others, x
  <2>2. Queued(g, r) /\ CellsOf(g, r) = CellsOf(g, q) \cup {g[k]}
    BY <1>4, <1>6, <1>7, <2>1, LinkKeeps
  <2> QED
    BY <1>6, <2>2
<1> DEFINE N == [tqe |-> g, timerQ |-> r, free |-> f]
<1>11. r \in Seq(Nat) /\ f \in Seq(Nat)
  <2>1. f \in Seq(D \ {k}) /\ D \ {k} \subseteq Nat /\ D \subseteq Nat
    BY <1>1 DEF Shared
  <2> QED
    BY <1>8, <2>1, SeqMonotonic
<1>12. ListsOK(N) /\ Timers(N) = CellsOf(g, r)
  BY <1>4, <1>9, <1>10, <1>11 DEF ListsOK, Timers
<1> QED
  BY <1>2, <1>4, <1>10, <1>12 DEF g, r, x

\* timer_set with a time: the client has a timer for that time and no other,
\* and the interval is the one the cell had.
LEMMA SetIs ==
  ASSUME NEW L, ListsOK(L), NEW c \in Clients \cup {NULL}, NEW time \in NormalTv
  PROVE  /\ ListsOK(Set(L, c, time))
         /\ \E x \in Cells :
              /\ x.client = c /\ x.time = time
              /\ Timers(Set(L, c, time)) = Others(L, c) \cup {x}
              /\ Pending(L, c) = 0 /\ L.free # << >> => x.interval = L.tqe[Head(L.free)].interval
<1> DEFINE p == Pending(L, c)
           A == Allocated(L)
<1>1. CASE p = 0
  <2> DEFINE k == Head(A.free)
             f == Tail(A.free)
             g == Filled(A.tqe, k, c, time)
             N == [tqe |-> g, timerQ |-> Inserted(L.timerQ, k, g), free |-> f]
  <2>1. Set(L, c, time) = N
    BY <1>1 DEF Set, Filled
  <2>2. Room(L, c, A.tqe, L.timerQ, f, k) /\ (L.free # << >> => A = L)
    BY <1>1, RoomIs
  <2>3. L.free # << >> => A.tqe[k].interval = L.tqe[Head(L.free)].interval
    BY <2>2
  <2> HIDE DEF A, k, f
  <2>4. /\ ListsOK(N) /\ g[k] \in Cells
        /\ g[k] = [time |-> time, interval |-> A.tqe[k].interval, client |-> c]
        /\ Timers(N) = Others(L, c) \cup {g[k]}
    BY <2>2, FilledIs
  <2> HIDE DEF N, g
  <2>5. g[k].client = c /\ g[k].time = time /\ g[k].interval = A.tqe[k].interval
    BY <2>4
  <2> QED
    BY <2>1, <2>3, <2>4, <2>5
<1>2. CASE p # 0
  <2> DEFINE k == L.timerQ[p]
             r == RemoveAt(L.timerQ, p)
             g == Filled(L.tqe, k, c, time)
             N == [tqe |-> g, timerQ |-> Inserted(r, k, g), free |-> L.free]
  <2>1. Set(L, c, time) = N
    BY <1>2 DEF Set, Filled
  <2>2. Room(L, c, L.tqe, r, L.free, k)
    BY <1>2, RoomIs
  <2>3. /\ ListsOK(N) /\ g[k] \in Cells
        /\ g[k] = [time |-> time, interval |-> L.tqe[k].interval, client |-> c]
        /\ Timers(N) = Others(L, c) \cup {g[k]}
    BY <2>2, FilledIs
  <2> HIDE DEF N, g, k, r
  <2>4. g[k].client = c /\ g[k].time = time
    BY <2>3
  <2> QED
    BY <1>2, <2>1, <2>3, <2>4
<1> QED
  BY <1>1, <1>2

\* Linking cell k at the head of the free list.
LEMMA FreedIs ==
  ASSUME NEW h, NEW q, NEW f, NEW k, h \in Seq(Cells), k \in 1..Len(h), Queued(h, q),
         Shared((1..Len(h)) \ {k}, q, f)
  PROVE  LET N == [tqe |-> h, timerQ |-> q, free |-> Cons(k, f)]
         IN  ListsOK(N) /\ Timers(N) = CellsOf(h, q)
<1> DEFINE D == 1..Len(h)
           E == D \ {k}
           g == Cons(k, f)
           N == [tqe |-> h, timerQ |-> q, free |-> g]
<1>0. Len(h) \in Nat
  BY LenProperties
<1>1. E \subseteq D /\ D = E \cup {k} /\ k \notin E /\ k \in D /\ D \subseteq Nat
  BY <1>0
<1>2. f \in Seq(E) /\ Shared(E, f, q)
  BY SharedSwaps DEF Shared
<1>3. q \in Seq(D)
  BY DEF Queued
<1> HIDE DEF D, E
<1>4. f \in Seq(D)
  BY <1>1, <1>2, SeqMonotonic
<1>5. g \in Seq(D) /\ Without(g, 1, f) /\ g[1] = k
  BY <1>1, <1>4, ConsIs
<1> HIDE DEF g
<1>6. Shared(D, g, q)
  BY <1>1, <1>2, <1>5, SharedWith
<1>7. Shared(D, q, g)
  BY <1>6, SharedSwaps
<1>8. q \in Seq(Nat) /\ g \in Seq(Nat)
  BY <1>1, <1>3, <1>5, SeqMonotonic
<1>9. ListsOK(N) /\ Timers(N) = CellsOf(h, q)
  BY <1>7, <1>8 DEF ListsOK, Timers, D
<1> QED
  BY <1>9 DEF g

\* timer_set without a time: the client's timer is gone, the others stay.
LEMMA CancelledIs ==
  ASSUME NEW L, ListsOK(L), NEW c
  PROVE  ListsOK(Cancelled(L, c)) /\ Timers(Cancelled(L, c)) = Others(L, c)
<1> DEFINE p == Pending(L, c)
           r == RemoveAt(L.timerQ, p)
           k == L.timerQ[p]
<1>1. CASE p = 0
  <2>1. Len(L.timerQ) \in Nat
    BY LenProperties DEF ListsOK
  <2>2. Cancelled(L, c) = L
    BY <1>1 DEF Cancelled
  <2> QED
    BY <1>1, <2>1, <2>2, PendingIs DEF Others, Timers
<1>2. CASE p # 0
  <2>1. /\ k \in 1..Len(L.tqe) /\ Queued(L.tqe, r) /\ CellsOf(L.tqe, r) = Others(L, c)
        /\ Shared((1..Len(L.tqe)) \ {k}, r, L.free)
    BY <1>2, UnlinkIs
  <2>2. Cancelled(L, c) = [tqe |-> L.tqe, timerQ |-> r, free |-> Cons(k, L.free)]
    BY <1>2 DEF Cancelled, ListsOK
  <2>3. L.tqe \in Seq(Cells)
    BY DEF ListsOK
  <2> HIDE DEF k, r
  <2> QED
    BY <2>1, <2>2, <2>3, FreedIs
<1> QED
  BY <1>1, <1>2

\* The caller's store of an interval into the client's timer.
LEMMA WithIntervalIs ==
  ASSUME NEW L, ListsOK(L), NEW c, NEW iv \in NormalTv, ~NoneOf(L.tqe, L.timerQ, c)
  PROVE  /\ ListsOK(WithInterval(L, c, iv))
         /\ \E x \in Cells : /\ x.client = c /\ x.interval = iv
                           /\ Timers(WithInterval(L, c, iv)) = Others(L, c) \cup {x}
<1> DEFINE h == L.tqe
           q == L.timerQ
           p == Pending(L, c)
           k == q[p]
           x == [h[k] EXCEPT !.interval = iv]
           g == [h EXCEPT ![k] = x]
           N == [tqe |-> g, timerQ |-> q, free |-> L.free]
<1>1. /\ h \in Seq(Cells) /\ q \in Seq(1..Len(h)) /\ Len(q) \in Nat /\ Len(h) \in Nat
      /\ Queued(h, q) /\ Shared(1..Len(h), q, L.free) /\ q \in Seq(Nat) /\ L.free \in Seq(Nat)
  BY LenProperties DEF ListsOK, Queued
<1>2. p \in 1..Len(q) /\ h[k].client = c
  BY <1>1, PendingIs DEF NoneOf
<1> HIDE DEF p
<1>3. k \in 1..Len(h) /\ h[k] \in Cells
  BY <1>1, <1>2
<1>4. x \in Cells /\ x.client = c /\ x.time = h[k].time /\ x.interval = iv
  <2> DEFINE y == h[k]
  <2>1. y \in Cells /\ y.client = c
    BY <1>2, <1>3
  <2> HIDE DEF y
  <2>2. [y EXCEPT !.interval = iv] \in Cells
    BY <2>1 DEF Cells
  <2>3. /\ [y EXCEPT !.interval = iv].client = c /\ [y EXCEPT !.interval = iv].time = y.time
        /\ [y EXCEPT !.interval = iv].interval = iv
    BY <2>1 DEF Cells
  <2> QED
    BY <2>2, <2>3 DEF y
<1>5. WithInterval(L, c, iv) = N
  <2>1. WithInterval(L, c, iv) = [L EXCEPT !.tqe = g]
    BY DEF WithInterval, p
  <2> HIDE DEF g
  <2> QED
    BY <2>1 DEF ListsOK
<1> HIDE DEF x
<1>6. g \in Seq(Cells) /\ Len(g) = Len(h) /\ \A j \in 1..Len(h) : g[j] = IF j = k THEN x ELSE h[j]
  BY <1>1, <1>3, <1>4, ExceptSeq
<1>7. \A i \in 1..Len(q) : q[i] \in 1..Len(h)
  BY <1>1
<1>8. \A i \in 1..Len(q) : g[q[i]].client = h[q[i]].client /\ g[q[i]].time = h[q[i]].time
  BY <1>2, <1>4, <1>6, <1>7
<1>9. Queued(g, q)
  BY <1>1, <1>6, <1>8 DEF Queued, OneEach, Sorted
<1>10. \A i \in 1..Len(q) : i # p <=> h[q[i]].client # c
  BY <1>1, <1>2 DEF Queued, OneEach
<1>11. \A i \in 1..Len(q) : g[q[i]] = IF i = p THEN x ELSE h[q[i]]
  BY <1>1, <1>2, <1>4, <1>6, <1>7, <1>10
<1>12. CellsOf(g, q) = Others(L, c) \cup {x}
  <2>1. ASSUME NEW y \in CellsOf(g, q)
        PROVE  y \in Others(L, c) \cup {x}
    <3>1. PICK i \in 1..Len(q) : y = g[q[i]]
      BY DEF CellsOf
    <3> QED
      BY <1>10, <1>11, <3>1 DEF Others, Timers, CellsOf
  <2>2. ASSUME NEW y \in Others(L, c)
        PROVE  y \in CellsOf(g, q)
    <3>1. PICK i \in 1..Len(q) : y = h[q[i]] /\ y.client # c
      BY DEF Others, Timers, CellsOf
    <3> QED
      BY <1>10, <1>11, <3>1 DEF CellsOf
  <2>3. x \in CellsOf(g, q)
    BY <1>2, <1>11 DEF CellsOf
  <2> QED
    BY <2>1, <2>2, <2>3
<1> HIDE DEF g
<1>13. ListsOK(N) /\ Timers(N) = CellsOf(g, q)
  BY <1>1, <1>6, <1>9 DEF ListsOK, Timers
<1> QED
  BY <1>4, <1>5, <1>12, <1>13

-----------------------------------------------------------------------------
(* The steps.                                                              *)

Sound ==
  /\ ListsOK(Lists)
  /\ now \in NormalTv /\ timeout \in NormalTv \cup {NULL}
  /\ depth \in 0..MaxDepth /\ inGet \in BOOLEAN /\ (inGet => depth > 0)
  /\ repeats \subseteq Clients

\* What a step makes of the pending timers and of the requests to repeat.
Keeps == Timers(Lists)' = Timers(Lists) /\ repeats' = repeats
Cancels(c) == Timers(Lists)' = Others(Lists, c) /\ repeats' = repeats \ {c}
SetsOnce(c, x) ==
  /\ x.client = c /\ (ClearsInterval => x.interval = Zero)
  /\ Timers(Lists)' = Others(Lists, c) \cup {x} /\ repeats' = repeats \ {c}
SetsRepeating(c, x) ==
  /\ x.client = c /\ x.interval \in Periods
  /\ Timers(Lists)' = Others(Lists, c) \cup {x} /\ repeats' = repeats \cup {c}
Fires(x) ==
  /\ x \in Timers(Lists) /\ repeats' = repeats
  /\ IF x.interval = Zero
     THEN Timers(Lists)' = Others(Lists, x.client)
     ELSE \E y \in Cells : /\ y.client = x.client /\ y.interval = x.interval
                          /\ Timers(Lists)' = Others(Lists, x.client) \cup {y}
Effect ==
  \/ Keeps
  \/ \E c \in Clients : Cancels(c) \/ \E x \in Cells : SetsOnce(c, x) \/ SetsRepeating(c, x)
  \/ \E x \in Cells : Fires(x)

\* The lists a step leaves behind.
LEMMA BecomesIs ==
  ASSUME NEW N, ListsOK(N), Becomes(N)
  PROVE  ListsOK(Lists)' /\ Timers(Lists)' = Timers(N)
<1>1. Lists' = N
  BY DEF Becomes, Lists, ListsOK
<1> QED
  BY <1>1

\* Expiry times are normal.
LEMMA ExpiriesNormal ==
  ASSUME now \in NormalTv, NEW t \in Expiries
  PROVE  t \in NormalTv
<1>1. \A u \in Relative \cup Absolute : u \in NormalTv
  BY TimevalAssumption DEF NormalTv
<1> QED
  BY <1>1, AddIsNormal DEF Expiries

\* timer_get takes the first timer off the queue.
LEMMA Popped ==
  ASSUME ListsOK(Lists), timerQ # << >>
  PROVE  LET tp == Head(timerQ)
             L == [Lists EXCEPT !.timerQ = Tail(@), !.free = Cons(tp, @)]
         IN  /\ tqe[tp] \in Cells /\ tqe[tp] \in Timers(Lists)
             /\ L.tqe = tqe /\ L.free # << >> /\ Head(L.free) = tp
             /\ ListsOK(L) /\ Timers(L) = Others(Lists, tqe[tp].client)
             /\ Pending(L, tqe[tp].client) = 0
<1> DEFINE D == 1..Len(tqe)
           tp == Head(timerQ)
           r == Tail(timerQ)
           f == Cons(tp, freeTQEQ)
           L == [Lists EXCEPT !.timerQ = Tail(@), !.free = Cons(tp, @)]
<1>1. /\ tqe \in Seq(Cells) /\ timerQ \in Seq(D) /\ freeTQEQ \in Seq(D)
      /\ Shared(D, timerQ, freeTQEQ) /\ Queued(tqe, timerQ) /\ Len(timerQ) \in Nat
  BY LenProperties DEF ListsOK, Lists, Shared
<1>2. tp = timerQ[1] /\ tp \in D /\ r \in Seq(D) /\ Without(timerQ, 1, r)
  BY <1>1, TailIs
<1>3. L = [tqe |-> tqe, timerQ |-> r, free |-> f]
  <2>1. Lists.timerQ = timerQ /\ Lists.free = freeTQEQ
    BY DEF Lists
  <2>2. L = [Lists EXCEPT !.timerQ = r, !.free = f]
    BY <2>1
  <2> HIDE DEF r, f, L
  <2> QED
    BY <2>2 DEF Lists
<1>4. f \in Seq(D) /\ Without(f, 1, freeTQEQ) /\ f[1] = tp
  BY <1>1, <1>2, ConsIs
<1> HIDE DEF tp, r
<1>5. Shared(D \ {tp}, r, freeTQEQ)
  BY <1>1, <1>2, SharedWithout
<1>6. Queued(tqe, r) /\ CellsOf(tqe, r) = {x \in CellsOf(tqe, timerQ) : x.client # tqe[tp].client}
  BY <1>1, <1>2, UnlinkKeeps
<1>7. ListsOK([tqe |-> tqe, timerQ |-> r, free |-> f])
      /\ Timers([tqe |-> tqe, timerQ |-> r, free |-> f]) = CellsOf(tqe, r)
  BY <1>1, <1>2, <1>5, <1>6, FreedIs
<1> HIDE DEF f
<1>8. Timers(Lists) = CellsOf(tqe, timerQ)
  BY DEF Timers, Lists
<1>9. tqe[tp] \in Cells /\ tqe[tp] \in Timers(Lists)
  <2>1. 1 \in 1..Len(timerQ)
    BY <1>2 DEF Without
  <2> QED
    BY <1>1, <1>2, <1>8, <2>1 DEF CellsOf
<1>10. f # << >> /\ Head(f) = tp
  <2>1. Len(f) # 0
    BY <1>4, LenProperties DEF Without
  <2> QED
    BY <1>4, <2>1, EmptySeq
<1> HIDE DEF L
<1>11. L.tqe = tqe /\ L.timerQ = r /\ L.free = f
  BY <1>3
<1>12. Timers(L) = Others(Lists, tqe[tp].client)
  BY <1>3, <1>6, <1>7, <1>8 DEF Others
<1>13. Pending(L, tqe[tp].client) = 0
  <2>1. Len(L.timerQ) \in Nat
    BY <1>2, <1>11, LenProperties
  <2>2. \A x \in CellsOf(L.tqe, L.timerQ) : x.client # tqe[tp].client
    BY <1>12 DEF Others, Timers
  <2>3. \/ Pending(L, tqe[tp].client) = 0
        \/ /\ Pending(L, tqe[tp].client) \in 1..Len(L.timerQ)
           /\ L.tqe[L.timerQ[Pending(L, tqe[tp].client)]].client = tqe[tp].client
    BY <2>1, PendingIs
  <2> QED
    BY <2>2, <2>3 DEF CellsOf
<1> QED
  BY <1>3, <1>7, <1>9, <1>10, <1>11, <1>12, <1>13 DEF L, tp

\* What every step does to the timers, and that the lists stay in order.
LEMMA StepEffect ==
  ASSUME Sound, [Next]_vars
  PROVE  ListsOK(Lists)' /\ Effect
<1> USE DEF Sound
<1>1. CASE UNCHANGED <<lists, repeats>>
  <2>1. UNCHANGED Lists
    BY <1>1 DEF lists, Lists
  <2> QED
    BY <1>1, <2>1 DEF Effect, Keeps
<1>2. ASSUME NEW c \in Clients, CancelTimer(c)
      PROVE  ListsOK(Lists)' /\ Effect
  <2>1. ListsOK(Cancelled(Lists, c)) /\ Timers(Cancelled(Lists, c)) = Others(Lists, c)
    BY CancelledIs
  <2>2. ListsOK(Lists)' /\ Timers(Lists)' = Others(Lists, c)
    BY <1>2, <2>1, BecomesIs DEF CancelTimer
  <2> QED
    BY <1>2, <2>2 DEF Effect, Cancels, CancelTimer
<1>3. ASSUME NEW c \in Clients, NEW t \in NormalTv
      PROVE  LET L == Set(Lists, c, t)
             IN  /\ ListsOK(L) /\ ~NoneOf(L.tqe, L.timerQ, c)
                 /\ Others(L, c) = Others(Lists, c)
                 /\ \E x \in Cells : x.client = c /\ Timers(L) = Others(Lists, c) \cup {x}
  <2> DEFINE L == Set(Lists, c, t)
  <2>1. ListsOK(L) /\ \E x \in Cells : /\ x.client = c /\ x.time = t
                                     /\ Timers(L) = Others(Lists, c) \cup {x}
    BY SetIs
  <2> HIDE DEF L
  <2> QED
    BY <2>1 DEF Others, NoneOf, Timers, L
<1>4. ASSUME NEW c \in Clients, NEW t \in NormalTv, NEW iv \in NormalTv
      PROVE  LET L == WithInterval(Set(Lists, c, t), c, iv)
             IN  /\ ListsOK(L)
                 /\ \E x \in Cells : /\ x.client = c /\ x.interval = iv
                                   /\ Timers(L) = Others(Lists, c) \cup {x}
  <2> DEFINE M == Set(Lists, c, t)
  <2>1. /\ ListsOK(M) /\ ~NoneOf(M.tqe, M.timerQ, c) /\ Others(M, c) = Others(Lists, c)
    BY <1>3
  <2> HIDE DEF M
  <2>2. /\ ListsOK(WithInterval(M, c, iv))
        /\ \E x \in Cells : /\ x.client = c /\ x.interval = iv
                          /\ Timers(WithInterval(M, c, iv)) = Others(M, c) \cup {x}
    BY <2>1, WithIntervalIs
  <2> QED
    BY <2>1, <2>2 DEF M
<1>5. ASSUME NEW c \in Clients, NEW t \in Expiries, SetOnce(c, t)
      PROVE  ListsOK(Lists)' /\ Effect
  <2>0. t \in NormalTv /\ Zero \in NormalTv
    BY ExpiriesNormal, TvIsNormal
  <2> DEFINE S == Set(Lists, c, t)
             L == IF ClearsInterval THEN WithInterval(S, c, Zero) ELSE S
  <2>1. Becomes(L) /\ repeats' = repeats \ {c}
    BY <1>5 DEF SetOnce
  <2>2. ListsOK(L) /\ \E x \in Cells : /\ x.client = c /\ (ClearsInterval => x.interval = Zero)
                                     /\ Timers(L) = Others(Lists, c) \cup {x}
    BY <1>3, <1>4, <2>0
  <2> HIDE DEF L
  <2>3. ListsOK(Lists)' /\ Timers(Lists)' = Timers(L)
    BY <2>1, <2>2, BecomesIs
  <2> QED
    BY <2>1, <2>2, <2>3 DEF Effect, SetsOnce
<1>6. ASSUME NEW c \in Clients, NEW t \in Expiries, NEW p \in Periods, SetRepeating(c, t, p)
      PROVE  ListsOK(Lists)' /\ Effect
  <2>0. t \in NormalTv /\ p \in NormalTv
    BY ExpiriesNormal, TimevalAssumption DEF NormalTv
  <2> DEFINE L == WithInterval(Set(Lists, c, t), c, p)
  <2>1. Becomes(L) /\ repeats' = repeats \cup {c}
    BY <1>6 DEF SetRepeating
  <2>2. ListsOK(L) /\ \E x \in Cells : /\ x.client = c /\ x.interval = p
                                     /\ Timers(L) = Others(Lists, c) \cup {x}
    BY <1>4, <2>0
  <2> HIDE DEF L
  <2>3. ListsOK(Lists)' /\ Timers(Lists)' = Timers(L)
    BY <2>1, <2>2, BecomesIs
  <2> QED
    BY <2>1, <2>2, <2>3 DEF Effect, SetsRepeating
<1>7. CASE Expire
  <2> DEFINE tp == Head(timerQ)
             L == [Lists EXCEPT !.timerQ = Tail(@), !.free = Cons(tp, @)]
             x == tqe[tp]
             t == timeradd(x.interval, x.time)
             N == IF x.interval = Zero THEN L ELSE Set(L, x.client, t)
  <2>1. timerQ # << >> /\ Becomes(N) /\ repeats' = repeats
    BY <1>7 DEF Expire, HeadExpired
  <2>2. /\ x \in Cells /\ x \in Timers(Lists)
        /\ L.tqe = tqe /\ L.free # << >> /\ Head(L.free) = tp
        /\ ListsOK(L) /\ Timers(L) = Others(Lists, x.client) /\ Pending(L, x.client) = 0
    BY <2>1, Popped
  <2>3. L.tqe[Head(L.free)] = x
    BY <2>2
  <2> HIDE DEF L, x
  <2>4. t \in NormalTv /\ x.client \in Clients \cup {NULL}
    BY <2>2, AddIsNormal DEF Cells
  <2> HIDE DEF t
  <2>5. CASE x.interval = Zero
    <3>1. ListsOK(Lists)' /\ Timers(Lists)' = Timers(L)
      BY <2>1, <2>2, <2>5, BecomesIs
    <3>2. Fires(x)
      BY <2>1, <2>2, <2>5, <3>1 DEF Fires
    <3> QED
      BY <2>2, <3>1, <3>2 DEF Effect
  <2>6. CASE x.interval # Zero
    <3> DEFINE M == Set(L, x.client, t)
    <3>1. ListsOK(M) /\ \E y \in Cells :
                          /\ y.client = x.client /\ y.time = t
                          /\ Timers(M) = Others(L, x.client) \cup {y}
                          /\ Pending(L, x.client) = 0 /\ L.free # << >>
                               => y.interval = L.tqe[Head(L.free)].interval
      BY <2>2, <2>4, SetIs
    <3>2. Others(L, x.client) = Others(Lists, x.client)
      BY <2>2 DEF Others
    <3>3. Becomes(M)
      BY <2>1, <2>6
    <3> HIDE DEF M
    <3>4. ListsOK(Lists)' /\ Timers(Lists)' = Timers(M)
      BY <3>1, <3>3, BecomesIs
    <3>5. \E y \in Cells : /\ y.client = x.client /\ y.interval = x.interval
                         /\ Timers(Lists)' = Others(Lists, x.client) \cup {y}
      BY <2>2, <2>3, <3>1, <3>2, <3>4
    <3>6. Fires(x)
      BY <2>1, <2>2, <2>6, <3>5 DEF Fires
    <3> QED
      BY <2>2, <3>4, <3>6 DEF Effect
  <2> QED
    BY <2>5, <2>6
<1> QED
  BY <1>1, <1>2, <1>5, <1>6, <1>7 DEF Next, vars, lists, UserSets, Tick, CallTimerGet,
     ReturnTimeout, HandlerReturns

-----------------------------------------------------------------------------
(* The properties.                                                         *)

\* Every step keeps the lists and the control state sound.
LEMMA SoundStep ==
  ASSUME Sound, [Next]_vars
  PROVE  Sound'
<1>1. ListsOK(Lists)'
  BY StepEffect
<1> USE BoundAssumption DEF Sound
<1>2. CASE Tick
  <2>1. Value(now) + 1 \in Int
    BY ValueIsInt DEF NormalTv
  <2>2. now' \in NormalTv
    BY <1>2, <2>1, TvIsNormal DEF Tick
  <2> QED
    BY <1>1, <1>2, <2>2 DEF Tick, lists
<1>3. ASSUME NEW c \in Clients, UserSets(c)
      PROVE  Sound'
  BY <1>1, <1>3 DEF UserSets, CancelTimer, SetOnce, SetRepeating
<1>4. CASE CallTimerGet \/ Expire \/ HandlerReturns
  <2>1. UNCHANGED <<now, timeout, repeats>> /\ inGet' \in BOOLEAN
    BY <1>4 DEF CallTimerGet, Expire, HandlerReturns
  <2>2. depth' \in 0..MaxDepth /\ (inGet' => depth' > 0)
    BY <1>4 DEF CallTimerGet, Expire, HandlerReturns
  <2> QED
    BY <1>1, <2>1, <2>2
<1>5. CASE ReturnTimeout
  <2>1. timeout' \in NormalTv \cup {NULL}
    <3>1. CASE timerQ = << >>
      BY <1>5, <3>1 DEF ReturnTimeout
    <3>2. CASE timerQ # << >>
      <4>1. tqe[Head(timerQ)] \in Cells
        BY <3>2, Popped
      <4>2. Until(tqe[Head(timerQ)].time, now) \in NormalTv
        BY <4>1, UntilIsDifference DEF Cells
      <4> QED
        BY <1>5, <3>2, <4>2 DEF ReturnTimeout
    <3> QED
      BY <3>1, <3>2
  <2> QED
    <3>1. UNCHANGED <<now, repeats>> /\ inGet' = FALSE
      BY <1>5 DEF ReturnTimeout
    <3>2. depth' \in 0..MaxDepth
      BY <1>5 DEF ReturnTimeout
    <3> QED
      BY <1>1, <2>1, <3>1, <3>2
<1>6. CASE UNCHANGED vars
  BY <1>1, <1>6 DEF vars
<1> QED
  BY <1>2, <1>3, <1>4, <1>5, <1>6 DEF Next

\* Nothing is pending to begin with.
LEMMA InitSound ==
  ASSUME Init
  PROVE  Sound /\ Timers(Lists) = {}
<1>1. << >> \in Seq(Cells) /\ << >> \in Seq(Nat) /\ Len(<< >>) = 0 /\ \A S : << >> \in Seq(S)
  BY EmptySeq
<1>2. Lists = [tqe |-> << >>, timerQ |-> << >>, free |-> << >>]
  BY DEF Init, Lists
<1>3. 1..0 = {}
  OBVIOUS
<1>4. ListsOK(Lists)
  BY <1>1, <1>2, <1>3 DEF ListsOK, Shared, Queued, OneEach, Sorted, Distinct
<1>5. Timers(Lists) = {}
  BY <1>1, <1>2, <1>3 DEF Timers, CellsOf
<1>6. Zero \in NormalTv
  BY TvIsNormal
<1>7. depth \in 0..MaxDepth
  BY BoundAssumption DEF Init
<1> QED
  BY <1>4, <1>5, <1>6, <1>7 DEF Init, Sound

\* Sound: every element of the heap is on exactly one of the two lists, the
\* queue is in time order with one timer per client, and timer_get has an
\* activation on the stack whenever control is in it.
THEOREM Invariant == Spec => []Sound
<1>1. Init => Sound
  BY InitSound
<1>2. Sound /\ [Next]_vars => Sound'
  BY SoundStep
<1> QED
  BY <1>1, <1>2, PTL DEF Spec

\* QueueWellFormed: the queue a handler finds and leaves, however deep timer_get
\* is nested, holds each pending timer once, one per client and in time order,
\* and no element is lost or on both lists.
THEOREM QueueSound == Spec => []QueueWellFormed
<1> SUFFICES ASSUME Sound
             PROVE  QueueWellFormed
  BY Invariant, PTL
<1>1. /\ tqe \in Seq(Cells) /\ timerQ \in Seq(1..Len(tqe)) /\ freeTQEQ \in Seq(1..Len(tqe))
      /\ Len(tqe) \in Nat /\ DOMAIN tqe = 1..Len(tqe)
      /\ Shared(1..Len(tqe), timerQ, freeTQEQ) /\ Queued(tqe, timerQ)
  BY LenProperties DEF Sound, ListsOK, Lists, Shared
<1>2. TypeOK
  <2>1. Cells \subseteq [time : timeval, interval : timeval, client : Clients \cup {NULL}]
    BY DEF Cells, NormalTv
  <2>2. tqe \in Seq([time : timeval, interval : timeval, client : Clients \cup {NULL}])
    BY <1>1, <2>1, SeqMonotonic
  <2> QED
    BY <1>1, <2>2 DEF TypeOK, Sound, NormalTv
<1> DEFINE s == timerQ \o freeTQEQ
           D == DOMAIN tqe
           a == Len(timerQ)
           b == Len(freeTQEQ)
<1>3. /\ a \in Nat /\ b \in Nat /\ DOMAIN s = 1..a + b
      /\ \A i \in 1..a + b : s[i] = IF i <= a THEN timerQ[i] ELSE freeTQEQ[i - a]
  <2>1. s \in Seq(D) /\ Len(s) = a + b
        /\ \A i \in 1..a + b : s[i] = IF i <= a THEN timerQ[i] ELSE freeTQEQ[i - a]
    BY <1>1, ConcatProperties
  <2>2. DOMAIN s = 1..Len(s)
    BY <2>1, LenProperties
  <2> QED
    BY <1>1, <2>1, <2>2, LenProperties
<1>4. /\ \A i \in 1..a : timerQ[i] \in D
      /\ \A i \in 1..b : freeTQEQ[i] \in D
      /\ \A i, j \in 1..a : timerQ[i] = timerQ[j] => i = j
      /\ \A i, j \in 1..b : freeTQEQ[i] = freeTQEQ[j] => i = j
      /\ \A i \in 1..a, j \in 1..b : timerQ[i] # freeTQEQ[j]
      /\ \A k \in D : (\E i \in 1..a : timerQ[i] = k) \/ (\E i \in 1..b : freeTQEQ[i] = k)
  <2>1. /\ \A i \in 1..a : timerQ[i] \in D
        /\ \A i \in 1..b : freeTQEQ[i] \in D
    BY <1>1
  <2>2. /\ \A i, j \in 1..a : timerQ[i] = timerQ[j] => i = j
        /\ \A i, j \in 1..b : freeTQEQ[i] = freeTQEQ[j] => i = j
        /\ \A i \in 1..a, j \in 1..b : timerQ[i] # freeTQEQ[j]
    BY <1>1 DEF Shared, Distinct
  <2>3. \A k \in D : (\E i \in 1..a : timerQ[i] = k) \/ (\E i \in 1..b : freeTQEQ[i] = k)
    BY <1>1 DEF Shared, Has
  <2> QED
    BY <2>1, <2>2, <2>3
<1> HIDE DEF s, D, a, b
<1>5. ASSUME NEW i \in 1..a + b
      PROVE  \/ i \in 1..a /\ s[i] = timerQ[i]
             \/ i - a \in 1..b /\ i > a /\ s[i] = freeTQEQ[i - a]
  BY <1>3
<1>6. ASSUME NEW i \in 1..a + b, NEW j \in 1..a + b, s[i] = s[j]
      PROVE  i = j
  <2>1. \/ i \in 1..a /\ j \in 1..a
        \/ i - a \in 1..b /\ j - a \in 1..b /\ i - a = j - a
    BY <1>4, <1>5, <1>6
  <2>2. i \in Int /\ j \in Int /\ a \in Int
    BY <1>3
  <2> QED
    BY <1>3, <1>4, <1>5, <1>6, <2>1, <2>2
<1>7. ASSUME NEW k \in D
      PROVE  \E i \in 1..a + b : s[i] = k
  <2>1. CASE \E i \in 1..a : timerQ[i] = k
    <3>1. PICK i \in 1..a : timerQ[i] = k
      BY <2>1
    <3>2. i \in 1..a + b /\ i <= a
      BY <1>3
    <3> QED
      BY <1>3, <3>1, <3>2
  <2>2. CASE \E i \in 1..b : freeTQEQ[i] = k
    <3>1. PICK i \in 1..b : freeTQEQ[i] = k
      BY <2>2
    <3>2. a + i \in 1..a + b /\ ~(a + i <= a) /\ (a + i) - a = i
      BY <1>3
    <3>3. s[a + i] = freeTQEQ[i]
      BY <1>3, <3>2
    <3> QED
      BY <3>1, <3>2, <3>3
  <2> QED
    BY <1>4, <2>1, <2>2
<1>8. \A i \in 1..a + b : s[i] \in D
  BY <1>4, <1>5
<1>9. IsInjective(s) /\ ToSet(s) = D
  <2>1. IsInjective(s)
    BY <1>3, <1>6 DEF IsInjective
  <2>2. ToSet(s) = D
    BY <1>3, <1>7, <1>8 DEF ToSet
  <2> QED
    BY <2>1, <2>2
<1>10. ListsPartition
  BY <1>9 DEF ListsPartition, s, D
<1>11. OneTimerPerClient
  BY <1>1 DEF OneTimerPerClient, Queued, OneEach
<1>12. InTimeOrder
  <2>1. \A i \in 1..Len(timerQ) : tqe[timerQ[i]] \in Cells
    BY <1>1
  <2>2. \A i \in 1..Len(timerQ) :
          Normal(tqe[timerQ[i]].time) /\ Normal(tqe[timerQ[i]].interval)
    BY <2>1 DEF Cells, NormalTv
  <2> QED
    BY <1>1, <2>2 DEF InTimeOrder, Queued, Sorted
<1> QED
  BY <1>2, <1>10, <1>11, <1>12 DEF QueueWellFormed

-----------------------------------------------------------------------------
(* Repeating timers.                                                       *)

\* A pending timer restarts itself only for a client that asked for that, ...
AsksToRepeat == \A x \in Timers(Lists) : x.interval # Zero => x.client \in repeats
\* ... and that of a client that asked does restart itself.
Repeating == \A x \in Timers(Lists) : x.client \in repeats => x.interval # Zero

\* A step keeps both, if one-shot callers clear the interval and nobody asks
\* for a period of zero.
LEMMA RepeatStep ==
  ASSUME Sound, [Next]_vars
  PROVE  /\ ClearsInterval /\ AsksToRepeat => AsksToRepeat'
         /\ Zero \notin Periods /\ Repeating => Repeating'
<1> USE DEF AsksToRepeat, Repeating, Others
<1>1. CASE Keeps
  BY <1>1 DEF Keeps
<1>2. ASSUME NEW c \in Clients, Cancels(c)
      PROVE  (AsksToRepeat => AsksToRepeat') /\ (Repeating => Repeating')
  BY <1>2 DEF Cancels
<1>3. ASSUME NEW c \in Clients, NEW x \in Cells, SetsOnce(c, x)
      PROVE  (ClearsInterval /\ AsksToRepeat => AsksToRepeat') /\ (Repeating => Repeating')
  BY <1>3 DEF SetsOnce
<1>4. ASSUME NEW c \in Clients, NEW x \in Cells, SetsRepeating(c, x)
      PROVE  /\ AsksToRepeat => AsksToRepeat'
             /\ Zero \notin Periods /\ Repeating => Repeating'
  BY <1>4 DEF SetsRepeating
<1>5. ASSUME NEW x \in Cells, Fires(x)
      PROVE  (AsksToRepeat => AsksToRepeat') /\ (Repeating => Repeating')
  BY <1>5 DEF Fires
<1> QED
  BY <1>1, <1>2, <1>3, <1>4, <1>5, StepEffect DEF Effect

\* RepeatsOnlyIfAsked: with callers that clear the interval of a one-shot timer,
\* no element brings along the interval of its last user.
THEOREM RepeatsAsked == ClearsInterval /\ Spec => []RepeatsOnlyIfAsked
<1> SUFFICES ASSUME ClearsInterval
             PROVE  Spec => []RepeatsOnlyIfAsked
  OBVIOUS
<1>1. Init => AsksToRepeat
  BY InitSound DEF AsksToRepeat
<1>2. Sound /\ AsksToRepeat /\ [Next]_vars => AsksToRepeat'
  BY RepeatStep
<1>3. AsksToRepeat => RepeatsOnlyIfAsked
  BY DEF AsksToRepeat, RepeatsOnlyIfAsked, Timers, CellsOf, Lists
<1> QED
  BY <1>1, <1>2, <1>3, Invariant, PTL DEF Spec

\* RepeatingStaysPending: a timer with a period stays pending until its client
\* cancels it or sets another, though timer_get puts its element on the free list
\* before it takes one from there to restart it.
THEOREM RepeatingNotLost == Zero \notin Periods /\ Spec => RepeatingStaysPending
<1> SUFFICES ASSUME Zero \notin Periods
             PROVE  Spec => RepeatingStaysPending
  OBVIOUS
<1>1. Init => Repeating
  BY InitSound DEF Repeating
<1>2. Sound /\ Repeating /\ [Next]_vars => Repeating'
  BY RepeatStep
<1>3. \A c : HasTimer(c) <=> \E x \in Timers(Lists) : x.client = c
  BY DEF HasTimer, Timers, CellsOf, Lists
<1>4. \A c : HasTimer(c)' <=> \E x \in Timers(Lists)' : x.client = c
  BY DEF HasTimer, Timers, CellsOf, Lists
<1>5. ASSUME Sound, Repeating, [Next]_vars, NEW c \in repeats, HasTimer(c), c \in repeats'
      PROVE  HasTimer(c)'
  <2>1. PICK x \in Timers(Lists) : x.client = c /\ x.interval # Zero
    BY <1>3, <1>5 DEF Repeating
  <2>2. \A d : d # c => x \in Others(Lists, d)
    BY <2>1 DEF Others
  <2>3. CASE Keeps
    BY <1>4, <2>1, <2>3 DEF Keeps
  <2>4. ASSUME NEW d \in Clients, NEW y \in Cells,
               Cancels(d) \/ SetsOnce(d, y) \/ SetsRepeating(d, y)
        PROVE  HasTimer(c)'
    BY <1>4, <1>5, <2>1, <2>2, <2>4 DEF Cancels, SetsOnce, SetsRepeating
  <2>5. ASSUME NEW y \in Cells, Fires(y)
        PROVE  HasTimer(c)'
    <3>1. CASE y.client # c
      BY <1>4, <2>1, <2>2, <2>5, <3>1 DEF Fires
    <3>2. CASE y.client = c
      <4>1. y.interval # Zero
        BY <1>5, <2>5, <3>2 DEF Fires, Repeating
      <4> QED
        BY <1>4, <2>5, <3>2, <4>1 DEF Fires
    <3> QED
      BY <3>1, <3>2
  <2>6. Effect
    BY <1>5, StepEffect
  <2> QED
    BY <1>4, <1>5, <2>2, <2>1, <2>3, <2>4, <2>5, <2>6 DEF Effect, Cancels
<1>6. Sound /\ Repeating /\ [Next]_vars =>
        [\A c \in repeats : HasTimer(c) /\ c \in repeats' => HasTimer(c)']_vars
  BY <1>5
<1> QED
  BY <1>1, <1>2, <1>6, Invariant, PTL DEF Spec, RepeatingStaysPending

-----------------------------------------------------------------------------
(* What select is told.                                                    *)

\* TimeoutIsNextExpiry: timer_get returns NULL when nothing is pending and else
\* the time left until the earliest expiry, normalised and not zero.
THEOREM TimeoutExact == Spec => TimeoutIsNextExpiry
<1> DEFINE A ==
      depth' < depth =>
        IF timerQ = << >>
        THEN timeout' = NULL
        ELSE /\ Normal(timeout')
             /\ Value(timeout') > 0
             /\ \A i \in 1..Len(timerQ) :
                  Value(timeout') <= Value(tqe[timerQ[i]].time) - Value(now)
             /\ \E i \in 1..Len(timerQ) :
                  Value(timeout') = Value(tqe[timerQ[i]].time) - Value(now)
<1>1. ASSUME Sound, Next, depth' < depth
      PROVE  ReturnTimeout
  <2>1. depth \in Int
    BY <1>1 DEF Sound
  <2> QED
    BY <1>1, <2>1 DEF Next, Tick, CallTimerGet, Expire, HandlerReturns, UserSets, CancelTimer,
       SetOnce, SetRepeating
<1>2. ASSUME Sound, ReturnTimeout, timerQ # << >>
      PROVE  A
  <2> DEFINE u == tqe[timerQ[1]].time
  <2>1. /\ tqe \in Seq(Cells) /\ timerQ \in Seq(1..Len(tqe)) /\ Sorted(tqe, timerQ)
        /\ now \in NormalTv
    BY <1>2 DEF Sound, ListsOK, Lists, Queued
  <2>2. Len(timerQ) \in Nat \ {0} /\ Head(timerQ) = timerQ[1]
    BY <1>2, <2>1, EmptySeq
  <2>3. \A i \in 1..Len(timerQ) : tqe[timerQ[i]] \in Cells
    BY <2>1
  <2>4. \A i \in 1..Len(timerQ) : Value(tqe[timerQ[i]].time) \in Int
    BY <2>3, ValueIsInt DEF Cells, NormalTv
  <2>5. 1 \in 1..Len(timerQ)
    BY <2>2
  <2>6. u \in NormalTv /\ Value(u) \in Int /\ Value(now) \in Int
    BY <2>1, <2>3, <2>4, <2>5, ValueIsInt DEF Cells, NormalTv
  <2>7. timerless(now, u) /\ timeout' = Until(u, now)
    BY <1>2, <2>2 DEF ReturnTimeout, HeadExpired
  <2>8. \A i \in 1..Len(timerQ) : Value(u) <= Value(tqe[timerQ[i]].time)
    <3> SUFFICES ASSUME NEW i \in 1..Len(timerQ)
                 PROVE  Value(u) <= Value(tqe[timerQ[i]].time)
      OBVIOUS
    <3>1. CASE i = 1
      BY <2>6, <3>1
    <3>2. CASE i # 1
      <4>1. 1 < i
        BY <2>2, <3>2
      <4> QED
        BY <2>1, <2>5, <4>1 DEF Sorted
    <3> QED
      BY <3>1, <3>2
  <2>9. Value(u) = Value(tqe[timerQ[1]].time)
    OBVIOUS
  <2> HIDE DEF u
  <2>10. Normal(timeout') /\ Value(timeout') = Value(u) - Value(now) /\ Value(now) < Value(u)
    BY <2>1, <2>6, <2>7, UntilIsDifference, LessIsLess DEF NormalTv
  <2>11. Value(timeout') > 0
    BY <2>6, <2>10
  <2>12. \A i \in 1..Len(timerQ) : Value(timeout') <= Value(tqe[timerQ[i]].time) - Value(now)
    BY <2>4, <2>6, <2>8, <2>10
  <2>13. \E i \in 1..Len(timerQ) : Value(timeout') = Value(tqe[timerQ[i]].time) - Value(now)
    BY <2>5, <2>9, <2>10
  <2> QED
    BY <1>2, <2>10, <2>11, <2>12, <2>13
<1>3. ASSUME Sound, Next
      PROVE  A
  <2>1. CASE timerQ = << >>
    BY <1>1, <1>3, <2>1 DEF ReturnTimeout
  <2> QED
    BY <1>1, <1>2, <1>3, <2>1
<1>4. Sound /\ [Next]_vars => [A]_vars
  BY <1>3
<1> QED
  BY <1>4, Invariant, PTL DEF Spec, TimeoutIsNextExpiry

-----------------------------------------------------------------------------
(* The times of vam_time.h.                                                *)

\* How large a number is, without its sign.
Size(x) == IF x < 0 THEN -x ELSE x

\* q is a divided by b, truncated towards 0.
Truncates(a, b, q) ==
  /\ q \in Int
  /\ a >= 0 => 0 <= q * b /\ q * b <= a /\ a - q * b < Size(b)
  /\ a < 0 => a <= q * b /\ q * b <= 0 /\ q * b - a < Size(b)

\* Words are even.
LEMMA WordHalves ==
  Word \div 2 \in Nat /\ Word = 2 * (Word \div 2)
<1>1. Word \in Nat /\ Word % 2 = 0
  BY WordAssumption
<1> HIDE DEF Word
<1> QED
  BY <1>1

\* What differs from an absolute time by a multiple of the word is stored as it.
LEMMA StoredUnsigned ==
  ASSUME NEW x \in AbsTimes, NEW q \in Int, NEW y, y = Word * q + x
  PROVE  AsUnsigned(y) = x
<1>1. Word \in Nat \ {0} /\ x \in 0..(Word - 1)
  BY WordAssumption DEF AbsTimes
<1> HIDE DEF Word
<1> QED
  BY <1>1, RemainderUnique DEF AsUnsigned

\* The same for relative times, whose negative ones are the upper half.
LEMMA StoredSigned ==
  ASSUME NEW x \in RelTimes, NEW q \in Int, NEW y, y = Word * q + x
  PROVE  AsSigned(y) = x
<1> DEFINE H == Word \div 2
<1>1. Word \in Nat \ {0} /\ H \in Nat /\ Word = 2 * H /\ x \in (-H)..(H - 1)
  BY WordAssumption, WordHalves DEF RelTimes
<1>2. AsSigned(y) = IF (y % Word) >= H THEN (y % Word) - Word ELSE (y % Word)
  BY DEF AsSigned
<1> HIDE DEF Word, H
<1>3. CASE x >= 0
  <2>1. x \in 0..(Word - 1)
    BY <1>1, <1>3
  <2>2. (y % Word) = x
    BY <1>1, <2>1, RemainderUnique
  <2> QED
    BY <1>1, <1>2, <2>2
<1>4. CASE x < 0
  <2>1. Word + x \in 0..(Word - 1) /\ q - 1 \in Int
    BY <1>1, <1>4
  <2>2. y = Word * (q - 1) + (Word + x)
    BY <1>1
  <2>3. (y % Word) = Word + x
    BY <1>1, <2>1, <2>2, RemainderUnique
  <2>4. Word + x >= H /\ (Word + x) - Word = x
    BY <1>1, <1>4
  <2> QED
    BY <1>2, <2>3, <2>4
<1> QED
  BY <1>1, <1>3, <1>4

\* Whatever is stored differs from what was computed by a multiple of the word.
LEMMA StoredFrom ==
  ASSUME NEW y \in Int
  PROVE  /\ AsUnsigned(y) \in AbsTimes /\ \E q \in Int : y = Word * q + AsUnsigned(y)
         /\ AsSigned(y) \in RelTimes /\ \E q \in Int : y = Word * q + AsSigned(y)
<1> DEFINE H == Word \div 2
           d == y \div Word
           u == y % Word
<1>1. Word \in Nat \ {0} /\ H \in Nat /\ Word = 2 * H
  BY WordAssumption, WordHalves
<1>2. AsUnsigned(y) = u /\ AsSigned(y) = IF u >= H THEN u - Word ELSE u
  BY DEF AsUnsigned, AsSigned
<1>3. AbsTimes = 0..(Word - 1) /\ RelTimes = (-H)..(H - 1)
  BY DEF AbsTimes, RelTimes
<1> HIDE DEF Word, H
<1>4. d \in Int /\ u \in 0..(Word - 1) /\ y = Word * d + u
  BY <1>1, RemainderOf
<1> HIDE DEF d, u
<1>5. CASE u >= H
  <2>1. u - Word \in (-H)..(H - 1)
    BY <1>1, <1>4, <1>5
  <2>2. y = Word * (d + 1) + (u - Word) /\ d + 1 \in Int
    BY <1>1, <1>4
  <2> QED
    BY <1>2, <1>3, <1>4, <1>5, <2>1, <2>2
<1>6. CASE ~(u >= H)
  <2>1. u \in (-H)..(H - 1)
    BY <1>1, <1>4, <1>6
  <2> QED
    BY <1>2, <1>3, <1>4, <1>6, <2>1
<1> QED
  BY <1>5, <1>6

\* A time that fits is stored as it is.
LEMMA StoredAsIs ==
  /\ \A x \in AbsTimes : AsUnsigned(x) = x
  /\ \A x \in RelTimes : AsSigned(x) = x
<1>1. Word \in Nat /\ Word * 0 = 0
  BY WordAssumption
<1>2. AbsTimes \subseteq Int /\ RelTimes \subseteq Int
  BY WordAssumption, WordHalves DEF AbsTimes, RelTimes
<1>3. ASSUME NEW x \in Int
      PROVE  x = Word * 0 + x
  BY <1>1
<1> QED
  BY <1>2, <1>3, StoredUnsigned, StoredSigned

\* Quot is C's division.
LEMMA QuotTruncates ==
  ASSUME NEW a \in Int, NEW b \in Int, b # 0
  PROVE  Truncates(a, b, Quot(a, b))
<1> DEFINE n == Size(a)
           m == Size(b)
           d == n \div m
           e == n % m
           p == m * d
<1>1. n \in Nat /\ m \in Nat \ {0}
  BY DEF Size
<1>2. Quot(a, b) = IF (a < 0) = (b < 0) THEN d ELSE -d
  BY DEF Quot, Size
<1>3. (a < 0 => n = -a) /\ (a >= 0 => n = a) /\ (b < 0 => m = -b) /\ (b >= 0 => m = b)
  BY DEF Size
<1> HIDE DEF n, m
<1>4. d \in Int /\ e \in 0..(m - 1) /\ n = p + e
  BY <1>1, RemainderOf
<1> HIDE DEF d, e
<1>5. p \in Int
  BY <1>1, <1>4
<1>6. d >= 0
  <2>1. ASSUME d <= -1
        PROVE  FALSE
    <3>1. p <= -m
      BY <1>1, <1>4, <2>1
    <3> QED
      BY <1>1, <1>4, <1>5, <3>1
  <2> QED
    BY <1>4, <2>1
<1>7. p >= 0
  BY <1>1, <1>4, <1>6
<1>8. CASE a >= 0
  <2>1. Quot(a, b) * b = p
    <3>1. CASE b < 0
      <4>1. Quot(a, b) = -d /\ m = -b
        BY <1>2, <1>3, <1>8, <3>1
      <4> QED
        BY <1>4, <4>1
    <3>2. CASE ~(b < 0)
      <4>1. Quot(a, b) = d /\ m = b
        BY <1>2, <1>3, <1>8, <3>2
      <4> QED
        BY <1>4, <4>1
    <3> QED
      BY <3>1, <3>2
  <2>2. a = p + e
    BY <1>3, <1>4, <1>8
  <2>3. 0 <= p /\ p <= a /\ a - p < m
    BY <1>1, <1>4, <1>5, <1>7, <2>2
  <2>4. Quot(a, b) \in Int
    BY <1>2, <1>4
  <2> HIDE DEF p
  <2> QED
    BY <1>8, <2>1, <2>3, <2>4 DEF Truncates, m
<1>9. CASE a < 0
  <2>1. Quot(a, b) * b = -p
    <3>1. CASE b < 0
      <4>1. Quot(a, b) = d /\ m = -b
        BY <1>2, <1>3, <1>9, <3>1
      <4> QED
        BY <1>4, <4>1
    <3>2. CASE ~(b < 0)
      <4>1. Quot(a, b) = -d /\ m = b
        BY <1>2, <1>3, <1>9, <3>2
      <4> QED
        BY <1>4, <4>1
    <3> QED
      BY <3>1, <3>2
  <2>2. a = -(p + e)
    BY <1>3, <1>4, <1>5, <1>9
  <2>3. a <= -p /\ -p <= 0 /\ -p - a < m
    BY <1>1, <1>4, <1>5, <1>7, <2>2
  <2>4. Quot(a, b) \in Int
    BY <1>2, <1>4
  <2> HIDE DEF p
  <2> QED
    BY <1>9, <2>1, <2>3, <2>4 DEF Truncates, m
<1> QED
  BY <1>8, <1>9

\* What is multiplied by a factor and divided by it again is what it was.
LEMMA QuotUndoes ==
  ASSUME NEW a \in Int, NEW f \in Int, f # 0
  PROVE  Quot(a * f, f) = a
<1> DEFINE q == Quot(a * f, f)
<1>1. a * f \in Int
  OBVIOUS
<1>2. Truncates(a * f, f, q)
  BY <1>1, QuotTruncates
<1> HIDE DEF q
<1>3. q \in Int /\ a * f - q * f < Size(f) /\ q * f - a * f < Size(f)
  <2>1. \A x, y, z \in Int : (x >= 0 => 0 <= y /\ y <= x /\ x - y < z) /\ (x < 0 => x <= y /\ y <= 0 /\ y - x < z) /\ z > 0
                             => x - y < z /\ y - x < z
    OBVIOUS
  <2>2. Size(f) \in Int /\ Size(f) > 0 /\ q \in Int /\ q * f \in Int
    BY <1>2 DEF Size, Truncates
  <2> QED
    BY <1>1, <1>2, <2>1, <2>2 DEF Truncates
<1>4. a * f - q * f = (a - q) * f
  BY <1>3
<1> DEFINE k == a - q
<1>5. k \in Int /\ k * f < Size(f) /\ -(k * f) < Size(f)
  BY <1>3, <1>4
<1> HIDE DEF k
<1>6. k = 0
  <2>1. ASSUME k >= 1
        PROVE  FALSE
    <3>1. CASE f > 0
      <4>1. k * f >= f
        BY <1>5, <2>1, <3>1
      <4> QED
        BY <1>5, <3>1, <4>1 DEF Size
    <3>2. CASE f < 0
      <4>1. k * f <= f
        BY <1>5, <2>1, <3>2
      <4> QED
        BY <1>5, <3>2, <4>1 DEF Size
    <3> QED
      BY <3>1, <3>2
  <2>2. ASSUME k <= -1
        PROVE  FALSE
    <3>1. CASE f > 0
      <4>1. k * f <= -f
        BY <1>5, <2>2, <3>1
      <4> QED
        BY <1>5, <3>1, <4>1 DEF Size
    <3>2. CASE f < 0
      <4>1. k * f >= -f
        BY <1>5, <2>2, <3>2
      <4> QED
        BY <1>5, <3>2, <4>1 DEF Size
    <3> QED
      BY <3>1, <3>2
  <2> QED
    BY <1>5, <2>1, <2>2
<1> QED
  BY <1>3, <1>6 DEF k, q
-----------------------------------------------------------------------------
(* Absolute times.                                                         *)

\* A unit is at least one of the next smaller.
LEMMA Units ==
  Kilo \in Nat \ {0} /\ Mega \in Nat \ {0}
<1>1. Kilo \in Nat \ {0}
  BY WordAssumption
<1>2. Mega = Kilo * Kilo
  BY DEF Mega
<1>3. Mega \in Nat
  BY <1>1, <1>2
<1>4. Kilo * Kilo >= Kilo
  BY <1>1
<1> QED
  BY <1>1, <1>2, <1>3, <1>4

\* Cut to a unit, a time loses less than one.
LEMMA UnitBelow ==
  ASSUME NEW m \in Nat \ {0}, NEW t \in AbsTimes
  PROVE  /\ AsUnsigned(m * (t \div m)) \in AbsTimes
         /\ t - AsUnsigned(m * (t \div m)) \in 0..(m - 1)
<1> DEFINE d == t \div m
           e == t % m
<1>1. t \in Nat /\ Word \in Nat /\ t < Word
  BY WordAssumption DEF AbsTimes
<1>2. d \in Int /\ e \in 0..(m - 1) /\ t = m * d + e
  BY <1>1, RemainderOf
<1> HIDE DEF d, e
<1>3. m * d >= 0
  <2>1. ASSUME d <= -1
        PROVE  FALSE
    <3>1. m * d <= -m
      BY <1>2, <2>1
    <3> QED
      BY <1>1, <1>2, <3>1
  <2>2. d >= 0
    BY <1>2, <2>1
  <2> QED
    BY <1>2, <2>2
<1> DEFINE p == m * d
<1>4. p \in Int /\ 0 <= p /\ p <= t /\ t - p = e
  BY <1>1, <1>2, <1>3
<1> HIDE DEF p
<1>5. p \in AbsTimes
  <2>1. p \in 0..(Word - 1)
    <3> HIDE DEF Word
    <3> QED
      BY <1>1, <1>4
  <2> QED
    BY <2>1 DEF AbsTimes
<1>6. AsUnsigned(p) = p
  BY <1>5, StoredAsIs
<1> QED
  BY <1>2, <1>4, <1>5, <1>6 DEF p, d

\* The seconds and microseconds of a time make it up again.
LEMMA TimevalMakesTime ==
  ASSUME NEW t \in AbsTimes
  PROVE  timeval_to_abs_time(abs_time_to_timeval(t)) = t
<1> DEFINE d == t \div Mega
<1>1. t \in Int /\ Mega \in Nat \ {0}
  BY Units, WordAssumption DEF AbsTimes
<1>2. d \in Int
  BY <1>1, RemainderOf
<1>3. timeval_to_abs_time(abs_time_to_timeval(t)) = AsUnsigned(d * Mega + (t - d * Mega))
  BY DEF timeval_to_abs_time, abs_time_to_timeval
<1> HIDE DEF d
<1>4. d * Mega + (t - d * Mega) = t
  BY <1>1, <1>2
<1> QED
  BY <1>3, <1>4, StoredAsIs

\* NTP time and back, while the seconds do not wrap.
LEMMA NtpLosesOne ==
  ASSUME NEW t \in AbsTimes, t < 2 ^ SecBits * Mega
  PROVE  ntp_to_abs_time(tod_to_ntp(abs_time_to_timeval(t))) \in {t - 1, t}
<1> DEFINE B == 2 ^ SecBits
           F == 2 ^ FracBits
           M == Mega
           s == t \div M
           u == t % M
           upper == (s + Epoch) % B
           lower == (u * F) \div M
           sec == (upper - Epoch) % B
           usec == (lower * M) \div F
<1>1. /\ t \in Nat /\ M \in Nat \ {0} /\ B \in Nat \ {0} /\ F \in Nat /\ M <= F /\ Epoch \in Nat
      /\ t < B * M /\ Word \in Nat \ {0} /\ t < Word
  BY Units, WordAssumption, NtpAssumption DEF AbsTimes
<1>2. s \in Int /\ u \in 0..(M - 1) /\ t = M * s + u
  <2>1. t \in Int /\ M \in Nat \ {0}
    BY <1>1
  <2> HIDE DEF M
  <2> QED
    BY <2>1, RemainderOf
<1>3. t - s * M = u
  <2> HIDE DEF s, u, M
  <2> QED
    BY <1>1, <1>2
<1>4. ntp_to_abs_time(tod_to_ntp(abs_time_to_timeval(t))) = AsUnsigned(sec * M + usec)
  <2> DEFINE time == abs_time_to_timeval(t)
             ntp == tod_to_ntp(time)
             tod == ntp_to_tod(ntp)
  <2>1. time.sec = s /\ time.usec = u
    BY <1>3 DEF abs_time_to_timeval
  <2> HIDE DEF time
  <2>2. ntp.upper = upper /\ ntp.lower = lower
    BY <2>1 DEF tod_to_ntp
  <2> HIDE DEF ntp
  <2>3. tod.sec = sec /\ tod.usec = usec
    BY <2>2 DEF ntp_to_tod
  <2>4. ntp_to_abs_time(ntp) = AsUnsigned(tod.sec * M + tod.usec)
    BY DEF ntp_to_abs_time, timeval_to_abs_time
  <2> HIDE DEF tod, sec, usec
  <2> QED
    BY <2>3, <2>4 DEF ntp, time
<1> HIDE DEF B, F, M, s, u
<1>5. s \in 0..(B - 1)
  <2>1. ASSUME s <= -1
        PROVE  FALSE
    <3>1. M * s <= -M
      BY <1>1, <1>2, <2>1
    <3> QED
      BY <1>1, <1>2, <3>1
  <2>2. ASSUME s >= B
        PROVE  FALSE
    <3>1. M * s >= B * M
      BY <1>1, <1>2, <2>2
    <3> QED
      BY <1>1, <1>2, <3>1
  <2> QED
    BY <1>1, <1>2, <2>1, <2>2
<1>6. sec = s
  <2> DEFINE q == (s + Epoch) \div B
  <2>1. s + Epoch \in Int
    BY <1>1, <1>2
  <2>2. q \in Int /\ upper \in 0..(B - 1) /\ s + Epoch = B * q + upper
    BY <1>1, <2>1, RemainderOf
  <2> HIDE DEF q, upper
  <2>3. upper - Epoch = B * (-q) + s /\ -q \in Int
    BY <1>1, <1>2, <2>2
  <2> QED
    BY <1>1, <1>5, <2>3, RemainderUnique
<1> DEFINE e == (u * F) % M
<1>7. lower \in Int /\ e \in 0..(M - 1) /\ u * F = M * lower + e
  <2>1. u * F \in Int
    BY <1>1, <1>2
  <2> QED
    BY <1>1, <2>1, RemainderOf
<1> HIDE DEF sec, e, lower
<1>8. F \in Nat \ {0}
  BY <1>1
<1>9. usec \in {u - 1, u} /\ (usec = u - 1 => t >= 1)
  <2>1. CASE e = 0
    <3>1. lower * M = F * u + 0 /\ 0 \in 0..(F - 1)
      BY <1>1, <1>2, <1>7, <1>8, <2>1
    <3>2. usec = u
      BY <1>2, <1>8, <3>1, QuotientUnique
    <3> QED
      BY <1>2, <3>2
  <2>2. CASE e # 0
    <3>1. F - e \in 0..(F - 1)
      BY <1>1, <1>7, <1>8, <2>2
    <3>2. lower * M = F * (u - 1) + (F - e)
      BY <1>1, <1>2, <1>7
    <3>3. u - 1 \in Int
      BY <1>2
    <3>4. usec = u - 1
      <4> DEFINE q == u - 1
                 x == lower * M
                 g == F - e
      <4>1. q \in Int /\ g \in 0..(F - 1) /\ x = F * q + g /\ usec = x \div F
        BY <3>1, <3>2, <3>3
      <4> HIDE DEF q, x, g, usec
      <4>2. x \div F = q
        BY <1>8, <4>1, QuotientUnique
      <4> QED
        BY <4>1, <4>2 DEF q
    <3>5. u # 0
      <4>1. ASSUME u = 0
            PROVE  FALSE
        <5>1. u * F = 0 /\ M * lower = -e
          BY <1>1, <1>7, <4>1
        <5>2. lower >= 0 \/ lower <= -1
          BY <1>7
        <5>3. lower >= 0 => M * lower >= 0
          BY <1>1, <1>7
        <5>4. lower <= -1 => M * lower <= -M
          BY <1>1, <1>7
        <5> QED
          BY <1>1, <1>7, <2>2, <5>1, <5>2, <5>3, <5>4
      <4> QED
        BY <4>1
    <3>6. t >= 1
      <4>1. M * s >= 0
        BY <1>1, <1>5
      <4> QED
        BY <1>1, <1>2, <3>5, <4>1
    <3> QED
      BY <3>4, <3>6
  <2> QED
    BY <2>1, <2>2
<1> HIDE DEF usec
<1> DEFINE r == sec * M + usec
<1>10. r \in {t - 1, t} /\ r \in 0..(Word - 1)
  <2>1. sec * M = M * s /\ M * s \in Int
    BY <1>1, <1>2, <1>6
  <2>2. r = t \/ (r = t - 1 /\ t >= 1)
    BY <1>1, <1>2, <1>9, <2>1
  <2> HIDE DEF r, Word
  <2> QED
    BY <1>1, <2>2
<1>11. AsUnsigned(r) = r
  BY <1>10, StoredAsIs DEF AbsTimes
<1> QED
  BY <1>4, <1>10, <1>11
AbsRight(t, r, o) ==
  /\ o.diff = r /\ abs_plus_rel_time(o.minus, r) = t
  /\ t + r \in AbsTimes => (o.later <=> r > 0)
  /\ o.tv = t /\ o.sys = t /\ o.usec = t
  /\ t < 2 ^ SecBits * Mega => o.ntp \in {t - 1, t} /\ o.clock = o.ntp
  /\ t - o.sec \in 0..(Mega - 1) /\ t - o.msec \in 0..(Kilo - 1)
  /\ t * Kilo < Word => o.nsec = t
  /\ o.zero <=> t = 0

\* The results of operations on absolute times.
LEMMA AbsAreRight ==
  ASSUME NEW t \in AbsTimes, NEW r \in RelTimes
  PROVE  AbsRight(t, r, AbsResults(t, r))
<1> DEFINE o == AbsResults(t, r)
           plus == abs_plus_rel_time(t, r)
           minus == abs_minus_rel_time(t, r)
<1>1. /\ t \in Nat /\ r \in Int /\ Word \in Nat \ {0} /\ AbsTimes \subseteq Int
      /\ Kilo \in Nat \ {0} /\ Mega \in Nat \ {0}
  BY WordHalves, WordAssumption, Units DEF AbsTimes, RelTimes
<1>2. /\ o.minus = minus /\ o.diff = abs_minus_abs_time(plus, t) /\ o.later = abs_time_cmp(t, plus).lt
      /\ o.tv = timeval_to_abs_time(abs_time_to_timeval(t)) /\ o.sys = get_sys_time(abs_time_to_timeval(t))
      /\ o.ntp = ntp_to_abs_time(abs_time_to_ntp(t))
      /\ o.clock = ntp_to_abs_time(get_ntp_time(TRUE, abs_time_to_timeval(t)))
      /\ o.sec = sec_to_abs_time(abs_time_to_sec(t)) /\ o.msec = msec_to_abs_time(abs_time_to_msec(t))
      /\ o.usec = usec_to_abs_time(abs_time_to_usec(t)) /\ o.nsec = nsec_to_abs_time(abs_time_to_nsec(t))
      /\ o.zero = IS_ABS_TIME_ZERO(t)
  BY DEF AbsResults
<1> HIDE DEF o
<1>3. o.diff = r
  <2>a. t + r \in Int
    BY <1>1
  <2>b. AsUnsigned(t + r) \in AbsTimes /\ \E q \in Int : t + r = Word * q + AsUnsigned(t + r)
    BY <2>a, StoredFrom
  <2>c. plus = AsUnsigned(t + r)
    BY DEF abs_plus_rel_time
  <2> HIDE DEF plus
  <2>1. PICK q \in Int : t + r = Word * q + plus
    BY <2>b, <2>c
  <2>2. plus \in Int
    BY <1>1, <2>b, <2>c
  <2>3. plus - t = Word * (-q) + r /\ -q \in Int
    BY <1>1, <2>1, <2>2
  <2>4. AsSigned(plus - t) = r
    BY <2>3, StoredSigned
  <2> QED
    BY <1>2, <2>4 DEF abs_minus_abs_time
<1>4. abs_plus_rel_time(o.minus, r) = t
  <2>a. t - r \in Int
    BY <1>1
  <2>b. AsUnsigned(t - r) \in AbsTimes /\ \E q \in Int : t - r = Word * q + AsUnsigned(t - r)
    BY <2>a, StoredFrom
  <2>c. minus = AsUnsigned(t - r)
    BY DEF abs_minus_rel_time
  <2> HIDE DEF minus
  <2>1. PICK q \in Int : t - r = Word * q + minus
    BY <2>b, <2>c
  <2>2. minus \in Int
    BY <1>1, <2>b, <2>c
  <2>3. minus + r = Word * (-q) + t /\ -q \in Int
    BY <1>1, <2>1, <2>2
  <2>4. AsUnsigned(minus + r) = t
    BY <2>3, StoredUnsigned
  <2> QED
    BY <1>2, <2>4 DEF abs_plus_rel_time
<1>5. ASSUME t + r \in AbsTimes
      PROVE  o.later <=> r > 0
  <2>1. plus = t + r
    BY <1>5, StoredAsIs DEF abs_plus_rel_time
  <2>2. o.later = (t < plus)
    BY <1>2 DEF abs_time_cmp
  <2> HIDE DEF plus
  <2>3. (t < plus) <=> (r > 0)
    BY <1>1, <2>1
  <2> QED
    BY <2>2, <2>3
<1>6. o.tv = t /\ o.sys = t /\ o.usec = t
  BY <1>2, TimevalMakesTime DEF get_sys_time, usec_to_abs_time, abs_time_to_usec
<1>7. ASSUME t < 2 ^ SecBits * Mega
      PROVE  o.ntp \in {t - 1, t} /\ o.clock = o.ntp
  BY <1>2, <1>7, NtpLosesOne DEF abs_time_to_ntp, get_ntp_time
<1>8. t - o.sec \in 0..(Mega - 1) /\ t - o.msec \in 0..(Kilo - 1)
  <2>1. o.sec = AsUnsigned(Mega * (t \div Mega)) /\ o.msec = AsUnsigned(Kilo * (t \div Kilo))
    BY <1>2 DEF sec_to_abs_time, abs_time_to_sec, msec_to_abs_time, abs_time_to_msec
  <2>2. t - AsUnsigned(Mega * (t \div Mega)) \in 0..(Mega - 1)
    BY <1>1, UnitBelow
  <2>3. t - AsUnsigned(Kilo * (t \div Kilo)) \in 0..(Kilo - 1)
    BY <1>1, UnitBelow
  <2> QED
    BY <2>1, <2>2, <2>3
<1>9. ASSUME t * Kilo < Word
      PROVE  o.nsec = t
  <2> DEFINE n == t * Kilo
  <2>1. n \in Nat /\ n \in 0..(Word - 1) /\ n = Kilo * t + 0 /\ 0 \in 0..(Kilo - 1)
    <3> HIDE DEF Word
    <3> QED
      BY <1>1, <1>9
  <2>2. o.nsec = AsUnsigned(n) \div Kilo
    BY <1>2 DEF nsec_to_abs_time, abs_time_to_nsec
  <2>3. AsUnsigned(n) = n
    BY <2>1, StoredAsIs DEF AbsTimes
  <2> HIDE DEF n
  <2>4. n \div Kilo = t
    BY <1>1, <2>1, QuotientUnique
  <2> QED
    BY <2>2, <2>3, <2>4
<1>10. o.zero <=> t = 0
  BY <1>2 DEF IS_ABS_TIME_ZERO, abs_time_cmp
<1>11. AbsRight(t, r, o)
  BY <1>3, <1>4, <1>5, <1>6, <1>7, <1>8, <1>9, <1>10 DEF AbsRight
<1> QED
  BY <1>11 DEF o

-----------------------------------------------------------------------------
(* Relative times.                                                         *)

RelRight(a, b, o) ==
  /\ a + b \in RelTimes => o.sum = a + b /\ rel_minus_rel_time(o.sum, b) = a
  /\ a - b \in RelTimes => (o.lt <=> o.diff < 0)
  /\ -a \in RelTimes => o.neg = -a /\ o.abs \in {a, -a} /\ o.abs >= 0
  /\ b # 0 /\ Quot(a, b) \in RelTimes =>
       /\ o.div * b + o.mod = a
       /\ o.mod * a >= 0 /\ TIME_ABS_R(o.mod) < (IF b < 0 THEN -b ELSE b)
  /\ o.tv = a /\ o.usec = a
  /\ Quot(a, Kilo) * Kilo = o.msec /\ o.msec * a >= 0 /\ o.sec * a >= 0
  /\ a * Kilo \in RelTimes => o.nsec = a
  /\ \A f \in Factors : a * f \in RelTimes => o.back[f] = a
  /\ 2 * a \in RelTimes => o.shift = a
  /\ o.half = Quot(a, 2)

\* Cut to a unit, a relative time comes closer to 0 and keeps its sign.
LEMMA QuotTowardsZero ==
  ASSUME NEW a \in RelTimes, NEW m \in Nat \ {0}
  PROVE  /\ Quot(a, m) \in Int /\ Quot(a, m) * m \in RelTimes /\ (Quot(a, m) * m) * a >= 0
         /\ AsSigned(m * Quot(a, m)) = Quot(a, m) * m
<1> DEFINE H == Word \div 2
           q == Quot(a, m)
           p == q * m
<1>1. H \in Nat /\ a \in Int /\ a \in (-H)..(H - 1) /\ m \in Int /\ m # 0
  BY WordHalves DEF RelTimes
<1>2. Truncates(a, m, q)
  BY <1>1, QuotTruncates
<1> HIDE DEF q
<1>3. q \in Int /\ (a >= 0 => 0 <= p /\ p <= a) /\ (a < 0 => a <= p /\ p <= 0)
  BY <1>2 DEF Truncates
<1>4. p \in Int /\ m * q = p
  BY <1>1, <1>3
<1> HIDE DEF p
<1>5. p * a >= 0
  <2>1. CASE a >= 0
    BY <1>1, <1>3, <1>4, <2>1
  <2>2. CASE a < 0
    <3>1. -p >= 0 /\ -a >= 0 /\ p * a = (-p) * (-a)
      BY <1>1, <1>3, <1>4, <2>2
    <3> QED
      BY <1>1, <1>4, <3>1
  <2> QED
    BY <1>1, <2>1, <2>2
<1>6. p \in RelTimes
  <2>1. p \in (-H)..(H - 1)
    <3> HIDE DEF H
    <3> QED
      BY <1>1, <1>3, <1>4
  <2> QED
    BY <2>1 DEF RelTimes
<1>7. AsSigned(p) = p
  BY <1>6, StoredAsIs
<1> QED
  BY <1>3, <1>4, <1>5, <1>6, <1>7 DEF p, q

\* The results of operations on relative times.
LEMMA RelAreRight ==
  ASSUME NEW a \in RelTimes, NEW b \in RelTimes
  PROVE  RelRight(a, b, RelResults(a, b))
<1> DEFINE o == RelResults(a, b)
           H == Word \div 2
<1>1. /\ a \in Int /\ b \in Int /\ H \in Nat /\ a \in (-H)..(H - 1) /\ b \in (-H)..(H - 1)
      /\ Kilo \in Nat \ {0} /\ Mega \in Nat \ {0}
  BY WordHalves, Units DEF RelTimes
<1>2. /\ o.sum = rel_plus_rel_time(a, b) /\ o.diff = rel_minus_rel_time(a, b) /\ o.neg = rel_time_neg(a)
      /\ o.abs = TIME_ABS_R(a) /\ o.lt = rel_time_cmp(a, b).lt
      /\ b # 0 => o.div = rel_div_rel_time(a, b) /\ o.mod = rel_mod_rel_time(a, b)
      /\ o.tv = timeval_to_rel_time(rel_time_to_timeval(a))
      /\ o.sec = sec_to_rel_time(rel_time_to_sec(a)) /\ o.msec = msec_to_rel_time(rel_time_to_msec(a))
      /\ o.usec = usec_to_rel_time(rel_time_to_usec(a)) /\ o.nsec = nsec_to_rel_time(rel_time_to_nsec(a))
      /\ o.half = rel_time_mult_double(a, 1, 2) /\ o.shift = rel_time_rshift(rel_time_lshift(a, 1), 1)
  BY DEF RelResults
<1>3. \A f \in Factors : o.back[f] = rel_time_div_int(rel_time_mult_int(a, f), f)
  BY DEF RelResults
<1> HIDE DEF o
<1>4. ASSUME a + b \in RelTimes
      PROVE  o.sum = a + b /\ rel_minus_rel_time(o.sum, b) = a
  <2>1. o.sum = a + b
    BY <1>2, <1>4, StoredAsIs DEF rel_plus_rel_time
  <2>2. (a + b) - b = a
    BY <1>1
  <2> QED
    BY <2>1, <2>2, StoredAsIs DEF rel_minus_rel_time
<1>5. ASSUME a - b \in RelTimes
      PROVE  o.lt <=> o.diff < 0
  <2>1. o.diff = a - b
    BY <1>2, <1>5, StoredAsIs DEF rel_minus_rel_time
  <2>2. o.lt = (a < b)
    BY <1>2 DEF rel_time_cmp
  <2>3. (a < b) <=> (o.diff < 0)
    BY <1>1, <2>1
  <2> QED
    BY <2>2, <2>3
<1>6. ASSUME -a \in RelTimes
      PROVE  o.neg = -a /\ o.abs \in {a, -a} /\ o.abs >= 0
  <2>1. rel_time_neg(a) = -a
    BY <1>6, StoredAsIs DEF rel_time_neg
  <2>2. o.abs = IF a < 0 THEN -a ELSE a
    BY <1>2, <2>1 DEF TIME_ABS_R
  <2> QED
    BY <1>1, <1>2, <2>1, <2>2
<1>7. ASSUME b # 0
      PROVE  /\ o.div * b + o.mod = a
             /\ o.mod * a >= 0 /\ TIME_ABS_R(o.mod) < (IF b < 0 THEN -b ELSE b)
  <2> DEFINE q == Quot(a, b)
             p == q * b
             r == a - p
  <2>1. Truncates(a, b, q)
    BY <1>1, <1>7, QuotTruncates
  <2>2. o.div = q /\ o.mod = AsSigned(r)
    BY <1>2, <1>7 DEF rel_div_rel_time, rel_mod_rel_time
  <2> HIDE DEF q
  <2>3. q \in Int /\ p \in Int
    BY <1>1, <2>1 DEF Truncates
  <2>4. /\ a >= 0 => 0 <= p /\ p <= a /\ a - p < Size(b)
        /\ a < 0 => a <= p /\ p <= 0 /\ p - a < Size(b)
    BY <2>1 DEF Truncates
  <2>5. Size(b) \in Nat /\ Size(b) <= H /\ Size(b) = (IF b < 0 THEN -b ELSE b)
    <3>1. -b <= H /\ b <= H
      <4> HIDE DEF H
      <4> QED
        BY <1>1
    <3> HIDE DEF H
    <3> QED
      BY <1>1, <3>1 DEF Size
  <2>6. p + r = a /\ r \in Int
    BY <1>1, <2>3
  <2>7. r \in (-(H - 1))..(H - 1) /\ (a >= 0 => 0 <= r /\ r < Size(b)) /\ (a < 0 => r <= 0 /\ -r < Size(b))
    <3> HIDE DEF H, p
    <3> QED
      BY <1>1, <2>3, <2>4, <2>5
  <2> HIDE DEF p, r
  <2>8. r \in RelTimes /\ -r \in RelTimes
    <3>1. r \in (-H)..(H - 1) /\ -r \in (-H)..(H - 1)
      <4> HIDE DEF H
      <4> QED
        BY <1>1, <2>6, <2>7
    <3> QED
      BY <3>1 DEF RelTimes
  <2>9. o.mod = r
    BY <2>2, <2>8, StoredAsIs
  <2>10. TIME_ABS_R(r) = IF r < 0 THEN -r ELSE r
    BY <2>8, StoredAsIs DEF TIME_ABS_R, rel_time_neg
  <2>11. TIME_ABS_R(r) < Size(b)
    <3>1. CASE a >= 0
      BY <2>6, <2>7, <2>10, <3>1
    <3>2. CASE a < 0
      <4>1. r < 0 => TIME_ABS_R(r) = -r /\ -r < Size(b)
        BY <2>7, <2>10, <3>2
      <4>2. ~(r < 0) => TIME_ABS_R(r) = r /\ r = 0
        BY <2>6, <2>7, <2>10, <3>2
      <4>3. 0 < Size(b)
        BY <1>1, <1>7 DEF Size
      <4> QED
        BY <4>1, <4>2, <4>3
    <3> QED
      BY <1>1, <3>1, <3>2
  <2>12. r * a >= 0
    <3>1. CASE a >= 0
      BY <1>1, <2>6, <2>7, <3>1
    <3>2. CASE a < 0
      <4>1. -r >= 0 /\ -a >= 0 /\ r * a = (-r) * (-a)
        BY <1>1, <2>6, <2>7, <3>2
      <4> QED
        BY <1>1, <2>6, <4>1
    <3> QED
      BY <1>1, <3>1, <3>2
  <2>13. o.div * b + o.mod = a
    BY <2>2, <2>6, <2>9 DEF p
  <2> QED
    BY <2>5, <2>9, <2>11, <2>12, <2>13
<1>8. o.tv = a /\ o.usec = a
  <2> DEFINE q == Quot(a, Mega)
  <2>1. q \in Int
    BY <1>1, QuotTowardsZero
  <2>2. o.tv = AsSigned(q * Mega + (a - q * Mega))
    BY <1>2 DEF timeval_to_rel_time, rel_time_to_timeval
  <2> HIDE DEF q
  <2>3. q * Mega + (a - q * Mega) = a
    BY <1>1, <2>1
  <2> QED
    BY <1>2, <2>2, <2>3, StoredAsIs DEF usec_to_rel_time, rel_time_to_usec
<1>9. Quot(a, Kilo) * Kilo = o.msec /\ o.msec * a >= 0 /\ o.sec * a >= 0
  <2>1. o.msec = AsSigned(Kilo * Quot(a, Kilo)) /\ o.sec = AsSigned(Mega * Quot(a, Mega))
    BY <1>2 DEF msec_to_rel_time, rel_time_to_msec, sec_to_rel_time, rel_time_to_sec
  <2>2. AsSigned(Kilo * Quot(a, Kilo)) = Quot(a, Kilo) * Kilo /\ (Quot(a, Kilo) * Kilo) * a >= 0
    BY <1>1, QuotTowardsZero
  <2>3. AsSigned(Mega * Quot(a, Mega)) = Quot(a, Mega) * Mega /\ (Quot(a, Mega) * Mega) * a >= 0
    BY <1>1, QuotTowardsZero
  <2> QED
    BY <2>1, <2>2, <2>3
<1>10. ASSUME a * Kilo \in RelTimes
       PROVE  o.nsec = a
  <2>1. AsSigned(a * Kilo) = a * Kilo
    BY <1>10, StoredAsIs
  <2>2. o.nsec = Quot(AsSigned(a * Kilo), Kilo)
    BY <1>2 DEF nsec_to_rel_time, rel_time_to_nsec
  <2>3. Kilo \in Int /\ Kilo # 0
    BY <1>1
  <2> QED
    BY <1>1, <2>1, <2>2, <2>3, QuotUndoes
<1>11. ASSUME NEW f \in Factors, a * f \in RelTimes
       PROVE  o.back[f] = a
  <2>1. f \in Int /\ f # 0
    BY WordAssumption
  <2>2. AsSigned(a * f) = a * f
    BY <1>11, StoredAsIs
  <2>3. o.back[f] = Quot(AsSigned(a * f), f)
    BY <1>3 DEF rel_time_div_int, rel_time_mult_int
  <2> QED
    BY <1>1, <2>1, <2>2, <2>3, QuotUndoes
<1>12. ASSUME 2 * a \in RelTimes
       PROVE  o.shift = a
  <2>1. 2 ^ 1 = 2
    BY WordAssumption
  <2>2. o.shift = AsSigned(a * 2) \div 2
    BY <1>2, <2>1 DEF rel_time_rshift, rel_time_lshift
  <2>3. a * 2 = 2 * a /\ (2 * a) \div 2 = a
    BY <1>1
  <2>4. AsSigned(2 * a) = 2 * a
    BY <1>12, StoredAsIs
  <2> QED
    BY <2>2, <2>3, <2>4
<1>13. o.half = Quot(a, 2)
  <2>1. a * 1 = a
    BY <1>1
  <2> QED
    BY <1>2, <2>1 DEF rel_time_mult_double
<1>14. RelRight(a, b, o)
  BY <1>4, <1>5, <1>6, <1>7, <1>8, <1>9, <1>10, <1>11, <1>12, <1>13 DEF RelRight
<1> QED
  BY <1>14 DEF o
-----------------------------------------------------------------------------
(* The 90 kHz clock.                                                       *)

PcrRight(p, o) ==
  /\ o.usec - ((100 * p) \div 9) \in {-1, 0}
  /\ p >= 0 => p - o.back \in 0..1
  /\ p < 0 => o.back > 0

\* What the rounded factors lose in a product, where A and B are the powers of
\* two, u and v the products shifted, and the rest remainders.
LEMMA FactorsLose ==
  ASSUME NEW A \in Nat \ {0}, NEW p \in Int, p <= A, -(8 * p) < A,
         NEW m \in Int, NEW e \in 0..8, 100 * A = 9 * m + e,
         NEW u \in Int, NEW f \in 0..(A - 1), m * p = A * u + f,
         NEW g \in Int, NEW h \in 0..8, 100 * p = 9 * g + h
  PROVE  u - g \in {-1, 0}
<1> DEFINE x == A * (u - g)
           y == A * h
           z == p * e
<1>1. x \in Int /\ y \in Int /\ z \in Int
  OBVIOUS
<1>2. 9 * x = y - z - 9 * f
  <2>1. 9 * (m * p) = p * (100 * A - e)
    OBVIOUS
  <2>2. p * (100 * A - e) = A * (100 * p) - p * e
    OBVIOUS
  <2>3. A * (100 * p) = A * (9 * g + h)
    OBVIOUS
  <2>4. 9 * (A * u + f) = A * (9 * g + h) - p * e
    BY <2>1, <2>2, <2>3
  <2> QED
    BY <2>4
<1>3. 0 <= y /\ y <= 8 * A
  OBVIOUS
<1>4. p >= 0 => 0 <= z /\ z <= 8 * p
  OBVIOUS
<1>5. p < 0 => 8 * p <= z /\ z <= 0
  OBVIOUS
<1> HIDE DEF y, z
<1>6. 9 * x < 9 * A /\ 9 * x > -(18 * A)
  <2> HIDE DEF x
  <2> QED
    BY <1>1, <1>2, <1>3, <1>4, <1>5
<1>7. u - g >= 1 => x >= A
  OBVIOUS
<1>8. u - g <= -2 => x <= -(2 * A)
  OBVIOUS
<1> HIDE DEF x
<1> QED
  BY <1>1, <1>6, <1>7, <1>8

\* The same on the way back: of the quotient and of the sign.
LEMMA FactorsLoseBack ==
  ASSUME NEW B \in Nat \ {0}, NEW p \in Int, 14 * p <= B,
         NEW m \in Int, NEW e \in 0..99, 9 * B = 100 * m + e,
         NEW u \in Int, NEW g \in Int, NEW h \in 0..8, 100 * p = 9 * g + h, u - g \in {-1, 0},
         NEW v \in Int, NEW f \in 0..(B - 1), u * m = B * v + f
  PROVE  /\ p >= 0 /\ u >= 0 => p - v \in 0..1
         /\ u < 0 => v >= p - 1
<1> DEFINE k == u - g
           x == B * (v - p)
           y == B * (9 * k - h)
           z == u * e
<1>1. x \in Int /\ y \in Int /\ z \in Int
  OBVIOUS
<1>2. 100 * x = y - z - 100 * f
  <2>1. 100 * (u * m) = u * (9 * B - e)
    OBVIOUS
  <2>2. u * (9 * B - e) = B * (9 * u) - u * e
    OBVIOUS
  <2>3. 9 * u = 100 * p + (9 * k - h)
    OBVIOUS
  <2>4. B * (9 * u) = B * (100 * p + (9 * k - h))
    BY <2>3
  <2>5. 100 * (B * v + f) = B * (100 * p + (9 * k - h)) - u * e
    BY <2>1, <2>2, <2>4
  <2> HIDE DEF k
  <2>6. k \in Int
    BY DEF k
  <2> QED
    BY <2>5, <2>6
<1>3. -(17 * B) <= y /\ y <= 0
  <2>1. 9 * k - h >= -17 /\ 9 * k - h <= 0 /\ 9 * k - h \in Int
    OBVIOUS
  <2> DEFINE w == 9 * k - h
  <2> HIDE DEF w
  <2>2. -(17 * B) <= B * w /\ B * w <= 0
    BY <2>1 DEF w
  <2> QED
    BY <2>2 DEF w
<1>4. u >= 0 => 0 <= z /\ z <= 99 * u
  OBVIOUS
<1>5. u < 0 => z <= 0
  OBVIOUS
<1>6. 9 * u <= 100 * p
  OBVIOUS
<1> HIDE DEF y, z
<1>7. u >= 0 => 100 * x <= 0 /\ 100 * x > -(200 * B)
  <2> HIDE DEF x
  <2> QED
    BY <1>1, <1>2, <1>3, <1>4, <1>6
<1>8. u < 0 => 100 * x > -(200 * B)
  <2> HIDE DEF x
  <2> QED
    BY <1>1, <1>2, <1>3, <1>5
<1>9. v - p >= 1 => x >= B
  OBVIOUS
<1>10. v - p <= -2 => x <= -(2 * B)
  OBVIOUS
<1> HIDE DEF x
<1> QED
  BY <1>1, <1>7, <1>8, <1>9, <1>10

\* The conversions of clock tics, there and back.
LEMMA PcrsAreRight ==
  ASSUME NEW p \in PcrRange
  PROVE  PcrRight(p, PcrResults(p))
<1> DEFINE A == 2 ^ PCR_TO_USEC_SHIFT
           B == 2 ^ USEC_TO_PCR_SHIFT
           X == UnsignedExcess
           a == PCR_TO_USEC_MULT
           b == USEC_TO_PCR_MULT
           g == (100 * p) \div 9
           h == (100 * p) % 9
           u == pcr_to_rel_time(p)
           v == (u * b) \div B
<1>1. /\ A \in Nat \ {0} /\ B \in Nat \ {0} /\ X \in Nat
      /\ p \in Int /\ p <= A /\ 14 * p <= B /\ -(8 * p) < A /\ 2 - p < X
  BY PcrAssumption
<1>2. a = (100 * A) \div 9 /\ b = (9 * B) \div 100 /\ u = (p * a) \div A
  BY DEF PCR_TO_USEC_MULT, USEC_TO_PCR_MULT, pcr_to_rel_time
<1>3. PcrResults(p).usec = u /\ PcrResults(p).back = IF u < 0 THEN v + X ELSE v + 0
  BY DEF PcrResults, rel_time_to_pcr
<1> HIDE DEF A, B, X, a, b, u
<1>4. g \in Int /\ h \in 0..8 /\ 100 * p = 9 * g + h
  BY <1>1
<1> DEFINE e == (100 * A) % 9
           d == (9 * B) % 100
<1>5. a \in Int /\ e \in 0..8 /\ 100 * A = 9 * a + e
  BY <1>1, <1>2
<1>6. b \in Int /\ d \in 0..99 /\ 9 * B = 100 * b + d
  BY <1>1, <1>2
<1> HIDE DEF g, h, e, d
<1> DEFINE f == (p * a) % A
<1>7. u \in Int /\ f \in 0..(A - 1) /\ p * a = A * u + f
  <2>1. p * a \in Int
    BY <1>1, <1>5
  <2> QED
    BY <1>1, <1>2, <2>1, RemainderOf
<1> HIDE DEF f
<1> DEFINE c == (u * b) % B
<1>8. v \in Int /\ c \in 0..(B - 1) /\ u * b = B * v + c
  <2>1. u * b \in Int
    BY <1>6, <1>7
  <2> QED
    BY <1>1, <2>1, RemainderOf
<1> HIDE DEF c, v
<1>9. u - g \in {-1, 0}
  <2>1. a * p = A * u + f
    BY <1>1, <1>5, <1>7
  <2> QED
    BY <1>1, <1>4, <1>5, <1>7, <2>1, FactorsLose
<1>10. /\ p >= 0 /\ u >= 0 => p - v \in 0..1
       /\ u < 0 => v >= p - 1
  BY <1>1, <1>4, <1>6, <1>7, <1>8, <1>9, FactorsLoseBack
<1>11. p >= 0 => u >= 0
  <2>1. ASSUME p >= 0, u <= -1
        PROVE  FALSE
    <3>1. a >= 0
      BY <1>1, <1>5
    <3>2. p * a >= 0
      BY <1>1, <1>5, <2>1, <3>1
    <3>3. A * u <= -A
      BY <1>1, <1>7, <2>1
    <3> QED
      BY <1>1, <1>7, <3>2, <3>3
  <2> QED
    BY <1>7, <2>1
<1>12. p < 0 => u < 0
  <2>1. ASSUME p <= -1, u >= 0
        PROVE  FALSE
    <3>1. a >= 1
      BY <1>1, <1>5
    <3>2. p * a <= -a
      BY <1>1, <1>5, <2>1, <3>1
    <3>3. A * u >= 0
      BY <1>1, <1>7, <2>1
    <3> DEFINE x == p * a
               y == A * u
    <3>4. x \in Int /\ y \in Int
      BY <1>1, <1>5, <1>7
    <3>5. x <= -a /\ y >= 0 /\ x = y + f
      BY <1>7, <3>2, <3>3
    <3> HIDE DEF x, y
    <3> QED
      BY <1>5, <1>7, <3>1, <3>4, <3>5
  <2> QED
    BY <1>1, <1>7, <2>1
<1> DEFINE o == PcrResults(p)
<1>13. o.usec - ((100 * p) \div 9) \in {-1, 0}
  BY <1>3, <1>9 DEF g
<1>14. p >= 0 => p - o.back \in 0..1
  <2>1. p >= 0 => ~(u < 0) /\ p - v \in 0..1
    BY <1>1, <1>7, <1>10, <1>11
  <2>2. v + 0 = v
    BY <1>8
  <2> HIDE DEF o
  <2> QED
    BY <1>3, <2>1, <2>2 DEF o
<1>15. p < 0 => o.back > 0
  BY <1>1, <1>3, <1>8, <1>10, <1>12
<1> HIDE DEF o
<1>16. PcrRight(p, o)
  BY <1>13, <1>14, <1>15 DEF PcrRight
<1> QED
  BY <1>16 DEF o

-----------------------------------------------------------------------------
(* The theorem.                                                            *)

\* Operands of a case, and what it computed of them.
TimeInv ==
  /\ tcase = [op |-> tcase.op, a |-> tcase.a, b |-> tcase.b, done |-> tcase.done, out |-> tcase.out]
  /\ tcase.op \in {"abs", "rel", "pcr"}
  /\ tcase.op = "abs" => tcase.a \in AbsTimes /\ tcase.b \in RelTimes
  /\ tcase.op = "rel" => tcase.a \in RelTimes /\ tcase.b \in RelTimes
  /\ tcase.op = "pcr" => tcase.a \in PcrRange
  /\ tcase.done =>
       /\ tcase.op = "abs" => tcase.out = AbsResults(tcase.a, tcase.b)
       /\ tcase.op = "rel" => tcase.out = RelResults(tcase.a, tcase.b)
       /\ tcase.op = "pcr" => tcase.out = PcrResults(tcase.a)

\* With right results, TimesAgree holds.
LEMMA TimeInvImplies == TimeInv => TimesAgree
<1> SUFFICES ASSUME TimeInv
             PROVE  TimesAgree
  OBVIOUS
<1>1. tcase.op = "abs" /\ tcase.done => AbsRight(tcase.a, tcase.b, tcase.out)
  BY AbsAreRight DEF TimeInv
<1>2. tcase.op = "rel" /\ tcase.done => RelRight(tcase.a, tcase.b, tcase.out)
  BY RelAreRight DEF TimeInv
<1>3. tcase.op = "pcr" /\ tcase.done => PcrRight(tcase.a, tcase.out)
  BY PcrsAreRight DEF TimeInv
<1> QED
  BY <1>1, <1>2, <1>3, Zenon DEF TimesAgree, AbsRight, RelRight, PcrRight

\* No case has results at first.
LEMMA TimeInitially == TimeInit => TimeInv
BY DEF TimeInit, NoTimes, TimeInv

\* Then it has the ones computed.
LEMMA TimeNextKeeps ==
  ASSUME TimeInv, [TimeNext]_tcase
  PROVE  TimeInv'
<1>1. CASE UNCHANGED tcase
  BY <1>1 DEF TimeInv
<1>2. CASE TimeNext
  <2> DEFINE out == CASE tcase.op = "abs" -> AbsResults(tcase.a, tcase.b)
                      [] tcase.op = "rel" -> RelResults(tcase.a, tcase.b)
                      [] tcase.op = "pcr" -> PcrResults(tcase.a)
  <2>1. tcase' = [tcase EXCEPT !.done = TRUE, !.out = out]
    BY <1>2 DEF TimeNext
  <2>2. /\ tcase.op = "abs" => out = AbsResults(tcase.a, tcase.b)
        /\ tcase.op = "rel" => out = RelResults(tcase.a, tcase.b)
        /\ tcase.op = "pcr" => out = PcrResults(tcase.a)
    OBVIOUS
  <2> HIDE DEF out
  <2>3. tcase' = [op |-> tcase.op, a |-> tcase.a, b |-> tcase.b, done |-> TRUE, out |-> out]
    BY <2>1 DEF TimeInv
  <2>4. tcase'.op = tcase.op /\ tcase'.a = tcase.a /\ tcase'.b = tcase.b /\ tcase'.done /\ tcase'.out = out
    BY <2>3
  <2>5. tcase' = [op |-> tcase'.op, a |-> tcase'.a, b |-> tcase'.b, done |-> tcase'.done, out |-> tcase'.out]
    BY <2>3
  <2> QED
    BY <2>2, <2>4, <2>5 DEF TimeInv
<1> QED
  BY <1>1, <1>2

\* TimesAgree, for words of any even size, any unit and NTP fractions no coarser
\* than it: the sums and differences of vam_time.h are right across the wrap, and
\* its conversions lose less than one of the coarser unit, in either direction.
THEOREM TimesAlwaysAgree == TimeSpec => []TimesAgree
<1>1. TimeInit => TimeInv
  BY TimeInitially
<1>2. TimeInv /\ [TimeNext]_tcase => TimeInv'
  BY TimeNextKeeps
<1>3. TimeInv => TimesAgree
  BY TimeInvImplies
<1> QED
  BY <1>1, <1>2, <1>3, PTL DEF TimeSpec
=============================================================================
