-------------------------- MODULE StructureProofs --------------------------
(***************************************************************************)
(* What holds of the data structures, for any keys, octets, elements and   *)
(* objects and after any calls: the hash table (bsd_hash/hash.c) finds     *)
(* what was added last; the lists of DList-test/MyDList.hpp are rings of   *)
(* the objects they should hold; and the six lists of the queue macros     *)
(* (bsd_hash/queue_plus.h) are chains of the elements on them, which every *)
(* traversal meets in order.                                               *)
(***************************************************************************)
EXTENDS HashTable, MyDList, QueueMacros, NatRecursion, FiniteSetTheorems, SequenceTheorems

-----------------------------------------------------------------------------
(* The hash table.                                                         *)

Keys == Seq(0..(OctetSize - 1))
Entries == [key : Keys, data : HData]

\* The entries of the log whose key is in K are those of the chain, in order:
\* at is where the log has each of the chain's.
IsPart(chain, log, K, at) ==
  /\ at \in [1..Len(chain) -> 1..Len(log)]
  /\ \A i, j \in 1..Len(chain) : i < j => at[i] < at[j]
  /\ \A i \in 1..Len(chain) : chain[i] = log[at[i]]
  /\ \A j \in 1..Len(log) : log[j].key \in K <=> \E i \in 1..Len(chain) : at[i] = j
Part(chain, log, K) == \E at : IsPart(chain, log, K, at)

KeysOf(b) == {k \in Keys : Bucket(k) = b}
HashInv ==
  /\ added \in Seq(Entries)
  /\ htable # HNull =>
       /\ htable \in Seq(Seq(Entries)) /\ Len(htable) # 0
       /\ \A b \in 1..Len(htable) : Part(htable[b], added, KeysOf(b))

-----------------------------------------------------------------------------
(* The hash function and the size of the table.                            *)

CarryBack(f) == f = [a \in Nat |-> IF a > OctetSize - 1 THEN f[(a % OctetSize) + (a \div OctetSize)] ELSE a]

\* A number with its carry brought back in is smaller.
LEMMA CarryIsLess ==
  ASSUME NEW a \in Nat, a > OctetSize - 1
  PROVE  (a % OctetSize) + (a \div OctetSize) \in 0..(a - 1)
<1> DEFINE q == a \div OctetSize
           r == a % OctetSize
<1>1. q \in Nat /\ r \in 0..(OctetSize - 1) /\ a = OctetSize * q + r
  BY OctetsAssumption
<1> HIDE DEF q, r
<1>2. q # 0
  BY <1>1, OctetsAssumption
<1>3. OctetSize * q >= 2 * q
  BY <1>1, OctetsAssumption
<1>4. OctetSize * q \in Nat
  BY <1>1, OctetsAssumption
<1>5. r + q \in 0..(a - 1)
  BY <1>1, <1>2, <1>3, <1>4, OctetsAssumption
<1> QED
  BY <1>5 DEF q, r

\* So bringing it back in ends, with a number.
LEMMA CarryEnds ==
  /\ \E f : CarryBack(f)
  /\ \A f : CarryBack(f) => \A a \in Nat : f[a] \in Nat
<1>1. \E f : CarryBack(f)
  <2> DEFINE Base == {a \in Nat : ~(a > OctetSize - 1)}
             down == [a \in Nat |-> (a % OctetSize) + (a \div OctetSize)]
             start == [a \in Nat |-> a]
             step == [a \in Nat |-> [x \in Nat |-> x]]
  <2>1. \A a \in Nat : a \notin Base => down[a] \in Nat /\ down[a] < a
    BY CarryIsLess
  <2>2. Descends(Base, down)
    <3> HIDE DEF Base, down
    <3> QED
      BY <2>1 DEF Descends
  <2>3. (\A a \in Base : start[a] \in Nat) /\ (\A a, x \in Nat : step[a][x] \in Nat)
    OBVIOUS
  <2>4. PICK f \in [Nat -> Nat] : Recurs(f, Nat, Base, start, down, step)
    <3> HIDE DEF Base, down, start, step
    <3> QED
      BY <2>2, <2>3, DescendingRecursion
  <2>5. ASSUME NEW a \in Nat
        PROVE  f[a] = IF a > OctetSize - 1 THEN f[(a % OctetSize) + (a \div OctetSize)] ELSE a
    <3>1. f[a] = IF a \in Base THEN start[a] ELSE step[a][f[down[a]]]
      BY <2>4 DEF Recurs
    <3>2. a \notin Base => f[a] = f[down[a]]
      <4> HIDE DEF Base, down
      <4> QED
        BY <2>1, <3>1
    <3>3. a \in Base => f[a] = a
      BY <3>1
    <3> QED
      BY <3>2, <3>3
  <2>6. f = [a \in Nat |-> f[a]]
    BY <2>4
  <2> QED
    BY <2>5, <2>6 DEF CarryBack
<1>2. ASSUME NEW f, CarryBack(f)
      PROVE  \A a \in Nat : f[a] \in Nat
  <2> DEFINE S == {a \in Nat : f[a] \notin Nat}
  <2> SUFFICES ASSUME S # {} PROVE FALSE
    OBVIOUS
  <2>1. PICK a \in S : \A b \in S : a <= b
    <3>1. S \subseteq Nat
      OBVIOUS
    <3> HIDE DEF S
    <3> QED
      BY <3>1, LeastNumber
  <2>2. f[a] = IF a > OctetSize - 1 THEN f[(a % OctetSize) + (a \div OctetSize)] ELSE a
    BY <1>2 DEF CarryBack
  <2> DEFINE b == (a % OctetSize) + (a \div OctetSize)
  <2>3. a > OctetSize - 1 => b \in Nat /\ b < a
    BY CarryIsLess
  <2> HIDE DEF b
  <2>4. a > OctetSize - 1 => b \notin S
    BY <2>1, <2>3
  <2> QED
    BY <2>2, <2>3, <2>4 DEF b
<1> QED
  BY <1>1, <1>2

\* Every key has a hash value.
LEMMA HashIsNumber ==
  ASSUME NEW key \in Keys, NEW size \in Nat \ {0}
  PROVE  hash(key, size) \in Nat
<1>1. Len(key) \in Nat /\ \A i \in 1..Len(key) : key[i] \in Nat
  BY OctetsAssumption, LenProperties, ElementOfSeq DEF Keys
<1> DEFINE carry == CHOOSE f : CarryBack(f)
           Added(h) == h = [i \in 0..Len(key) |-> IF i = 0 THEN 0 ELSE carry[h[i - 1] + key[i]]]
           accum == CHOOSE h : Added(h)
<1>2. hash(key, size) = accum[Len(key)] % size
  BY DEF hash, CarryBack
<1>3. \A a \in Nat : carry[a] \in Nat
  BY CarryEnds
<1> HIDE DEF carry
<1>4. \E h : Added(h)
  <2> DEFINE F == [n \in 1..Len(key) |-> [x \in Nat |-> carry[x + key[n]]]]
  <2>1. F \in Loops(Len(key), Nat) /\ 0 \in Nat
    BY <1>1, <1>3 DEF Loops
  <2>2. PICK g : IsTrace(g, Len(key), Nat, 0, F)
    <3> HIDE DEF F
    <3> QED
      BY <1>1, <2>1, RecursionExists
  <2>3. ASSUME NEW n \in 1..Len(key)
        PROVE  g[n] = carry[g[n - 1] + key[n]]
    <3>1. n - 1 \in 0..Len(key)
      BY <1>1
    <3>2. g[n - 1] \in Nat /\ g[n] = F[n][g[n - 1]]
      <4> HIDE DEF F
      <4> QED
        BY <2>2, <3>1 DEF IsTrace
    <3> QED
      BY <3>2
  <2>4. g = [i \in 0..Len(key) |-> g[i]] /\ g[0] = 0
    BY <2>2 DEF IsTrace
  <2>5. \A i \in 0..Len(key) : i # 0 => i \in 1..Len(key)
    BY <1>1
  <2>6. \A i \in 0..Len(key) : g[i] = IF i = 0 THEN 0 ELSE carry[g[i - 1] + key[i]]
    BY <2>3, <2>4, <2>5
  <2>7. Added(g)
    BY <2>4, <2>6
  <2> QED
    BY <2>7
<1>5. Added(accum)
  BY <1>4
<1> HIDE DEF accum
<1>6. accum[0] = 0 /\ \A n \in 1..Len(key) : accum[n] = carry[accum[n - 1] + key[n]]
  BY <1>1, <1>5
<1> DEFINE T == {n \in 0..Len(key) : accum[n] \in Nat}
<1>7. 0..Len(key) \subseteq T
  <2>1. ASSUME NEW n \in 1..Len(key), accum[n - 1] \in Nat
        PROVE  accum[n] \in Nat
    <3>1. accum[n - 1] + key[n] \in Nat
      BY <1>1, <2>1
    <3> QED
      BY <1>3, <1>6, <3>1
  <2>2. 0 \in T
    BY <1>1, <1>6
  <2>3. \A n \in 1..Len(key) : n - 1 \in T => n \in T
    BY <1>1, <2>1
  <2> HIDE DEF T
  <2> QED
    BY <1>1, <2>2, <2>3, IntervalInduction
<1>8. accum[Len(key)] \in Nat
  BY <1>1, <1>7
<1> QED
  BY <1>2, <1>8

Halved(f) == f = [n \in Nat |-> IF n = 0 THEN 0 ELSE 1 + f[n \div 2]]
Doubled(f) == f = [p \in Nat |-> IF p = 0 THEN 1 ELSE 2 * f[p - 1]]

\* The bits of a number can be counted.
LEMMA BitsEnd ==
  /\ \E f : Halved(f)
  /\ \A f : Halved(f) => \A n \in Nat : f[n] \in Nat
<1>0. \A n \in Nat : n # 0 => n \div 2 \in Nat /\ n \div 2 < n
  OBVIOUS
<1>1. \E f : Halved(f)
  <2> DEFINE down == [n \in Nat |-> n \div 2]
             start == [n \in Nat |-> 0]
             step == [n \in Nat |-> [x \in Nat |-> 1 + x]]
  <2>1. Descends({0}, down)
    BY <1>0 DEF Descends
  <2>2. (\A a \in {0} : start[a] \in Nat) /\ (\A a, x \in Nat : step[a][x] \in Nat)
    OBVIOUS
  <2>3. PICK f \in [Nat -> Nat] : Recurs(f, Nat, {0}, start, down, step)
    <3> HIDE DEF down, start, step
    <3> QED
      BY <2>1, <2>2, DescendingRecursion
  <2>4. ASSUME NEW n \in Nat
        PROVE  f[n] = IF n = 0 THEN 0 ELSE 1 + f[n \div 2]
    <3>1. f[n] = IF n = 0 THEN start[n] ELSE step[n][f[down[n]]]
      BY <2>3 DEF Recurs
    <3>2. f[n \div 2] \in Nat
      OBVIOUS
    <3> QED
      BY <3>1, <3>2
  <2>5. f = [n \in Nat |-> f[n]]
    BY <2>3
  <2> QED
    BY <2>4, <2>5 DEF Halved
<1>2. ASSUME NEW f, Halved(f)
      PROVE  \A n \in Nat : f[n] \in Nat
  <2> DEFINE S == {n \in Nat : f[n] \notin Nat}
  <2> SUFFICES ASSUME S # {} PROVE FALSE
    OBVIOUS
  <2>1. PICK a \in S : \A b \in S : a <= b
    <3>1. S \subseteq Nat
      OBVIOUS
    <3> HIDE DEF S
    <3> QED
      BY <3>1, LeastNumber
  <2>2. f[a] = IF a = 0 THEN 0 ELSE 1 + f[a \div 2]
    BY <1>2 DEF Halved
  <2>3. a # 0 => a \div 2 \notin S
    BY <1>0, <2>1
  <2> QED
    BY <1>0, <2>2, <2>3
<1> QED
  BY <1>1, <1>2

\* One can be shifted by any number of bits.
LEMMA ShiftsEnd ==
  /\ \E f : Doubled(f)
  /\ \A f : Doubled(f) => \A p \in Nat : f[p] \in Nat \ {0}
<1>1. \E f : Doubled(f)
  <2> DEFINE down == [n \in Nat |-> n - 1]
             start == [n \in Nat |-> 1]
             step == [n \in Nat |-> [x \in Nat |-> 2 * x]]
  <2>1. Descends({0}, down)
    BY DEF Descends
  <2>2. (\A a \in {0} : start[a] \in Nat) /\ (\A a, x \in Nat : step[a][x] \in Nat)
    OBVIOUS
  <2>3. PICK f \in [Nat -> Nat] : Recurs(f, Nat, {0}, start, down, step)
    <3> HIDE DEF down, start, step
    <3> QED
      BY <2>1, <2>2, DescendingRecursion
  <2>4. ASSUME NEW n \in Nat
        PROVE  f[n] = IF n = 0 THEN 1 ELSE 2 * f[n - 1]
    <3>1. f[n] = IF n = 0 THEN start[n] ELSE step[n][f[down[n]]]
      BY <2>3 DEF Recurs
    <3>2. n # 0 => f[n - 1] \in Nat
      OBVIOUS
    <3> QED
      BY <3>1, <3>2
  <2>5. f = [n \in Nat |-> f[n]]
    BY <2>3
  <2> QED
    BY <2>4, <2>5 DEF Doubled
<1>2. ASSUME NEW f, Doubled(f)
      PROVE  \A p \in Nat : f[p] \in Nat \ {0}
  <2> DEFINE S == {p \in Nat : f[p] \in Nat \ {0}}
  <2>1. 0 \in S /\ \A p \in Nat : p \in S => p + 1 \in S
    <3>1. f[0] = 1 /\ \A p \in Nat : f[p + 1] = 2 * f[p]
      BY <1>2 DEF Doubled
    <3> QED
      BY <3>1
  <2> HIDE DEF S
  <2>2. Nat \subseteq S
    BY <2>1, NatSetInduction
  <2> QED
    BY <2>2 DEF S
<1> QED
  BY <1>1, <1>2

\* A table has at least one chain.
LEMMA TableHasSize ==
  ASSUME NEW nel \in Sizes
  PROVE  TableSize(nel) \in Nat \ {0}
<1> DEFINE capped == IF nel < MIN_BUCKETS THEN MIN_BUCKETS
                     ELSE IF nel > MAX_BUCKETS THEN MAX_BUCKETS ELSE nel
           bits == CHOOSE f : Halved(f)
           shifted == CHOOSE f : Doubled(f)
<1>1. TableSize(nel) = IF \E p \in 0..bits[capped] : capped = shifted[p] THEN capped ELSE shifted[bits[capped]]
  BY DEF TableSize, Halved, Doubled
<1>2. capped \in Nat \ {0}
  BY SizesAssumption
<1>3. (\A n \in Nat : bits[n] \in Nat) /\ \A p \in Nat : shifted[p] \in Nat \ {0}
  BY BitsEnd, ShiftsEnd
<1> HIDE DEF capped, bits, shifted
<1>4. bits[capped] \in Nat
  BY <1>2, <1>3
<1>5. shifted[bits[capped]] \in Nat \ {0}
  BY <1>3, <1>4
<1> QED
  BY <1>1, <1>2, <1>5

\* A key is the octets up to its length or its first zero.
LEMMA KeyIsKey ==
  ASSUME NEW buf \in KeyBuffers, NEW len \in Lengths(buf)
  PROVE  KeyOf(buf, len) \in Keys
<1>1. buf \in Keys /\ Len(buf) \in Nat \ {0} /\ buf[Len(buf)] = 0
  BY KeysAssumption, EmptySeq DEF Keys
<1> DEFINE Zeroes == {i \in 1..Len(buf) : buf[i] = 0}
           Ends(i) == buf[i] = 0 /\ \A j \in 1..(i - 1) : buf[j] # 0
<1>2. strlen(buf) \in 0..Len(buf)
  <2>1. Zeroes \subseteq Nat /\ Zeroes # {}
    BY <1>1
  <2>2. PICK m \in Zeroes : \A k \in Zeroes : m <= k
    <3> HIDE DEF Zeroes
    <3> QED
      BY <2>1, LeastNumber
  <2>3. m \in 1..Len(buf) /\ Ends(m)
    BY <1>1, <2>2
  <2> HIDE DEF Ends
  <2>4. (CHOOSE i \in 1..Len(buf) : Ends(i)) \in 1..Len(buf)
    BY <2>3
  <2> QED
    BY <1>1, <2>4 DEF strlen, Ends
<1> DEFINE n == IF len = 0 THEN strlen(buf) ELSE len
<1>3. n \in 0..Len(buf)
  BY <1>2 DEF Lengths
<1>4. ASSUME NEW i \in 1..n
      PROVE  buf[i] \in 0..(OctetSize - 1)
  <2>1. i \in 1..Len(buf)
    BY <1>1, <1>3
  <2> QED
    BY <1>1, <2>1, ElementOfSeq DEF Keys
<1>5. KeyOf(buf, len) = SubSeq(buf, 1, n)
  BY DEF KeyOf
<1> HIDE DEF n
<1>6. n \in Int /\ 1 \in Int
  BY <1>1, <1>3
<1> QED
  BY <1>4, <1>5, <1>6, SubSeqProperties DEF Keys

\* The chain of a key is one of the table's.
LEMMA BucketIsOne ==
  ASSUME Len(htable) \in Nat \ {0}, NEW key \in Keys
  PROVE  Bucket(key) \in 1..Len(htable)
<1> DEFINE h == hash(key, Len(htable))
<1>1. h \in Nat
  BY HashIsNumber
<1>2. Bucket(key) = (h % Len(htable)) + 1
  BY DEF Bucket, Buckets
<1> HIDE DEF h
<1> QED
  BY <1>1, <1>2

-----------------------------------------------------------------------------
(* Chains and the log of what was added.                                   *)

\* r is q without its p-th element.
Without(q, p, r) ==
  /\ p \in 1..Len(q) /\ Len(q) = Len(r) + 1
  /\ \A i \in 1..Len(r) : r[i] = IF i < p THEN q[i] ELSE q[i + 1]

\* RemoveAt, as an entry is unlinked.
LEMMA RemoveAtIs ==
  ASSUME NEW S, NEW q \in Seq(S), NEW p \in 1..Len(q)
  PROVE  RemoveAt(q, p) \in Seq(S) /\ Without(q, p, RemoveAt(q, p))
<1> DEFINE a == SubSeq(q, 1, p - 1)
           b == SubSeq(q, p + 1, Len(q))
<1>0. Len(q) \in Nat /\ p \in Nat
  BY LenProperties
<1>1. /\ a \in Seq(S) /\ Len(a) = p - 1 /\ \A i \in 1..p - 1 : a[i] = q[i]
  <2>1. \A i \in 1..p - 1 : q[i] \in S
    BY <1>0
  <2>2. /\ a \in Seq(S) /\ Len(a) = IF 1 <= p - 1 THEN p - 1 - 1 + 1 ELSE 0
        /\ \A i \in 1..p - 1 - 1 + 1 : a[i] = q[1 + i - 1]
    BY <1>0, <2>1, SubSeqProperties
  <2> HIDE DEF a
  <2> QED
    BY <1>0, <2>2
<1>2. /\ b \in Seq(S) /\ Len(b) = Len(q) - p
      /\ \A i \in 1..Len(q) - p : b[i] = q[p + i]
  <2>1. \A i \in p + 1..Len(q) : q[i] \in S
    BY <1>0
  <2>2. /\ b \in Seq(S)
        /\ Len(b) = IF p + 1 <= Len(q) THEN Len(q) - (p + 1) + 1 ELSE 0
        /\ \A i \in 1..Len(q) - (p + 1) + 1 : b[i] = q[p + 1 + i - 1]
    BY <1>0, <2>1, SubSeqProperties
  <2> HIDE DEF b
  <2> QED
    BY <1>0, <2>2
<1>3. RemoveAt(q, p) = a \o b
  BY DEF RemoveAt
<1> HIDE DEF a, b
<1>4. /\ a \o b \in Seq(S) /\ Len(a \o b) = Len(a) + Len(b)
      /\ \A i \in 1..Len(a) + Len(b) : (a \o b)[i] = IF i <= Len(a) THEN a[i] ELSE b[i - Len(a)]
  BY <1>1, <1>2, ConcatProperties
<1> DEFINE r == a \o b
<1>5. r \in Seq(S) /\ Len(q) = Len(r) + 1
  BY <1>0, <1>1, <1>2, <1>4
<1>6. ASSUME NEW i \in 1..Len(r)
      PROVE  r[i] = IF i < p THEN q[i] ELSE q[i + 1]
  <2>1. i \in 1..Len(a) + Len(b)
    BY <1>4
  <2>2. CASE i < p
    BY <1>0, <1>1, <1>4, <2>1, <2>2
  <2>3. CASE ~(i < p)
    <3>1. i - (p - 1) \in 1..Len(q) - p /\ p + (i - (p - 1)) = i + 1
      BY <1>0, <1>1, <1>2, <2>1, <2>3
    <3>2. r[i] = b[i - (p - 1)]
      BY <1>0, <1>1, <1>4, <2>1, <2>3
    <3> QED
      BY <1>2, <2>3, <3>1, <3>2
  <2> QED
    BY <2>2, <2>3
<1> QED
  BY <1>3, <1>5, <1>6 DEF Without

\* An empty log has empty chains.
LEMMA NothingAdded ==
  ASSUME NEW K
  PROVE  Part(<<>>, <<>>, K)
<1> DEFINE at == [i \in 1..0 |-> i]
<1>1. at \in [1..0 -> 1..0] /\ Len(<<>>) = 0
  BY EmptySeq
<1>2. IsPart(<<>>, <<>>, K, at)
  BY <1>1 DEF IsPart
<1> QED
  BY <1>2 DEF Part

\* An entry in front of a sequence.
LEMMA InFront ==
  ASSUME NEW s \in Seq(Entries), NEW x \in Entries
  PROVE  LET t == <<x>> \o s
         IN  /\ t \in Seq(Entries) /\ Len(t) = Len(s) + 1 /\ t[1] = x
             /\ \A i \in 1..Len(s) : t[i + 1] = s[i]
<1> DEFINE t == <<x>> \o s
<1>1. <<x>> \in Seq(Entries) /\ Len(<<x>>) = 1 /\ <<x>>[1] = x /\ Len(s) \in Nat
  BY LenProperties
<1>2. /\ t \in Seq(Entries) /\ Len(t) = 1 + Len(s)
      /\ \A i \in 1..1 + Len(s) : t[i] = IF i <= 1 THEN <<x>>[i] ELSE s[i - 1]
  BY <1>1, ConcatProperties
<1> HIDE DEF t
<1>3. t[1] = x
  BY <1>1, <1>2
<1>4. ASSUME NEW i \in 1..Len(s)
      PROVE  t[i + 1] = s[i]
  <2>1. i + 1 \in 1..1 + Len(s) /\ ~(i + 1 <= 1) /\ (i + 1) - 1 = i
    BY <1>1
  <2> QED
    BY <1>2, <2>1
<1>5. Len(t) = Len(s) + 1
  BY <1>1, <1>2
<1> QED
  BY <1>2, <1>3, <1>4, <1>5 DEF t

\* What is added goes to the front of its chain.
LEMMA AddedHere ==
  ASSUME NEW c \in Seq(Entries), NEW l \in Seq(Entries), NEW K, NEW x \in Entries,
         x.key \in K, Part(c, l, K)
  PROVE  Part(<<x>> \o c, <<x>> \o l, K)
<1>1. PICK at : IsPart(c, l, K, at)
  BY DEF Part
<1> DEFINE d == <<x>> \o c
           m == <<x>> \o l
           up == [i \in 1..Len(d) |-> IF i = 1 THEN 1 ELSE at[i - 1] + 1]
<1>2. Len(c) \in Nat /\ Len(l) \in Nat
  BY LenProperties
<1>3. /\ Len(d) = Len(c) + 1 /\ d[1] = x /\ \A i \in 1..Len(c) : d[i + 1] = c[i]
      /\ Len(m) = Len(l) + 1 /\ m[1] = x /\ \A i \in 1..Len(l) : m[i + 1] = l[i]
  BY InFront
<1> HIDE DEF d, m
<1>4. \A i \in 1..Len(c) : at[i] \in 1..Len(l)
  BY <1>1 DEF IsPart
<1>5. up[1] = 1 /\ \A i \in 1..Len(c) : up[i + 1] = at[i] + 1
  BY <1>2, <1>3
<1>6. \A i \in 1..Len(d) : i = 1 \/ (i - 1 \in 1..Len(c) /\ i = (i - 1) + 1)
  BY <1>2, <1>3
<1>7. up \in [1..Len(d) -> 1..Len(m)]
  <2>1. ASSUME NEW i \in 1..Len(d)
        PROVE  (IF i = 1 THEN 1 ELSE at[i - 1] + 1) \in 1..Len(m)
    <3>1. CASE i = 1
      BY <1>2, <1>3, <3>1
    <3>2. CASE i # 1
      <4>1. at[i - 1] \in 1..Len(l)
        BY <1>4, <1>6, <3>2
      <4> QED
        BY <1>2, <1>3, <3>2, <4>1
    <3> QED
      BY <3>1, <3>2
  <2> QED
    BY <2>1
<1> HIDE DEF up
<1>8. ASSUME NEW i \in 1..Len(d), NEW j \in 1..Len(d), i < j
      PROVE  up[i] < up[j]
  <2>1. j - 1 \in 1..Len(c) /\ up[j] = at[j - 1] + 1 /\ at[j - 1] \in 1..Len(l)
    BY <1>2, <1>4, <1>5, <1>6, <1>8
  <2>2. CASE i = 1
    BY <1>2, <1>5, <2>1, <2>2
  <2>3. CASE i # 1
    <3>1. i - 1 \in 1..Len(c) /\ up[i] = at[i - 1] + 1 /\ at[i - 1] \in 1..Len(l) /\ i - 1 < j - 1
      BY <1>2, <1>4, <1>5, <1>6, <1>8, <2>3
    <3>2. at[i - 1] < at[j - 1]
      BY <1>1, <2>1, <3>1 DEF IsPart
    <3> QED
      BY <1>2, <2>1, <3>1, <3>2
  <2> QED
    BY <2>2, <2>3
<1>9. ASSUME NEW i \in 1..Len(d)
      PROVE  d[i] = m[up[i]]
  <2>1. CASE i = 1
    BY <1>3, <1>5, <2>1
  <2>2. CASE i # 1
    <3>1. i - 1 \in 1..Len(c) /\ up[i] = at[i - 1] + 1 /\ at[i - 1] \in 1..Len(l) /\ d[i] = c[i - 1]
      BY <1>3, <1>4, <1>5, <1>6, <2>2
    <3>2. c[i - 1] = l[at[i - 1]] /\ m[at[i - 1] + 1] = l[at[i - 1]]
      BY <1>1, <1>3, <3>1 DEF IsPart
    <3> QED
      BY <3>1, <3>2
  <2> QED
    BY <2>1, <2>2
<1>10. ASSUME NEW j \in 1..Len(m)
       PROVE  m[j].key \in K <=> \E i \in 1..Len(d) : up[i] = j
  <2>1. CASE j = 1
    <3>1. 1 \in 1..Len(d) /\ up[1] = j
      BY <1>2, <1>3, <1>5, <2>1
    <3> QED
      BY <1>3, <2>1, <3>1
  <2>2. CASE j # 1
    <3>1. j - 1 \in 1..Len(l) /\ m[j] = l[j - 1]
      BY <1>2, <1>3, <2>2
    <3>2. l[j - 1].key \in K <=> \E i \in 1..Len(c) : at[i] = j - 1
      BY <1>1, <3>1 DEF IsPart
    <3>3. ASSUME NEW i \in 1..Len(c), at[i] = j - 1
          PROVE  \E k \in 1..Len(d) : up[k] = j
      <4>1. i + 1 \in 1..Len(d) /\ up[i + 1] = j
        BY <1>2, <1>3, <1>5, <3>3
      <4> QED
        BY <4>1
    <3>4. ASSUME NEW i \in 1..Len(d), up[i] = j
          PROVE  \E k \in 1..Len(c) : at[k] = j - 1
      <4>1. i - 1 \in 1..Len(c) /\ up[i] = at[i - 1] + 1 /\ at[i - 1] \in 1..Len(l)
        BY <1>4, <1>5, <1>6, <2>2, <3>4
      <4>2. at[i - 1] = j - 1
        BY <1>2, <3>4, <4>1
      <4> QED
        BY <4>1, <4>2
    <3> QED
      BY <3>1, <3>2, <3>3, <3>4
  <2> QED
    BY <2>1, <2>2
<1>11. IsPart(d, m, K, up)
  BY <1>7, <1>8, <1>9, <1>10 DEF IsPart
<1> QED
  BY <1>11 DEF Part, d, m

\* The other chains are as they were, one place further in the log.
LEMMA AddedElsewhere ==
  ASSUME NEW c \in Seq(Entries), NEW l \in Seq(Entries), NEW K, NEW x \in Entries,
         x.key \notin K, Part(c, l, K)
  PROVE  Part(c, <<x>> \o l, K)
<1>1. PICK at : IsPart(c, l, K, at)
  BY DEF Part
<1> DEFINE m == <<x>> \o l
           up == [i \in 1..Len(c) |-> at[i] + 1]
<1>2. Len(c) \in Nat /\ Len(l) \in Nat
  BY LenProperties
<1>3. Len(m) = Len(l) + 1 /\ m[1] = x /\ \A i \in 1..Len(l) : m[i + 1] = l[i]
  BY InFront
<1> HIDE DEF m
<1>4. \A i \in 1..Len(c) : at[i] \in 1..Len(l)
  BY <1>1 DEF IsPart
<1>5. \A i \in 1..Len(c) : up[i] = at[i] + 1
  OBVIOUS
<1>6. up \in [1..Len(c) -> 1..Len(m)]
  BY <1>2, <1>3, <1>4
<1> HIDE DEF up
<1>7. ASSUME NEW i \in 1..Len(c), NEW j \in 1..Len(c), i < j
      PROVE  up[i] < up[j]
  <2>1. at[i] < at[j]
    BY <1>1, <1>7 DEF IsPart
  <2> QED
    BY <1>2, <1>4, <1>5, <2>1
<1>8. ASSUME NEW i \in 1..Len(c)
      PROVE  c[i] = m[up[i]]
  <2>1. c[i] = l[at[i]] /\ m[at[i] + 1] = l[at[i]]
    BY <1>1, <1>3, <1>4 DEF IsPart
  <2> QED
    BY <1>5, <2>1
<1>9. ASSUME NEW j \in 1..Len(m)
      PROVE  m[j].key \in K <=> \E i \in 1..Len(c) : up[i] = j
  <2>1. CASE j = 1
    <3>1. \A i \in 1..Len(c) : up[i] # 1
      BY <1>2, <1>4, <1>5
    <3> QED
      BY <1>3, <2>1, <3>1
  <2>2. CASE j # 1
    <3>1. j - 1 \in 1..Len(l) /\ m[j] = l[j - 1]
      BY <1>2, <1>3, <2>2
    <3>2. l[j - 1].key \in K <=> \E i \in 1..Len(c) : at[i] = j - 1
      BY <1>1, <3>1 DEF IsPart
    <3>3. \A i \in 1..Len(c) : at[i] = j - 1 <=> up[i] = j
      BY <1>2, <1>4, <1>5
    <3> QED
      BY <3>1, <3>2, <3>3
  <2> QED
    BY <2>1, <2>2
<1>10. IsPart(c, m, K, up)
  BY <1>6, <1>7, <1>8, <1>9 DEF IsPart
<1> QED
  BY <1>10 DEF Part, m

\* An entry that leaves the log leaves the other chains as they were.
LEMMA RemovedElsewhere ==
  ASSUME NEW c \in Seq(Entries), NEW l \in Seq(Entries), NEW K, NEW p \in 1..Len(l),
         l[p].key \notin K, Part(c, l, K)
  PROVE  Part(c, RemoveAt(l, p), K)
<1>1. PICK at : IsPart(c, l, K, at)
  BY DEF Part
<1> DEFINE m == RemoveAt(l, p)
           down == [i \in 1..Len(c) |-> IF at[i] < p THEN at[i] ELSE at[i] - 1]
<1>2. Len(c) \in Nat /\ Len(l) \in Nat
  BY LenProperties
<1>3. /\ m \in Seq(Entries) /\ Len(l) = Len(m) + 1
      /\ \A i \in 1..Len(m) : m[i] = IF i < p THEN l[i] ELSE l[i + 1]
  BY RemoveAtIs DEF Without
<1>4. Len(m) \in Nat
  <2> HIDE DEF m
  <2> QED
    BY <1>3, LenProperties
<1> HIDE DEF m
<1>5. ASSUME NEW i \in 1..Len(c)
      PROVE  at[i] \in 1..Len(l) /\ at[i] # p /\ c[i] = l[at[i]]
  <2>1. at[i] \in 1..Len(l) /\ c[i] = l[at[i]] /\ l[at[i]].key \in K
    BY <1>1 DEF IsPart
  <2> QED
    BY <2>1
<1>6. ASSUME NEW i \in 1..Len(c)
      PROVE  down[i] \in 1..Len(m) /\ m[down[i]] = l[at[i]]
  <2>1. down[i] = IF at[i] < p THEN at[i] ELSE at[i] - 1
    OBVIOUS
  <2> HIDE DEF down
  <2>2. CASE at[i] < p
    <3>1. down[i] \in 1..Len(m) /\ down[i] < p /\ down[i] = at[i]
      BY <1>2, <1>3, <1>4, <1>5, <2>1, <2>2
    <3> QED
      BY <1>3, <3>1
  <2>3. CASE ~(at[i] < p)
    <3>1. down[i] \in 1..Len(m) /\ ~(down[i] < p) /\ down[i] + 1 = at[i]
      BY <1>2, <1>3, <1>4, <1>5, <2>1, <2>3
    <3> QED
      BY <1>3, <3>1
  <2> QED
    BY <2>2, <2>3
<1>7. down \in [1..Len(c) -> 1..Len(m)]
  BY <1>6
<1>8. \A i \in 1..Len(c) : down[i] = IF at[i] < p THEN at[i] ELSE at[i] - 1
  OBVIOUS
<1> HIDE DEF down
<1>9. ASSUME NEW i \in 1..Len(c), NEW j \in 1..Len(c), i < j
      PROVE  down[i] < down[j]
  <2>1. at[i] < at[j]
    BY <1>1, <1>9 DEF IsPart
  <2> QED
    BY <1>2, <1>5, <1>8, <2>1
<1>10. ASSUME NEW j \in 1..Len(m)
       PROVE  m[j].key \in K <=> \E i \in 1..Len(c) : down[i] = j
  <2> DEFINE k == IF j < p THEN j ELSE j + 1
  <2>1. k \in 1..Len(l) /\ k # p /\ m[j] = l[k]
    BY <1>2, <1>3, <1>4
  <2>2. l[k].key \in K <=> \E i \in 1..Len(c) : at[i] = k
    <3> HIDE DEF k
    <3> QED
      BY <1>1, <2>1 DEF IsPart
  <2>3. ASSUME NEW i \in 1..Len(c)
        PROVE  at[i] = k <=> down[i] = j
    <3>1. at[i] \in Nat /\ p \in Nat /\ j \in Nat /\ at[i] # p
      BY <1>2, <1>4, <1>5
    <3>2. down[i] = IF at[i] < p THEN at[i] ELSE at[i] - 1
      BY <1>8
    <3> QED
      BY <3>1, <3>2
  <2> HIDE DEF k
  <2> QED
    BY <2>1, <2>2, <2>3
<1>11. IsPart(c, m, K, down)
  BY <1>5, <1>6, <1>7, <1>9, <1>10 DEF IsPart
<1> QED
  BY <1>11 DEF Part, m

\* An entry that leaves its chain and the log leaves the rest of the chain.
LEMMA RemovedHere ==
  ASSUME NEW c \in Seq(Entries), NEW l \in Seq(Entries), NEW K, NEW at, IsPart(c, l, K, at),
         NEW o \in 1..Len(c)
  PROVE  Part(RemoveAt(c, o), RemoveAt(l, at[o]), K)
<1> DEFINE p == at[o]
           d == RemoveAt(c, o)
           m == RemoveAt(l, p)
           down == [i \in 1..Len(d) |-> IF i < o THEN at[i] ELSE at[i + 1] - 1]
<1>1. Len(c) \in Nat /\ Len(l) \in Nat /\ p \in 1..Len(l)
  BY LenProperties DEF IsPart
<1> HIDE DEF p
<1>2. /\ d \in Seq(Entries) /\ Len(c) = Len(d) + 1
      /\ \A i \in 1..Len(d) : d[i] = IF i < o THEN c[i] ELSE c[i + 1]
      /\ m \in Seq(Entries) /\ Len(l) = Len(m) + 1
      /\ \A i \in 1..Len(m) : m[i] = IF i < p THEN l[i] ELSE l[i + 1]
  BY <1>1, RemoveAtIs DEF Without
<1>3. Len(d) \in Nat /\ Len(m) \in Nat
  <2> HIDE DEF d, m
  <2> QED
    BY <1>2, LenProperties
<1> HIDE DEF d, m
<1>4. ASSUME NEW i \in 1..Len(c)
      PROVE  /\ at[i] \in 1..Len(l) /\ c[i] = l[at[i]]
             /\ i < o => at[i] < p
             /\ o < i => p < at[i]
  BY DEF IsPart, p
<1>5. ASSUME NEW i \in 1..Len(d)
      PROVE  down[i] \in 1..Len(m) /\ d[i] = m[down[i]]
  <2>1. down[i] = IF i < o THEN at[i] ELSE at[i + 1] - 1
    OBVIOUS
  <2> HIDE DEF down
  <2>2. CASE i < o
    <3>1. i \in 1..Len(c) /\ d[i] = c[i] /\ down[i] = at[i] /\ at[i] < p
      BY <1>1, <1>2, <1>3, <1>4, <2>1, <2>2
    <3>2. at[i] \in 1..Len(l) /\ c[i] = l[at[i]]
      BY <1>4, <3>1
    <3>3. at[i] \in 1..Len(m)
      BY <1>1, <1>2, <1>3, <3>1, <3>2
    <3> QED
      BY <1>2, <3>1, <3>2, <3>3
  <2>3. CASE ~(i < o)
    <3>1. i + 1 \in 1..Len(c) /\ d[i] = c[i + 1] /\ down[i] = at[i + 1] - 1 /\ o < i + 1
      BY <1>1, <1>2, <1>3, <2>1, <2>3
    <3>2. at[i + 1] \in 1..Len(l) /\ c[i + 1] = l[at[i + 1]] /\ p < at[i + 1]
      BY <1>4, <3>1
    <3>3. down[i] \in 1..Len(m) /\ ~(down[i] < p) /\ down[i] + 1 = at[i + 1]
      BY <1>1, <1>2, <1>3, <3>1, <3>2
    <3> QED
      BY <1>2, <3>1, <3>2, <3>3
  <2> QED
    BY <2>2, <2>3
<1>6. down \in [1..Len(d) -> 1..Len(m)]
  BY <1>5
<1>7. \A i \in 1..Len(d) : down[i] = IF i < o THEN at[i] ELSE at[i + 1] - 1
  OBVIOUS
<1> HIDE DEF down
<1>8. ASSUME NEW i \in 1..Len(d), NEW j \in 1..Len(d), i < j
      PROVE  down[i] < down[j]
  <2> DEFINE a == IF i < o THEN i ELSE i + 1
             b == IF j < o THEN j ELSE j + 1
  <2>1. a \in 1..Len(c) /\ b \in 1..Len(c) /\ a < b
    BY <1>1, <1>2, <1>3, <1>8
  <2>2. at[a] < at[b]
    <3> HIDE DEF a, b
    <3> QED
      BY <2>1 DEF IsPart
  <2>3. down[i] = (IF i < o THEN at[a] ELSE at[a] - 1) /\ down[j] = (IF j < o THEN at[b] ELSE at[b] - 1)
    BY <1>7
  <2>4. at[a] \in Nat /\ at[b] \in Nat /\ (i < o => at[a] < p) /\ (~(j < o) => p < at[b]) /\ p \in Nat
    <3>1. (i < o => a < o) /\ (~(j < o) => o < b)
      BY <1>1
    <3> HIDE DEF a, b
    <3> QED
      BY <1>1, <1>4, <2>1, <3>1
  <2>5. (j < o) => (i < o)
    BY <1>8, <1>1, <1>3
  <2> HIDE DEF a, b
  <2> QED
    BY <2>2, <2>3, <2>4, <2>5
<1>9. ASSUME NEW j \in 1..Len(m)
      PROVE  m[j].key \in K <=> \E i \in 1..Len(d) : down[i] = j
  <2> DEFINE k == IF j < p THEN j ELSE j + 1
  <2>1. k \in 1..Len(l) /\ k # p /\ m[j] = l[k]
    BY <1>1, <1>2, <1>3
  <2>2. l[k].key \in K <=> \E i \in 1..Len(c) : at[i] = k
    <3> HIDE DEF k
    <3> QED
      BY <2>1 DEF IsPart
  <2>3. ASSUME NEW i \in 1..Len(c), at[i] = k
        PROVE  \E n \in 1..Len(d) : down[n] = j
    <3>1. i # o
      BY <2>1, <2>3 DEF p
    <3>2. CASE i < o
      <4>1. i \in 1..Len(d) /\ down[i] = at[i] /\ at[i] < p
        BY <1>1, <1>2, <1>3, <1>4, <1>7, <3>2
      <4>2. k = j
        BY <1>1, <1>3, <2>3, <4>1
      <4> QED
        BY <2>3, <4>1, <4>2
    <3>3. CASE o < i
      <4>1. i - 1 \in 1..Len(d) /\ ~(i - 1 < o) /\ (i - 1) + 1 = i
        BY <1>1, <1>2, <1>3, <3>3
      <4>2. down[i - 1] = at[i] - 1 /\ p < at[i]
        BY <1>4, <1>7, <3>3, <4>1
      <4>3. k = j + 1
        BY <1>1, <1>3, <2>3, <4>2
      <4>4. down[i - 1] = j
        BY <1>3, <2>3, <4>2, <4>3
      <4> QED
        BY <4>1, <4>4
    <3> QED
      BY <1>1, <3>1, <3>2, <3>3
  <2>4. ASSUME NEW n \in 1..Len(d), down[n] = j
        PROVE  \E i \in 1..Len(c) : at[i] = k
    <3>1. CASE n < o
      <4>1. n \in 1..Len(c) /\ down[n] = at[n] /\ at[n] < p
        BY <1>1, <1>2, <1>3, <1>4, <1>7, <3>1
      <4>2. at[n] = k
        BY <2>4, <4>1
      <4> QED
        BY <4>1, <4>2
    <3>2. CASE ~(n < o)
      <4>1. n + 1 \in 1..Len(c) /\ o < n + 1 /\ down[n] = at[n + 1] - 1
        BY <1>1, <1>2, <1>3, <1>7, <3>2
      <4>2. at[n + 1] \in Nat /\ p < at[n + 1]
        BY <1>1, <1>4, <4>1
      <4>3. at[n + 1] = k
        BY <1>1, <1>3, <2>4, <4>1, <4>2
      <4> QED
        BY <4>1, <4>3
    <3> QED
      BY <3>1, <3>2
  <2> HIDE DEF k
  <2> QED
    BY <2>1, <2>2, <2>3, <2>4
<1>10. IsPart(d, m, K, down)
  BY <1>5, <1>6, <1>8, <1>9 DEF IsPart
<1> QED
  BY <1>10 DEF Part, d, m, p

IsFirst(s, k, i) == i \in 1..Len(s) /\ s[i].key = k /\ \A j \in 1..Len(s) : s[j].key = k => i <= j
Agree(c, l, k, at) ==
  /\ (\E i \in 1..Len(c) : c[i].key = k) <=> \E j \in 1..Len(l) : l[j].key = k
  /\ \A i, j : IsFirst(c, k, i) /\ IsFirst(l, k, j) => at[i] = j
\* The first entry with a key is the same in its chain and in the log.
LEMMA FirstsAgree ==
  ASSUME NEW c \in Seq(Entries), NEW l \in Seq(Entries), NEW K, NEW at, IsPart(c, l, K, at), NEW k \in K
  PROVE  Agree(c, l, k, at)
<1>1. \A i \in 1..Len(c) : at[i] \in 1..Len(l) /\ c[i] = l[at[i]]
  BY DEF IsPart
<1>2. \A j \in 1..Len(l) : l[j].key = k => \E i \in 1..Len(c) : at[i] = j
  BY DEF IsPart
<1>3. Len(c) \in Nat /\ Len(l) \in Nat
  BY LenProperties
<1>4. ASSUME NEW i, NEW j, IsFirst(c, k, i), IsFirst(l, k, j)
      PROVE  at[i] = j
  <2>1. i \in 1..Len(c) /\ j \in 1..Len(l) /\ c[i].key = k /\ l[j].key = k
    BY <1>4 DEF IsFirst
  <2>2. PICK n \in 1..Len(c) : at[n] = j
    BY <1>2, <2>1
  <2>3. c[n].key = k
    BY <1>1, <2>1, <2>2
  <2>4. i <= n
    BY <1>4, <2>3 DEF IsFirst
  <2>5. j <= at[i]
    <3>1. at[i] \in 1..Len(l) /\ l[at[i]].key = k
      BY <1>1, <2>1
    <3> QED
      BY <1>4, <3>1 DEF IsFirst
  <2>6. i < n => at[i] < at[n]
    BY <2>1 DEF IsPart
  <2> QED
    BY <1>1, <1>3, <2>1, <2>2, <2>4, <2>5, <2>6
<1> QED
  BY <1>1, <1>2, <1>4 DEF Agree

\* What CHOOSE finds among the entries with a key is the first.
LEMMA FirstIsFirst ==
  ASSUME NEW s \in Seq(Entries), NEW k, NEW M, M = {i \in 1..Len(s) : s[i].key = k}, M # {}
  PROVE  IsFirst(s, k, CHOOSE i \in M : \A j \in M : i <= j)
<1>1. M \subseteq Nat
  BY LenProperties
<1>2. PICK m \in M : \A j \in M : m <= j
  BY <1>1, LeastNumber
<1> DEFINE n == CHOOSE i \in M : \A j \in M : i <= j
<1>3. n \in M /\ \A j \in M : n <= j
  BY <1>2
<1> HIDE DEF n
<1>4. IsFirst(s, k, n)
  BY <1>3 DEF IsFirst
<1> QED
  BY <1>4 DEF n

-----------------------------------------------------------------------------
(* The theorem.                                                            *)

\* A table is made empty.
LEMMA NewKept ==
  ASSUME HashInv, NEW nel \in Sizes, new_hash_table(nel)
  PROVE  HashInv'
<1> DEFINE size == TableSize(nel)
<1>1. size \in Nat \ {0}
  BY TableHasSize
<1>2. added' = <<>> /\ (htable' = [i \in 1..size |-> <<>>] \/ htable' = HNull)
  BY DEF new_hash_table
<1> HIDE DEF size
<1>3. <<>> \in Seq(Entries)
  BY EmptySeq
<1>4. ASSUME htable' # HNull
      PROVE  /\ htable' \in Seq(Seq(Entries)) /\ Len(htable') # 0
             /\ \A b \in 1..Len(htable') : Part(htable'[b], added', KeysOf(b)')
  <2>1. htable' = [i \in 1..size |-> <<>>]
    BY <1>2, <1>4
  <2>2. htable' \in [1..size -> Seq(Entries)]
    BY <1>3, <2>1
  <2>3. htable' \in Seq(Seq(Entries)) /\ Len(htable') = size
    BY <1>1, <2>1, <2>2
  <2>4. \A b \in 1..size : htable'[b] = <<>>
    BY <2>1
  <2> QED
    BY <1>1, <1>2, <2>3, <2>4, NothingAdded
<1> QED
  BY <1>2, <1>3, <1>4 DEF HashInv

\* A chain that has another one in its place.
LEMMA ChainReplaced ==
  ASSUME HashInv, htable # HNull, NEW b \in 1..Len(htable), NEW c \in Seq(Entries),
         NEW l \in Seq(Entries), added' = l, htable' = [htable EXCEPT ![b] = c],
         Part(c, l, KeysOf(b)), \A d \in 1..Len(htable) : d # b => Part(htable[d], l, KeysOf(d))
  PROVE  HashInv'
<1>1. htable \in Seq(Seq(Entries)) /\ Len(htable) # 0
  BY DEF HashInv
<1>2. /\ htable' \in Seq(Seq(Entries)) /\ Len(htable') = Len(htable)
      /\ \A d \in 1..Len(htable) : htable'[d] = IF d = b THEN c ELSE htable[d]
  BY <1>1, ExceptSeq
<1>3. \A d : KeysOf(d)' = KeysOf(d)
  BY <1>2 DEF KeysOf, Bucket, Buckets
<1>4. \A d \in 1..Len(htable) : Part(htable'[d], l, KeysOf(d))
  BY <1>2
<1> QED
  BY <1>1, <1>2, <1>3, <1>4 DEF HashInv

\* What is added is the newest of its chain and of the log.
LEMMA AddKept ==
  ASSUME HashInv, NEW buf \in KeyBuffers, NEW len \in Lengths(buf), NEW data \in HData, HashAdd(buf, len, data)
  PROVE  HashInv'
<1> DEFINE key == KeyOf(buf, len)
           x == [key |-> key, data |-> data]
           b == Bucket(key)
<1>1. key \in Keys
  BY KeyIsKey
<1>2. /\ htable # HNull
      /\ htable' = [htable EXCEPT ![b] = <<x>> \o htable[b]]
      /\ added' = <<x>> \o added
  BY DEF HashAdd, add_hash_entry
<1> HIDE DEF key
<1>3. added \in Seq(Entries) /\ htable \in Seq(Seq(Entries)) /\ Len(htable) \in Nat \ {0}
  BY <1>2, LenProperties DEF HashInv
<1>4. b \in 1..Len(htable) /\ key \in KeysOf(b) /\ \A d : d # b => key \notin KeysOf(d)
  BY <1>1, <1>3, BucketIsOne DEF KeysOf
<1> HIDE DEF b
<1>5. x \in Entries /\ x.key = key
  BY <1>1 DEF Entries
<1> HIDE DEF x
<1>6. \A d \in 1..Len(htable) : htable[d] \in Seq(Entries) /\ Part(htable[d], added, KeysOf(d))
  BY <1>2, <1>3, ElementOfSeq DEF HashInv
<1>7. Part(<<x>> \o htable[b], <<x>> \o added, KeysOf(b))
  BY <1>3, <1>4, <1>5, <1>6, AddedHere
<1>8. ASSUME NEW d \in 1..Len(htable), d # b
      PROVE  Part(htable[d], <<x>> \o added, KeysOf(d))
  BY <1>3, <1>4, <1>5, <1>6, <1>8, AddedElsewhere
<1>9. <<x>> \o added \in Seq(Entries) /\ <<x>> \o htable[b] \in Seq(Entries)
  BY <1>3, <1>4, <1>5, <1>6, InFront
<1> QED
  BY <1>2, <1>4, <1>7, <1>8, <1>9, ChainReplaced

\* What is deleted is the newest of its key, in its chain and in the log.
LEMMA DeleteKept ==
  ASSUME HashInv, NEW buf \in KeyBuffers, NEW len \in Lengths(buf), HashDelete(buf, len)
  PROVE  HashInv'
<1> DEFINE key == KeyOf(buf, len)
           b == Bucket(key)
           c == htable[b]
           o == FirstMatch(key)
           p == Newest(key)
<1>1. key \in Keys
  BY KeyIsKey
<1>2. /\ htable # HNull
      /\ htable' = IF Matches(key) = {} THEN htable ELSE [htable EXCEPT ![b] = RemoveAt(c, o)]
      /\ added' = IF AddedFor(key) = {} THEN added ELSE RemoveAt(added, p)
  BY DEF HashDelete, delete_hash_entry
<1> HIDE DEF key
<1>3. added \in Seq(Entries) /\ htable \in Seq(Seq(Entries)) /\ Len(htable) \in Nat \ {0}
  BY <1>2, LenProperties DEF HashInv
<1>4. b \in 1..Len(htable) /\ key \in KeysOf(b) /\ \A d : d # b => key \notin KeysOf(d)
  BY <1>1, <1>3, BucketIsOne DEF KeysOf
<1>5. \A d \in 1..Len(htable) : htable[d] \in Seq(Entries) /\ Part(htable[d], added, KeysOf(d))
  BY <1>2, <1>3, ElementOfSeq DEF HashInv
<1>6. Matches(key) = {i \in 1..Len(c) : c[i].key = key}
  BY DEF Matches
<1>7. AddedFor(key) = {i \in 1..Len(added) : added[i].key = key}
  BY DEF AddedFor
<1>8. Matches(key) # {} => IsFirst(c, key, o)
  <2> HIDE DEF c
  <2>1. c \in Seq(Entries)
    BY <1>4, <1>5 DEF c
  <2> QED
    BY <1>6, <2>1, FirstIsFirst DEF FirstMatch
<1>9. AddedFor(key) # {} => IsFirst(added, key, p)
  BY <1>3, <1>7, FirstIsFirst DEF Newest
<1> HIDE DEF o, p, b
<1>10. c \in Seq(Entries) /\ Part(c, added, KeysOf(b))
  BY <1>4, <1>5
<1> HIDE DEF c
<1>11. PICK at : IsPart(c, added, KeysOf(b), at)
  BY <1>10 DEF Part
<1>12. /\ Matches(key) = {} <=> AddedFor(key) = {}
       /\ Matches(key) # {} => at[o] = p
  <2>1. Agree(c, added, key, at)
    BY <1>3, <1>4, <1>10, <1>11, FirstsAgree
  <2>2. Matches(key) = {} <=> AddedFor(key) = {}
    BY <1>6, <1>7, <2>1 DEF Agree
  <2> QED
    BY <1>8, <1>9, <2>1, <2>2 DEF Agree
<1>13. CASE Matches(key) = {}
  <2>1. htable' = htable /\ added' = added
    BY <1>2, <1>12, <1>13
  <2> QED
    BY <2>1 DEF HashInv, KeysOf, Bucket, Buckets
<1>14. CASE Matches(key) # {}
  <2>1. o \in 1..Len(c) /\ p \in 1..Len(added) /\ added[p].key = key /\ p = at[o]
    BY <1>8, <1>9, <1>12, <1>14 DEF IsFirst
  <2>2. htable' = [htable EXCEPT ![b] = RemoveAt(c, o)] /\ added' = RemoveAt(added, p)
    BY <1>2, <1>12, <1>14
  <2>3. Part(RemoveAt(c, o), RemoveAt(added, p), KeysOf(b))
    BY <1>3, <1>10, <1>11, <2>1, RemovedHere
  <2>4. ASSUME NEW d \in 1..Len(htable), d # b
        PROVE  Part(htable[d], RemoveAt(added, p), KeysOf(d))
    BY <1>3, <1>4, <1>5, <2>1, <2>4, RemovedElsewhere
  <2>5. RemoveAt(c, o) \in Seq(Entries) /\ RemoveAt(added, p) \in Seq(Entries)
    BY <1>3, <1>10, <2>1, RemoveAtIs
  <2> QED
    BY <1>2, <1>4, <2>2, <2>3, <2>4, <2>5, ChainReplaced
<1> QED
  BY <1>13, <1>14

\* The invariant holds.
LEMMA HashInvHolds ==
  HashSpec => []HashInv
<1>1. HashInit => HashInv
  BY EmptySeq DEF HashInit, HashInv
<1>2. HashInv /\ [HashNext]_hashVars => HashInv'
  <2> SUFFICES ASSUME HashInv, [HashNext]_hashVars PROVE HashInv'
    OBVIOUS
  <2>1. CASE \E nel \in Sizes : new_hash_table(nel)
    BY <2>1, NewKept
  <2>2. CASE free_hash_table
    BY <2>2, EmptySeq DEF free_hash_table, HashInv
  <2>3. ASSUME NEW buf \in KeyBuffers, NEW len \in Lengths(buf), HashDelete(buf, len)
        PROVE  HashInv'
    BY <2>3, DeleteKept
  <2>4. ASSUME NEW buf \in KeyBuffers, NEW len \in Lengths(buf), NEW data \in HData, HashAdd(buf, len, data)
        PROVE  HashInv'
    BY <2>4, AddKept
  <2>5. CASE UNCHANGED hashVars
    BY <2>5 DEF hashVars, HashInv, KeysOf, Bucket, Buckets
  <2> QED
    BY <2>1, <2>2, <2>3, <2>4, <2>5 DEF HashNext
<1> QED
  BY <1>1, <1>2, PTL DEF HashSpec

\* LookupFindsNewest: for any octets, keys, data and sizes of the table, a
\* lookup by hash_lookup finds what add_hash_entry added last for that key and
\* delete_hash_entry did not delete.
THEOREM LookupsFindNewest ==
  HashSpec => []LookupFindsNewest
<1>1. HashInv => LookupFindsNewest
  <2> SUFFICES ASSUME HashInv, htable # HNull, NEW buf \in KeyBuffers, NEW len \in Lengths(buf)
               PROVE  hash_lookup(buf, len) = IF AddedFor(KeyOf(buf, len)) = {} THEN HNull
                                              ELSE added[Newest(KeyOf(buf, len))].data
    BY DEF LookupFindsNewest
  <2> DEFINE key == KeyOf(buf, len)
             b == Bucket(key)
             c == htable[b]
             o == FirstMatch(key)
             p == Newest(key)
  <2>1. key \in Keys
    BY KeyIsKey
  <2>2. hash_lookup(buf, len) = IF Matches(key) = {} THEN HNull ELSE c[o].data
    BY DEF hash_lookup
  <2> HIDE DEF key
  <2>3. added \in Seq(Entries) /\ htable \in Seq(Seq(Entries)) /\ Len(htable) \in Nat \ {0}
    BY LenProperties DEF HashInv
  <2>4. b \in 1..Len(htable) /\ key \in KeysOf(b)
    BY <2>1, <2>3, BucketIsOne DEF KeysOf
  <2>5. c \in Seq(Entries) /\ Part(c, added, KeysOf(b))
    BY <2>3, <2>4, ElementOfSeq DEF HashInv
  <2>6. Matches(key) = {i \in 1..Len(c) : c[i].key = key}
    BY DEF Matches
  <2>7. AddedFor(key) = {i \in 1..Len(added) : added[i].key = key}
    BY DEF AddedFor
  <2>8. Matches(key) # {} => IsFirst(c, key, o)
    <3> HIDE DEF c
    <3> QED
      BY <2>5, <2>6, FirstIsFirst DEF FirstMatch
  <2>9. AddedFor(key) # {} => IsFirst(added, key, p)
    BY <2>3, <2>7, FirstIsFirst DEF Newest
  <2> HIDE DEF o, p, b, c
  <2>10. PICK at : IsPart(c, added, KeysOf(b), at)
    BY <2>5 DEF Part
  <2>11. Agree(c, added, key, at)
    BY <2>3, <2>4, <2>5, <2>10, FirstsAgree
  <2>12. Matches(key) = {} <=> AddedFor(key) = {}
    BY <2>6, <2>7, <2>11 DEF Agree
  <2>13. Matches(key) # {} => c[o] = added[p]
    BY <2>8, <2>9, <2>10, <2>11, <2>12 DEF Agree, IsFirst, IsPart
  <2> QED
    BY <2>2, <2>12, <2>13 DEF key, p
<1> QED
  BY <1>1, HashInvHolds, PTL

-----------------------------------------------------------------------------
(* The doubly linked list.                                                 *)
Addrs == DNodes \cup {DNull, DGarbage}
Mems == [DNodes -> [next : Addrs, prev : Addrs]]

\* A ring of nodes: a[0] is the list's head and so is a[n + 1], the n objects
\* are between, and each node is linked to its neighbours.
IsRing(a, n) ==
  /\ a \in [0..n + 1 -> DNodes] /\ a[n + 1] = a[0]
  /\ \A i, j \in 0..n : i # j => a[i] # a[j]
Linked(m, a, n) ==
  /\ \A i \in 0..n : m[a[i]].next = a[i + 1]
  /\ \A i \in 0..n : m[a[i + 1]].prev = a[i]
On(a, n, c) == \E i \in 0..n : a[i] = c
Ring(m, a, n) == IsRing(a, n) /\ Linked(m, a, n)

\* The ring a with x behind its node k, and without its node k.
Grown(a, n, k, x) == [i \in 0..n + 2 |-> IF i <= k THEN a[i] ELSE IF i = k + 1 THEN x ELSE a[i - 1]]
Cut(a, n, k) == [i \in 0..n |-> IF i < k THEN a[i] ELSE a[i + 1]]

\* The memory w is v but for the nodes of the ring a and x.
Apart(v, w, a, n, x) == w \in Mems /\ \A c \in DNodes : c # x /\ ~On(a, n, c) => w[c] = v[c]

-----------------------------------------------------------------------------
(* Rings.                                                                  *)

\* An object is linked in behind a node of a ring.
LEMMA InsertedBehind ==
  ASSUME NEW m \in Mems, NEW n \in Nat, NEW a, Ring(m, a, n), NEW k \in 0..n,
         NEW x \in DNodes, ~On(a, n, x)
  PROVE  LET w == insertAfter(m, a[k], x)
         IN  Apart(m, w, a, n, x) /\ Ring(w, Grown(a, n, k, x), n + 1)
<1> DEFINE p == a[k]
           q == a[k + 1]
           b == Grown(a, n, k, x)
           w == insertAfter(m, p, x)
<1>1. p \in DNodes /\ q \in DNodes /\ m[p].next = q /\ x # p /\ x # q
  <2>1. k + 1 \in 0..n + 1 /\ k \in 0..n + 1
    OBVIOUS
  <2>2. q # x
    <3>1. CASE k + 1 = n + 1
      BY <3>1 DEF Ring, IsRing, On
    <3>2. CASE k + 1 # n + 1
      BY <3>2 DEF On
    <3> QED
      BY <3>1, <3>2
  <2> QED
    BY <2>1, <2>2 DEF Ring, IsRing, Linked, On
<1>2. w = [m EXCEPT ![x] = [next |-> q, prev |-> p], ![p].next = x, ![q].prev = x]
  BY <1>1 DEF insertAfter
<1> HIDE DEF p, q
<1>3. /\ w \in Mems
      /\ \A c \in DNodes : w[c].next = IF c = x THEN q ELSE IF c = p THEN x ELSE m[c].next
      /\ \A c \in DNodes : w[c].prev = IF c = x THEN p ELSE IF c = q THEN x ELSE m[c].prev
      /\ \A c \in DNodes : c \notin {x, p, q} => w[c] = m[c]
  BY <1>1, <1>2 DEF Mems, Addrs
<1> HIDE DEF w
<1>4. Apart(m, w, a, n, x)
  <2>1. On(a, n, p) /\ On(a, n, q)
    <3>1. On(a, n, q)
      <4>1. CASE k = n
        BY <4>1 DEF On, q, Ring, IsRing
      <4>2. CASE k # n
        <5>1. k + 1 \in 0..n
          BY <4>2
        <5> QED
          BY <5>1 DEF On, q
      <4> QED
        BY <4>1, <4>2
    <3> QED
      BY <3>1 DEF On, p
  <2> QED
    BY <1>3, <2>1 DEF Apart
<1>5. \A i \in 0..n + 2 : b[i] = IF i <= k THEN a[i] ELSE IF i = k + 1 THEN x ELSE a[i - 1]
  BY DEF Grown
<1>6. b \in [0..n + 2 -> DNodes]
  <2>1. \A i \in 0..n + 2 : b[i] \in DNodes
    BY <1>5 DEF Ring, IsRing
  <2> QED
    BY <2>1 DEF Grown
<1> HIDE DEF b
<1>7. b[n + 2] = b[0] /\ \A i, j \in 0..n + 1 : i # j => b[i] # b[j]
  <2>1. b[n + 2] = b[0]
    BY <1>5 DEF Ring, IsRing
  <2>2. ASSUME NEW i \in 0..n + 1, NEW j \in 0..n + 1, i # j
        PROVE  b[i] # b[j]
    <3>1. i \in 0..n + 2 /\ j \in 0..n + 2
      OBVIOUS
    <3>2. \A e \in 0..n + 1 : e # k + 1 => \E d \in 0..n : b[e] = a[d] /\ d = IF e <= k THEN e ELSE e - 1
      BY <1>5
    <3>3. b[k + 1] = x
      BY <1>5
    <3> QED
      BY <2>2, <3>2, <3>3 DEF Ring, IsRing, On
  <2> QED
    BY <2>1, <2>2
<1>8. ASSUME NEW i \in 0..n + 1
      PROVE  w[b[i]].next = b[i + 1] /\ w[b[i + 1]].prev = b[i]
  <2>0. i \in 0..n + 2 /\ i + 1 \in 0..n + 2
    OBVIOUS
  <2>1. CASE i < k
    <3>1. b[i] = a[i] /\ b[i + 1] = a[i + 1] /\ i \in 0..n
      BY <1>5, <2>0, <2>1
    <3>2. a[i] # p /\ a[i + 1] # q /\ a[i] # x /\ a[i + 1] # x
      BY <2>1, <3>1 DEF Ring, IsRing, On, p, q
    <3> QED
      BY <1>3, <3>1, <3>2 DEF Ring, IsRing, Linked
  <2>2. CASE i = k
    <3>1. b[i] = p /\ b[i + 1] = x
      BY <1>5, <2>0, <2>2 DEF p
    <3> QED
      BY <1>1, <1>3, <3>1
  <2>3. CASE i = k + 1
    <3>1. b[i] = x /\ b[i + 1] = q
      BY <1>5, <2>0, <2>3 DEF q
    <3> QED
      BY <1>1, <1>3, <3>1
  <2>4. CASE i > k + 1
    <3>1. b[i] = a[i - 1] /\ b[i + 1] = a[i] /\ i - 1 \in 0..n /\ i - 1 > k
      BY <1>5, <2>0, <2>4
    <3>2. a[i - 1] # p /\ a[i - 1] # x
      BY <3>1 DEF Ring, IsRing, On, p
    <3>3. a[i] # q /\ a[i] # x
      <4>1. CASE i = n + 1
        BY <2>4, <4>1 DEF Ring, IsRing, On, q
      <4>2. CASE i # n + 1
        BY <2>4, <4>2 DEF Ring, IsRing, On, q
      <4> QED
        BY <4>1, <4>2
    <3>4. m[a[i - 1]].next = a[i] /\ m[a[i]].prev = a[i - 1] /\ a[i - 1] \in DNodes /\ a[i] \in DNodes
      BY <3>1 DEF Ring, IsRing, Linked
    <3> QED
      BY <1>3, <3>1, <3>2, <3>3, <3>4
  <2> QED
    BY <2>1, <2>2, <2>3, <2>4
<1>9. Ring(w, b, n + 1)
  <2>1. n + 1 + 1 = n + 2
    OBVIOUS
  <2> QED
    BY <1>6, <1>7, <1>8, <2>1 DEF Ring, IsRing, Linked
<1> QED
  BY <1>4, <1>9 DEF p, b, w

\* Before the next node is the same place.
LEMMA InsertedBefore ==
  ASSUME NEW m \in Mems, NEW n \in Nat, NEW a, Ring(m, a, n), NEW k \in 0..n, NEW x
  PROVE  insertBefore(m, a[k + 1], x) = insertAfter(m, a[k], x)
BY DEF insertBefore, insertAfter, Ring, Linked

\* An object is taken out of its ring.
LEMMA TakenOut ==
  ASSUME NEW m \in Mems, NEW n \in Nat, NEW a, Ring(m, a, n), NEW k \in 1..n
  PROVE  LET w == remove(m, a[k])
         IN  Apart(m, w, a, n, a[k]) /\ w[a[k]].next = DNull /\ Ring(w, Cut(a, n, k), n - 1)
<1> DEFINE p == a[k - 1]
           x == a[k]
           q == a[k + 1]
           b == Cut(a, n, k)
           w == remove(m, x)
<1>1. p \in DNodes /\ x \in DNodes /\ q \in DNodes /\ m[x].next = q /\ m[x].prev = p /\ x # p /\ x # q
  <2>1. k - 1 \in 0..n /\ k \in 0..n /\ k + 1 \in 0..n + 1 /\ k - 1 + 1 = k
    OBVIOUS
  <2>2. q # x
    <3>1. CASE k = n
      BY <3>1 DEF Ring, IsRing
    <3>2. CASE k # n
      BY <3>2 DEF Ring, IsRing
    <3> QED
      BY <3>1, <3>2
  <2>3. m[a[k - 1 + 1]].prev = a[k - 1]
    BY <2>1 DEF Ring, Linked
  <2> QED
    BY <2>1, <2>2, <2>3 DEF Ring, IsRing, Linked
<1>2. w = [m EXCEPT ![q].prev = p, ![p].next = q, ![x].next = DNull]
  BY <1>1 DEF remove
<1> HIDE DEF p, q, x
<1>3. /\ w \in Mems
      /\ \A c \in DNodes : w[c].next = IF c = x THEN DNull ELSE IF c = p THEN q ELSE m[c].next
      /\ \A c \in DNodes : w[c].prev = IF c = q THEN p ELSE m[c].prev
      /\ \A c \in DNodes : c \notin {x, p, q} => w[c] = m[c]
  <2> DEFINE m1 == [m EXCEPT ![q].prev = p]
             m2 == [m1 EXCEPT ![p].next = q]
  <2>1. p \in Addrs /\ q \in Addrs /\ DNull \in Addrs
    BY <1>1 DEF Addrs
  <2>2. /\ m1 \in Mems
        /\ \A c \in DNodes : m1[c].next = m[c].next /\ m1[c].prev = IF c = q THEN p ELSE m[c].prev
        /\ \A c \in DNodes : c # q => m1[c] = m[c]
    BY <1>1, <2>1 DEF Mems
  <2>3. w = [m2 EXCEPT ![x].next = DNull]
    BY <1>2
  <2> HIDE DEF m1, w
  <2>4. /\ m2 \in Mems
        /\ \A c \in DNodes : m2[c].prev = m1[c].prev /\ m2[c].next = IF c = p THEN q ELSE m1[c].next
        /\ \A c \in DNodes : c # p => m2[c] = m1[c]
    BY <1>1, <2>1, <2>2 DEF Mems
  <2> HIDE DEF m2
  <2>5. /\ w \in Mems
        /\ \A c \in DNodes : w[c].prev = m2[c].prev /\ w[c].next = IF c = x THEN DNull ELSE m2[c].next
        /\ \A c \in DNodes : c # x => w[c] = m2[c]
    BY <1>1, <2>1, <2>3, <2>4 DEF Mems
  <2> QED
    BY <2>2, <2>4, <2>5
<1> HIDE DEF w
<1>4. Apart(m, w, a, n, x)
  <2>1. On(a, n, p)
    BY DEF On, p
  <2>2. On(a, n, q)
    <3>1. CASE k = n
      BY <3>1 DEF On, q, Ring, IsRing
    <3>2. CASE k # n
      <4>1. k + 1 \in 0..n
        BY <3>2
      <4> QED
        BY <4>1 DEF On, q
    <3> QED
      BY <3>1, <3>2
  <2> QED
    BY <1>3, <2>1, <2>2 DEF Apart
<1>5. \A i \in 0..n : b[i] = IF i < k THEN a[i] ELSE a[i + 1]
  BY DEF Cut
<1>6. b \in [0..n -> DNodes]
  <2>1. \A i \in 0..n : b[i] \in DNodes
    BY <1>5 DEF Ring, IsRing
  <2> QED
    BY <2>1 DEF Cut
<1> HIDE DEF b
<1>7. b[n] = b[0] /\ \A i, j \in 0..n - 1 : i # j => b[i] # b[j]
  <2>1. b[n] = b[0]
    BY <1>5 DEF Ring, IsRing
  <2>2. ASSUME NEW i \in 0..n - 1, NEW j \in 0..n - 1, i # j
        PROVE  b[i] # b[j]
    <3>1. \A e \in 0..n - 1 : \E d \in 0..n : b[e] = a[d] /\ d = IF e < k THEN e ELSE e + 1
      BY <1>5
    <3> QED
      BY <2>2, <3>1 DEF Ring, IsRing
  <2> QED
    BY <2>1, <2>2
<1>8. ASSUME NEW i \in 0..n - 1
      PROVE  w[b[i]].next = b[i + 1] /\ w[b[i + 1]].prev = b[i]
  <2>0. i \in 0..n /\ i + 1 \in 0..n
    OBVIOUS
  <2>1. CASE i < k - 1
    <3>1. b[i] = a[i] /\ b[i + 1] = a[i + 1]
      BY <1>5, <2>0, <2>1
    <3>2. a[i] # p /\ a[i] # x /\ a[i + 1] # q
      <4>1. a[i + 1] # q
        <5>1. CASE k = n
          BY <2>0, <2>1, <5>1 DEF Ring, IsRing, q
        <5>2. CASE k # n
          BY <2>0, <2>1, <5>2 DEF Ring, IsRing, q
        <5> QED
          BY <5>1, <5>2
      <4> QED
        BY <2>0, <2>1, <4>1 DEF Ring, IsRing, p, x
    <3>3. a[i] \in DNodes /\ a[i + 1] \in DNodes /\ m[a[i]].next = a[i + 1] /\ m[a[i + 1]].prev = a[i]
      BY <2>0 DEF Ring, IsRing, Linked
    <3> QED
      BY <1>3, <3>1, <3>2, <3>3
  <2>2. CASE i = k - 1
    <3>1. b[i] = p /\ b[i + 1] = q
      BY <1>5, <2>0, <2>2 DEF p, q
    <3> QED
      BY <1>1, <1>3, <3>1
  <2>3. CASE i > k - 1
    <3>1. b[i] = a[i + 1] /\ b[i + 1] = a[i + 2] /\ i + 1 \in 0..n /\ i + 1 > k
      BY <1>5, <2>0, <2>3
    <3>2. a[i + 1] # p /\ a[i + 1] # x
      BY <2>3, <3>1 DEF Ring, IsRing, p, x
    <3>3. a[i + 2] # q
      <4>1. CASE i + 2 = n + 1
        BY <2>3, <3>1, <4>1 DEF Ring, IsRing, q
      <4>2. CASE i + 2 # n + 1
        BY <2>3, <3>1, <4>2 DEF Ring, IsRing, q
      <4> QED
        BY <4>1, <4>2
    <3>4. m[a[i + 1]].next = a[i + 1 + 1] /\ m[a[i + 1 + 1]].prev = a[i + 1] /\ i + 1 + 1 = i + 2
      BY <3>1 DEF Ring, Linked
    <3>5. a[i + 1] \in DNodes /\ a[i + 2] \in DNodes
      BY <3>1 DEF Ring, IsRing
    <3> QED
      BY <1>3, <3>1, <3>2, <3>3, <3>4, <3>5
  <2> QED
    BY <2>1, <2>2, <2>3
<1>9. Ring(w, b, n - 1)
  <2>1. n - 1 + 1 = n
    OBVIOUS
  <2> QED
    BY <1>6, <1>7, <1>8, <2>1 DEF Ring, IsRing, Linked
<1>10. w[x].next = DNull
  BY <1>1, <1>3
<1> QED
  BY <1>4, <1>9, <1>10 DEF x, b, w

\* Only the ring itself was touched, x being on it.
LEMMA ApartOnRing ==
  ASSUME NEW v, NEW w, NEW a, NEW n \in Nat, NEW k \in 0..n, Apart(v, w, a, n, a[k])
  PROVE  w \in Mems /\ \A c \in DNodes : ~On(a, n, c) => w[c] = v[c]
BY DEF Apart, On

\* A ring whose nodes keep their links is still one.
LEMMA StillRing ==
  ASSUME NEW m, NEW w, NEW r, NEW n \in Nat, Ring(m, r, n), \A c \in DNodes : On(r, n, c) => w[c] = m[c]
  PROVE  Ring(w, r, n)
<1>1. \A i \in 0..n + 1 : r[i] \in DNodes /\ On(r, n, r[i])
  <2>1. \A i \in 0..n + 1 : i \in 0..n \/ i = n + 1
    OBVIOUS
  <2>2. r[n + 1] = r[0] /\ 0 \in 0..n /\ \A i \in 0..n + 1 : r[i] \in DNodes
    BY DEF Ring, IsRing
  <2> QED
    BY <2>1, <2>2 DEF On
<1>2. \A i \in 0..n : i \in 0..n + 1 /\ i + 1 \in 0..n + 1
  OBVIOUS
<1>3. Linked(w, r, n)
  BY <1>1, <1>2 DEF Ring, Linked
<1> QED
  BY <1>3 DEF Ring

\* The ring a with its nodes i and j exchanged.
Exchanged(a, n, i, j) == [k \in 0..n + 1 |-> IF k = i THEN a[j] ELSE IF k = j THEN a[i] ELSE a[k]]

\* The second of two neighbours is linked in behind the first, where it was
\* the other way round.
LEMMA NeighboursSwapped ==
  ASSUME NEW m \in Mems, NEW n \in Nat, NEW a, Ring(m, a, n), NEW k \in 1..n - 1
  PROVE  LET w == insertAfter(remove(m, a[k]), a[k + 1], a[k])
         IN  /\ w \in Mems /\ \A c \in DNodes : ~On(a, n, c) => w[c] = m[c]
             /\ Ring(w, Exchanged(a, n, k, k + 1), n)
<1> DEFINE x == a[k]
           m1 == remove(m, x)
           a1 == Cut(a, n, k)
           w == insertAfter(m1, a[k + 1], x)
           b == Grown(a1, n - 1, k, x)
<1>0. k \in 1..n /\ k \in 0..n - 1 /\ k \in 0..n /\ n - 1 \in Nat /\ n - 1 + 1 = n
  OBVIOUS
<1>1. Apart(m, m1, a, n, x) /\ Ring(m1, a1, n - 1)
  BY <1>0, TakenOut
<1>2. m1 \in Mems /\ \A c \in DNodes : ~On(a, n, c) => m1[c] = m[c]
  <2> HIDE DEF m1
  <2> QED
    BY <1>0, <1>1, ApartOnRing DEF x
<1>3. a1[k] = a[k + 1]
  BY <1>0 DEF Cut
<1>4. x \in DNodes /\ ~On(a1, n - 1, x)
  <2>1. \A i \in 0..n - 1 : a1[i] = IF i < k THEN a[i] ELSE a[i + 1]
    BY DEF Cut
  <2> HIDE DEF a1
  <2>2. ASSUME NEW i \in 0..n - 1
        PROVE  a1[i] # x
    <3>1. CASE i < k
      BY <1>0, <2>1, <3>1 DEF Ring, IsRing
    <3>2. CASE ~(i < k)
      <4>1. CASE i + 1 = n + 1
        BY <1>0, <2>1, <3>2, <4>1 DEF Ring, IsRing
      <4>2. CASE i + 1 # n + 1
        BY <1>0, <2>1, <3>2, <4>2 DEF Ring, IsRing
      <4> QED
        BY <4>1, <4>2
    <3> QED
      BY <3>1, <3>2
  <2>3. x \in DNodes
    BY <1>0 DEF Ring, IsRing
  <2> QED
    BY <2>2, <2>3 DEF On
<1>5. \A c : On(a1, n - 1, c) => On(a, n, c)
  BY <1>0 DEF On, Cut
<1>6. On(a, n, x)
  BY <1>0 DEF On
<1> HIDE DEF x, m1, a1
<1>7. Apart(m1, w, a1, n - 1, x) /\ Ring(w, b, n)
  BY <1>0, <1>1, <1>2, <1>3, <1>4, InsertedBehind
<1>8. b = Exchanged(a, n, k, k + 1)
  <2>1. n - 1 + 2 = n + 1
    OBVIOUS
  <2>2. \A i \in 0..n + 1 : (IF i <= k THEN a1[i] ELSE IF i = k + 1 THEN x ELSE a1[i - 1])
                           = IF i = k THEN a[k + 1] ELSE IF i = k + 1 THEN a[k] ELSE a[i]
    BY <1>0 DEF Cut, x, a1
  <2> QED
    BY <2>1, <2>2 DEF Grown, Exchanged
<1> HIDE DEF w, b
<1>9. w \in Mems /\ \A c \in DNodes : ~On(a, n, c) => w[c] = m[c]
  BY <1>2, <1>5, <1>6, <1>7 DEF Apart
<1> QED
  BY <1>7, <1>8, <1>9 DEF w, x, m1

\* Both are taken out and each is linked in behind the other's old neighbour.
\* The last step of it, wherever the two are.
LEMMA TwoPutBack ==
  ASSUME NEW m \in Mems, NEW n \in Nat, NEW a, Ring(m, a, n), NEW i \in 1..n, NEW j \in 1..n, i # j,
         a[i - 1] # a[j], a[j - 1] # a[i]
  PROVE  LET w == insertAfter(insertAfter(remove(remove(m, a[i]), a[j]), a[i - 1], a[j]), a[j - 1], a[i])
         IN  /\ w \in Mems /\ \A c \in DNodes : ~On(a, n, c) => w[c] = m[c]
             /\ Ring(w, Exchanged(a, n, i, j), n)
<1>0. i - 1 # j /\ j - 1 # i /\ n - 2 \in Nat /\ n - 1 \in Nat /\ n - 2 + 1 = n - 1 /\ n - 1 + 1 = n /\ n - 1 - 1 = n - 2
  OBVIOUS
<1> DEFINE x == a[i]
           y == a[j]
           m1 == remove(m, x)
           a1 == Cut(a, n, i)
           j1 == IF j > i THEN j - 1 ELSE j
           m2 == remove(m1, y)
           a2 == Cut(a1, n - 1, j1)
           p == IF i < j THEN i - 1 ELSE i - 2
           m3 == insertAfter(m2, a[i - 1], y)
           a3 == Grown(a2, n - 2, p, y)
           w == insertAfter(m3, a[j - 1], x)
           a4 == Grown(a3, n - 1, j - 1, x)
<1>1. x \in DNodes /\ y \in DNodes /\ x # y /\ On(a, n, x) /\ On(a, n, y)
  BY DEF Ring, IsRing, On
<1>2. j1 \in 1..n - 1 /\ p \in 0..n - 2 /\ j - 1 \in 0..n - 1
  BY <1>0
<1>3. a1[j1] = y /\ a2[p] = a[i - 1] /\ a3[j - 1] = a[j - 1]
  <2>1. a1[j1] = y
    BY <1>0, <1>2 DEF Cut
  <2>2. a2[p] = IF p < j1 THEN a1[p] ELSE a1[p + 1]
    <3> HIDE DEF a1, j1, p
    <3> QED
      BY <1>2, <1>0 DEF Cut
  <2>3. a2[p] = a[i - 1]
    <3>1. CASE i < j
      BY <2>2, <1>0, <3>1 DEF Cut
    <3>2. CASE i > j
      BY <2>2, <1>0, <3>2 DEF Cut
    <3> QED
      BY <3>1, <3>2
  <2>4. a3[j - 1] = a[j - 1]
    <3> DEFINE q == IF j - 1 <= p THEN j - 1 ELSE j - 2
    <3>1. j - 1 # p + 1 /\ q \in 0..n - 1
      BY <1>0
    <3>2. a3[j - 1] = a2[q]
      <4> HIDE DEF a2
      <4> QED
        BY <1>0, <3>1 DEF Grown
    <3>3. a2[q] = IF q < j1 THEN a1[q] ELSE a1[q + 1]
      <4> HIDE DEF a1, j1, q
      <4> QED
        BY <3>1, <1>0 DEF Cut
    <3>4. CASE i < j
      BY <3>2, <3>3, <1>0, <3>4 DEF Cut
    <3>5. CASE i > j
      BY <3>2, <3>3, <1>0, <3>5 DEF Cut
    <3> QED
      BY <3>4, <3>5
  <2> QED
    BY <2>1, <2>3, <2>4
<1>4. \A k \in 0..n + 1 : a4[k] = Exchanged(a, n, i, j)[k]
  <2> SUFFICES ASSUME NEW k \in 0..n + 1
               PROVE  a4[k] = Exchanged(a, n, i, j)[k]
    OBVIOUS
  <2>1. a4[k] = IF k <= j - 1 THEN a3[k] ELSE IF k = j THEN x ELSE a3[k - 1]
    <3> HIDE DEF a3
    <3> QED
      BY <1>0 DEF Grown
  <2>2. \A e \in 0..n : a3[e] = IF e <= p THEN a2[e] ELSE IF e = p + 1 THEN y ELSE a2[e - 1]
    <3> HIDE DEF a2, p
    <3> QED
      BY <1>0 DEF Grown
  <2>3. \A e \in 0..n - 1 : a2[e] = IF e < j1 THEN a1[e] ELSE a1[e + 1]
    <3> HIDE DEF a1, j1
    <3> QED
      BY <1>0 DEF Cut
  <2>4. \A e \in 0..n : a1[e] = IF e < i THEN a[e] ELSE a[e + 1]
    BY DEF Cut
  <2> HIDE DEF a1, a2, a3, a4
  <2>5. Exchanged(a, n, i, j)[k] = IF k = i THEN a[j] ELSE IF k = j THEN a[i] ELSE a[k]
    BY DEF Exchanged
  <2>6. CASE i < j
    BY <1>0, <1>2, <2>1, <2>2, <2>3, <2>4, <2>5, <2>6
  <2>7. CASE i > j
    BY <1>0, <1>2, <2>1, <2>2, <2>3, <2>4, <2>5, <2>7
  <2> QED
    BY <2>6, <2>7
<1>5. a4 = Exchanged(a, n, i, j)
  <2>1. DOMAIN a4 = 0..n + 1 /\ DOMAIN Exchanged(a, n, i, j) = 0..n + 1 /\ a4 = [k \in 0..n + 1 |-> a4[k]]
    BY <1>0 DEF Grown, Exchanged
  <2>2. Exchanged(a, n, i, j) = [k \in 0..n + 1 |-> Exchanged(a, n, i, j)[k]]
    BY DEF Exchanged
  <2> HIDE DEF a4
  <2> QED
    BY <1>4, <2>1, <2>2
<1>6. /\ \A c : On(a1, n - 1, c) => On(a, n, c) /\ c # x
      /\ \A c : On(a2, n - 2, c) => On(a1, n - 1, c) /\ c # y
      /\ \A c : On(a3, n - 1, c) => On(a2, n - 2, c) \/ c = y
  <2>1. \A c : On(a1, n - 1, c) => On(a, n, c) /\ c # x
    BY <1>0 DEF On, Cut, Ring, IsRing
  <2>2. \A e, d \in 0..n - 1 : e # d => a1[e] # a1[d]
    BY <1>0 DEF Cut, Ring, IsRing
  <2>3. \A c : On(a2, n - 2, c) => On(a1, n - 1, c) /\ c # y
    <3>1. \A e \in 0..n - 2 : a2[e] = IF e < j1 THEN a1[e] ELSE a1[e + 1]
      <4> HIDE DEF a1, j1
      <4> QED
        BY <1>0 DEF Cut
    <3> HIDE DEF a1, j1, a2, y
    <3>2. ASSUME NEW e \in 0..n - 2
          PROVE  \E d \in 0..n - 1 : a2[e] = a1[d] /\ d # j1
      <4>1. CASE e < j1
        BY <3>1, <1>0, <4>1
      <4>2. CASE ~(e < j1)
        <5>1. e + 1 \in 0..n - 1 /\ e + 1 # j1
          BY <1>0, <1>2, <4>2
        <5> QED
          BY <3>1, <4>2, <5>1
      <4> QED
        BY <4>1, <4>2
    <3> QED
      BY <1>2, <1>3, <2>2, <3>2 DEF On
  <2>4. \A c : On(a3, n - 1, c) => On(a2, n - 2, c) \/ c = y
    <3> HIDE DEF a2, p
    <3> QED
      BY <1>0, <1>2 DEF On, Grown
  <2> QED
    BY <2>1, <2>3, <2>4
<1>7. Apart(m, m1, a, n, x) /\ Ring(m1, a1, n - 1)
  BY TakenOut
<1> HIDE DEF x, y, a1, m1, j1, p
<1>8. Apart(m1, m2, a1, n - 1, y) /\ Ring(m2, a2, n - 2)
  BY <1>0, <1>2, <1>3, <1>7, TakenOut DEF Apart
<1> HIDE DEF a2, m2
<1>9. Apart(m2, m3, a2, n - 2, y) /\ Ring(m3, a3, n - 1)
  BY <1>0, <1>1, <1>2, <1>3, <1>6, <1>8, InsertedBehind DEF Apart
<1> HIDE DEF a3, m3
<1>10. Apart(m3, w, a3, n - 1, x) /\ Ring(w, a4, n)
  <2>1. ~On(a3, n - 1, x)
    BY <1>1, <1>6
  <2> QED
    BY <1>0, <1>1, <1>2, <1>3, <1>9, <2>1, InsertedBehind DEF Apart
<1> HIDE DEF w, a4
<1>11. w \in Mems /\ \A c \in DNodes : ~On(a, n, c) => w[c] = m[c]
  BY <1>1, <1>6, <1>7, <1>8, <1>9, <1>10 DEF Apart
<1> QED
  BY <1>5, <1>10, <1>11 DEF w, m3, m2, m1, x, y

\* swap exchanges any two objects of a ring.
LEMMA Swapped ==
  ASSUME NEW m \in Mems, NEW n \in Nat, NEW a, Ring(m, a, n), NEW i \in 1..n, NEW j \in 1..n
  PROVE  LET w == swap(m, a[i], a[j])
         IN  /\ w \in Mems /\ \A c \in DNodes : ~On(a, n, c) => w[c] = m[c]
             /\ Ring(w, Exchanged(a, n, i, j), n)
<1> DEFINE w == swap(m, a[i], a[j])
<1>1. m[a[i]].prev = a[i - 1] /\ m[a[j]].prev = a[j - 1] /\ (a[i] = a[j] <=> i = j)
  <2>1. i - 1 \in 0..n /\ j - 1 \in 0..n /\ i - 1 + 1 = i /\ j - 1 + 1 = j
    OBVIOUS
  <2> QED
    BY <2>1 DEF Ring, IsRing, Linked
<1>2. CASE i = j
  <2>1. w = m
    BY <1>2 DEF swap
  <2>2. Exchanged(a, n, i, j) = a
    <3>1. \A k \in 0..n + 1 : Exchanged(a, n, i, j)[k] = a[k]
      BY <1>2 DEF Exchanged
    <3>2. Exchanged(a, n, i, j) = [k \in 0..n + 1 |-> Exchanged(a, n, i, j)[k]] /\ a = [k \in 0..n + 1 |-> a[k]]
      BY DEF Exchanged, Ring, IsRing
    <3> QED
      BY <3>1, <3>2
  <2> QED
    BY <2>1, <2>2
<1>3. CASE i # j /\ a[i - 1] = a[j]
  <2>1. w = insertAfter(remove(m, a[j]), a[i], a[j])
    BY <1>1, <1>3 DEF swap
  <2>2. j = i - 1
    <3>1. i - 1 \in 0..n
      OBVIOUS
    <3> QED
      BY <1>3, <3>1 DEF Ring, IsRing
  <2>3. j \in 1..n - 1 /\ i = j + 1
    BY <2>2
  <2>4. Exchanged(a, n, i, j) = Exchanged(a, n, j, i)
    BY <2>2 DEF Exchanged
  <2> QED
    BY <2>1, <2>3, <2>4, NeighboursSwapped
<1>4. CASE i # j /\ a[i - 1] # a[j] /\ a[j - 1] = a[i]
  <2>1. w = insertAfter(remove(m, a[i]), a[j], a[i])
    BY <1>1, <1>4 DEF swap
  <2>2. i = j - 1
    <3>1. j - 1 \in 0..n
      OBVIOUS
    <3> QED
      BY <1>4, <3>1 DEF Ring, IsRing
  <2>3. i \in 1..n - 1 /\ j = i + 1
    BY <2>2
  <2> QED
    BY <2>1, <2>3, NeighboursSwapped
<1>5. CASE i # j /\ a[i - 1] # a[j] /\ a[j - 1] # a[i]
  <2>1. w = insertAfter(insertAfter(remove(remove(m, a[i]), a[j]), a[i - 1], a[j]), a[j - 1], a[i])
    BY <1>1, <1>5 DEF swap
  <2> QED
    BY <1>5, <2>1, TwoPutBack
<1> QED
  BY <1>2, <1>3, <1>4, <1>5

\* The objects of one ring, b, are moved to the end of another, a.
Joined(a, n, b, l) == [i \in 0..n + l + 1 |-> IF i <= n THEN a[i] ELSE IF i <= n + l THEN b[i - n] ELSE a[0]]
\* It is the ring of all the objects, and no other node is touched.
LEMMA Moved ==
  ASSUME NEW m \in Mems, NEW n \in Nat, NEW a, Ring(m, a, n), NEW l \in Nat, NEW b, Ring(m, b, l),
         \A i \in 0..l : ~On(a, n, b[i]), l # 0
  PROVE  LET w == moveList(m, a[0], b[0])
         IN  /\ w \in Mems /\ \A c \in DNodes : ~On(a, n, c) /\ ~On(b, l, c) => w[c] = m[c]
             /\ Ring(w, Joined(a, n, b, l), n + l)
<1> DEFINE h == a[0]
           first == b[1]
           last == b[l]
           end == a[n]
           w == moveList(m, h, b[0])
           r == Joined(a, n, b, l)
<1>1. /\ h \in DNodes /\ first \in DNodes /\ last \in DNodes /\ end \in DNodes
      /\ m[h].prev = end /\ m[b[0]].next = first /\ m[b[0]].prev = last /\ first # b[0]
  <2>1. n + 1 - 1 = n /\ n \in 0..n /\ l \in 0..l /\ 0 \in 0..n /\ 0 \in 0..l /\ 1 \in 0..l
    OBVIOUS
  <2>2. m[a[n + 1]].prev = a[n] /\ m[b[l + 1]].prev = b[l] /\ m[b[0]].next = b[0 + 1]
    BY <2>1 DEF Ring, Linked
  <2> QED
    BY <2>1, <2>2 DEF Ring, IsRing
<1>2. \A i \in 0..n, j \in 0..l : a[i] # b[j]
  BY DEF On
<1>3. w = [m EXCEPT ![last].next = h, ![first].prev = end, ![end].next = first, ![h].prev = last]
  BY <1>1 DEF moveList
<1>4. On(a, n, h) /\ On(a, n, end) /\ On(b, l, first) /\ On(b, l, last)
  BY DEF On
<1>5. \A i \in 0..n + l + 1 : r[i] = IF i <= n THEN a[i] ELSE IF i <= n + l THEN b[i - n] ELSE h
  BY DEF Joined
<1>6. /\ \A i \in 0..n, j \in 0..n : i # j => a[i] # a[j]
      /\ \A i \in 0..l, j \in 0..l : i # j => b[i] # b[j]
      /\ \A i \in 0..n : a[i] \in DNodes
      /\ \A i \in 0..l : b[i] \in DNodes
  BY DEF Ring, IsRing
<1>7. /\ \A i \in 0..n - 1 : m[a[i]].next = a[i + 1] /\ m[a[i + 1]].prev = a[i]
      /\ \A i \in 1..l - 1 : m[b[i]].next = b[i + 1] /\ m[b[i + 1]].prev = b[i]
  <2>1. (\A i \in 0..n - 1 : i \in 0..n) /\ (\A i \in 1..l - 1 : i \in 0..l)
    OBVIOUS
  <2>2. /\ \A i \in 0..n : m[a[i]].next = a[i + 1] /\ m[a[i + 1]].prev = a[i]
        /\ \A i \in 0..l : m[b[i]].next = b[i + 1] /\ m[b[i + 1]].prev = b[i]
    BY DEF Ring, Linked
  <2> QED
    BY <2>1, <2>2
<1>8. h = a[0] /\ end = a[n] /\ first = b[1] /\ last = b[l]
  OBVIOUS
<1> HIDE DEF h, first, last, end, r
<1>9. /\ w \in Mems
      /\ \A c \in DNodes : w[c].next = IF c = end THEN first ELSE IF c = last THEN h ELSE m[c].next
      /\ \A c \in DNodes : w[c].prev = IF c = h THEN last ELSE IF c = first THEN end ELSE m[c].prev
      /\ \A c \in DNodes : c \notin {h, first, last, end} => w[c] = m[c]
  <2>1. end # last /\ h # first
    BY <1>2, <1>8
  <2> QED
    <3> DEFINE m1 == [m EXCEPT ![last].next = h]
               m2 == [m1 EXCEPT ![first].prev = end]
               m3 == [m2 EXCEPT ![end].next = first]
    <3>1. /\ m1 \in Mems /\ \A c \in DNodes : c # last => m1[c] = m[c]
          /\ \A c \in DNodes : m1[c].prev = m[c].prev /\ m1[c].next = IF c = last THEN h ELSE m[c].next
      BY <1>1 DEF Mems, Addrs
    <3>2. w = [m3 EXCEPT ![h].prev = last]
      BY <1>3
    <3> HIDE DEF m1
    <3>3. /\ m2 \in Mems /\ \A c \in DNodes : c # first => m2[c] = m1[c]
          /\ \A c \in DNodes : m2[c].next = m1[c].next /\ m2[c].prev = IF c = first THEN end ELSE m1[c].prev
      BY <1>1, <3>1 DEF Mems, Addrs
    <3> HIDE DEF m2
    <3>4. /\ m3 \in Mems /\ \A c \in DNodes : c # end => m3[c] = m2[c]
          /\ \A c \in DNodes : m3[c].prev = m2[c].prev /\ m3[c].next = IF c = end THEN first ELSE m2[c].next
      BY <1>1, <3>3 DEF Mems, Addrs
    <3> HIDE DEF m3
    <3>5. /\ w \in Mems /\ \A c \in DNodes : c # h => w[c] = m3[c]
          /\ \A c \in DNodes : w[c].next = m3[c].next /\ w[c].prev = IF c = h THEN last ELSE m3[c].prev
      BY <1>1, <3>2, <3>4 DEF Mems, Addrs
    <3> HIDE DEF w
    <3> QED
      BY <2>1, <3>1, <3>3, <3>4, <3>5
<1> HIDE DEF w
<1>10. r \in [0..n + l + 1 -> DNodes] /\ r[n + l + 1] = r[0]
  <2>1. \A i \in 0..n + l + 1 : r[i] \in DNodes
    BY <1>1, <1>5, <1>6
  <2>2. r = [i \in 0..n + l + 1 |-> r[i]]
    BY DEF Joined, r
  <2>3. r[n + l + 1] = h /\ r[0] = h
    BY <1>5, <1>8
  <2> QED
    BY <2>1, <2>2, <2>3
<1>11. \A i, j \in 0..n + l : i # j => r[i] # r[j]
  <2>1. ASSUME NEW i \in 0..n + l, NEW j \in 0..n + l, i # j
        PROVE  r[i] # r[j]
    <3>1. r[i] = (IF i <= n THEN a[i] ELSE b[i - n]) /\ r[j] = (IF j <= n THEN a[j] ELSE b[j - n])
      BY <1>5
    <3>2. (i > n => i - n \in 0..l) /\ (j > n => j - n \in 0..l) /\ i - n # j - n
      BY <2>1
    <3> QED
      BY <1>2, <1>6, <2>1, <3>1, <3>2
  <2> QED
    BY <2>1
<1>12. ASSUME NEW i \in 0..n + l
       PROVE  w[r[i]].next = r[i + 1] /\ w[r[i + 1]].prev = r[i]
  <2>1. CASE i < n
    <3>1. r[i] = a[i] /\ r[i + 1] = a[i + 1] /\ i \in 0..n - 1 /\ i + 1 \in 0..n /\ i \in 0..n
      BY <1>5, <2>1
    <3>2. a[i] # end /\ a[i + 1] # h /\ a[i] # last /\ a[i + 1] # first
      BY <1>2, <1>6, <1>8, <2>1, <3>1
    <3> QED
      BY <1>6, <1>7, <1>9, <3>1, <3>2
  <2>2. CASE i = n
    <3>1. r[i] = end /\ r[i + 1] = first
      <4>1. n + 1 - n = 1 /\ n + 1 <= n + l /\ ~(n + 1 <= n)
        OBVIOUS
      <4> QED
        BY <1>5, <1>8, <2>2, <4>1
    <3>2. first # h
      BY <1>2, <1>8
    <3> QED
      BY <1>1, <1>9, <3>1, <3>2
  <2>3. CASE i > n /\ i < n + l
    <3>1. r[i] = b[i - n] /\ r[i + 1] = b[i - n + 1] /\ i - n \in 1..l - 1 /\ i - n + 1 \in 2..l
      <4>1. i + 1 - n = i - n + 1
        OBVIOUS
      <4> QED
        BY <1>5, <2>3, <4>1
    <3> DEFINE k == i - n
    <3>2. k \in 1..l - 1 /\ k \in 0..l /\ k + 1 \in 0..l /\ r[i] = b[k] /\ r[i + 1] = b[k + 1] /\ k + 1 # 1 /\ k # l
      BY <3>1
    <3> HIDE DEF k
    <3>3. b[k] # end /\ b[k + 1] # h /\ b[k] # last /\ b[k + 1] # first
      BY <1>2, <1>6, <1>8, <3>2
    <3> QED
      BY <1>6, <1>7, <1>9, <3>2, <3>3
  <2>4. CASE i = n + l
    <3>1. r[i] = last /\ r[i + 1] = h
      <4>1. n + l - n = l /\ ~(n + l <= n)
        OBVIOUS
      <4> QED
        BY <1>5, <1>8, <2>4, <4>1
    <3>2. last # end
      BY <1>2, <1>8
    <3> QED
      BY <1>1, <1>9, <3>1, <3>2
  <2> QED
    BY <2>1, <2>2, <2>3, <2>4
<1>13. Ring(w, r, n + l)
  BY <1>10, <1>11, <1>12 DEF Ring, IsRing, Linked
<1>14. \A c \in DNodes : ~On(a, n, c) /\ ~On(b, l, c) => w[c] = m[c]
  BY <1>4, <1>9
<1> QED
  BY <1>9, <1>13, <1>14 DEF w, r, h

-----------------------------------------------------------------------------
(* Traversals.                                                             *)

\* The nodes of a list with the objects of s.
RingOf(h, s) == [i \in 0..Len(s) + 1 |-> IF i \in 1..Len(s) THEN s[i] ELSE h]

Met(from, D, A, link, h, stop) ==
  from = [n \in Nat |->
           [c \in A |->
             IF n = 0 \/ c = h \/ c \notin D THEN << >>
             ELSE IF c \in stop THEN <<c>> ELSE <<c>> \o from[n - 1][link[c]]]]

\* What is met is a sequence of nodes, of D; A are the addresses links may hold.
LEMMA MetIsSequence ==
  ASSUME NEW D, NEW A, D \subseteq A, NEW link \in [D -> A], NEW h, NEW stop
  PROVE  /\ \E from : Met(from, D, A, link, h, stop)
         /\ \A from : Met(from, D, A, link, h, stop) => \A n \in Nat : from[n] \in [A -> Seq(D)]
<1> DEFINE Walks == [A -> Seq(D)]
           Next1(x) == [c \in A |-> IF c = h \/ c \notin D THEN << >>
                                         ELSE IF c \in stop THEN <<c>> ELSE <<c>> \o x[link[c]]]
           Zero0 == [c \in A |-> << >>]
<1>1. Zero0 \in Walks
  OBVIOUS
<1>2. ASSUME NEW x \in Walks
      PROVE  Next1(x) \in Walks
  <2>1. ASSUME NEW c \in D
        PROVE  <<c>> \in Seq(D) /\ <<c>> \o x[link[c]] \in Seq(D)
    <3>1. x[link[c]] \in Seq(D) /\ <<c>> \in Seq(D)
      OBVIOUS
    <3> QED
      BY <3>1, ConcatProperties
  <2> QED
    BY <2>1
<1>3. ASSUME NEW from
      PROVE  Met(from, D, A, link, h, stop) <=> from = [n \in Nat |-> IF n = 0 THEN Zero0 ELSE Next1(from[n - 1])]
  <2>1. ASSUME NEW n \in Nat
        PROVE  [c \in A |->
                 IF n = 0 \/ c = h \/ c \notin D THEN << >>
                 ELSE IF c \in stop THEN <<c>> ELSE <<c>> \o from[n - 1][link[c]]]
               = IF n = 0 THEN Zero0 ELSE Next1(from[n - 1])
    <3>1. CASE n = 0
      BY <3>1
    <3>2. CASE n # 0
      BY <3>2
    <3> QED
      BY <3>1, <3>2
  <2> HIDE DEF Zero0, Next1
  <2> QED
    BY <2>1 DEF Met
<1> HIDE DEF Walks, Next1, Zero0
<1>4. \E from : Met(from, D, A, link, h, stop)
  <2> DEFINE Base == {0}
             down == [n \in Nat |-> n - 1]
             start == [n \in Base |-> Zero0]
             step == [n \in Nat |-> [x \in Walks |-> Next1(x)]]
  <2>1. Descends(Base, down)
    BY DEF Descends
  <2>2. (\A n \in Base : start[n] \in Walks) /\ \A n \in Nat, x \in Walks : step[n][x] \in Walks
    BY <1>1, <1>2
  <2>3. PICK f \in [Nat -> Walks] : Recurs(f, Nat, Base, start, down, step)
    <3> HIDE DEF Base, down, start, step
    <3> QED
      BY <2>1, <2>2, DescendingRecursion
  <2>4. ASSUME NEW n \in Nat
        PROVE  f[n] = IF n = 0 THEN Zero0 ELSE Next1(f[n - 1])
    <3>1. f[n] = IF n \in Base THEN start[n] ELSE step[n][f[down[n]]]
      BY <2>3 DEF Recurs
    <3>2. CASE n = 0
      BY <3>1, <3>2
    <3>3. CASE n # 0
      <4>1. n - 1 \in Nat
        BY <3>3
      <4>2. f[n - 1] \in Walks
        BY <2>3, <4>1
      <4> QED
        BY <3>1, <3>3, <4>2
    <3> QED
      BY <3>2, <3>3
  <2>5. f = [n \in Nat |-> f[n]]
    BY <2>3
  <2>6. f = [n \in Nat |-> IF n = 0 THEN Zero0 ELSE Next1(f[n - 1])]
    BY <2>4, <2>5
  <2> QED
    BY <1>3, <2>6
<1>5. ASSUME NEW from, Met(from, D, A, link, h, stop)
      PROVE  \A n \in Nat : from[n] \in Walks
  <2> DEFINE S == {n \in Nat : from[n] \in Walks}
  <2>1. \A n \in Nat : from[n] = IF n = 0 THEN Zero0 ELSE Next1(from[n - 1])
    <3>1. from = [n \in Nat |-> IF n = 0 THEN Zero0 ELSE Next1(from[n - 1])]
      BY <1>3, <1>5
    <3> QED
      BY <3>1
  <2>2. 0 \in S
    BY <1>1, <2>1
  <2>3. \A n \in Nat : n \in S => n + 1 \in S
    <3>1. \A n \in Nat : n + 1 \in Nat /\ n + 1 # 0 /\ n + 1 - 1 = n
      OBVIOUS
    <3> QED
      BY <1>2, <2>1, <3>1
  <2> HIDE DEF S
  <2>4. Nat \subseteq S
    BY <2>2, <2>3, NatSetInduction
  <2> QED
    BY <2>4 DEF S
<1> QED
  BY <1>4, <1>5 DEF Walks

MetInTurn(from, D, r, s, L, h, stop) ==
  /\ \A n \in Nat : from[n][h] = << >>
  /\ \A n \in Nat, i \in 1..L : n # 0 =>
       from[n][r[i]] = IF s[i] \in stop THEN <<s[i]>> ELSE <<s[i]>> \o from[n - 1][r[i + 1]]
  /\ \A n \in Nat, i \in 1..L + 1 : from[n][r[i]] \in Seq(D)
\* The nodes of s, no more than N, each linked to the next and the last one to h.
Leads(D, A, link, r, s, h, N) ==
  /\ D \subseteq A /\ link \in [D -> A] /\ h \in A /\ s \in Seq(D)
  /\ N \in Nat /\ Len(s) <= N /\ r[Len(s) + 1] = h
  /\ \A i \in 1..Len(s) : r[i] = s[i] /\ s[i] # h /\ link[s[i]] = r[i + 1]

\* Where links lead through the nodes of s to h, s is met; and with a node to
\* stop at, it is met if it is one of s.
LEMMA MetThrough ==
  ASSUME NEW D, NEW A, NEW link, NEW h, NEW s, NEW r, NEW N, Leads(D, A, link, r, s, h, N),
         NEW stop, NEW from, Met(from, D, A, link, h, stop)
  PROVE  /\ stop = {} => from[N][r[1]] = s
         /\ \A t \in D : stop = {t} => (t \in ToSet(from[N][r[1]]) <=> t \in ToSet(s))
<1> DEFINE L == Len(s)
<1>0. D \subseteq A /\ link \in [D -> A] /\ h \in A /\ s \in Seq(D) /\ N \in Nat
  BY DEF Leads
<1>1. L \in Nat /\ L <= N /\ N \in Nat
  BY <1>0, LenProperties DEF Leads
<1>2. /\ r[L + 1] = h
      /\ \A i \in 1..L : r[i] = s[i] /\ s[i] \in D /\ s[i] # h /\ link[s[i]] = r[i + 1]
  <2>1. \A i \in 1..L : s[i] \in D
    BY <1>0, ElementOfSeq
  <2> QED
    BY <1>1, <2>1 DEF Leads
<1> HIDE DEF L
<1>3. MetInTurn(from, D, r, s, L, h, stop)
  <2>1. \A n \in Nat, c \in D :
           from[n][c] = IF n = 0 \/ c = h THEN << >>
                        ELSE IF c \in stop THEN <<c>> ELSE <<c>> \o from[n - 1][link[c]]
    <3> SUFFICES ASSUME NEW n \in Nat, NEW c \in D
                 PROVE  from[n][c] = IF n = 0 \/ c = h THEN << >>
                                     ELSE IF c \in stop THEN <<c>> ELSE <<c>> \o from[n - 1][link[c]]
      OBVIOUS
    <3>1. from[n] = [d \in A |->
                      IF n = 0 \/ d = h \/ d \notin D THEN << >>
                      ELSE IF d \in stop THEN <<d>> ELSE <<d>> \o from[n - 1][link[d]]]
      BY DEF Met
    <3>2. c \in A
      BY <1>0
    <3> QED
      BY <3>1, <3>2
  <2>3. \A n \in Nat : from[n] \in [A -> Seq(D)]
    BY <1>0, MetIsSequence
  <2>4. \A n \in Nat, i \in 1..L + 1 : from[n][r[i]] \in Seq(D)
    <3>1. \A i \in 1..L + 1 : r[i] \in A
      <4>1. \A i \in 1..L + 1 : i \in 1..L \/ i = L + 1
        BY <1>1
      <4> QED
        BY <1>0, <1>2, <4>1
    <3> QED
      BY <2>3, <3>1
  <2>5. ASSUME NEW n \in Nat
        PROVE  from[n][h] = << >>
    <3>1. from[n] = [d \in A |->
                      IF n = 0 \/ d = h \/ d \notin D THEN << >>
                      ELSE IF d \in stop THEN <<d>> ELSE <<d>> \o from[n - 1][link[d]]]
      BY DEF Met
    <3> QED
      BY <1>0, <3>1
  <2>6. ASSUME NEW n \in Nat, NEW i \in 1..L, n # 0
        PROVE  from[n][r[i]] = IF s[i] \in stop THEN <<s[i]>> ELSE <<s[i]>> \o from[n - 1][r[i + 1]]
    <3>1. r[i] = s[i] /\ s[i] \in D /\ s[i] # h /\ link[s[i]] = r[i + 1]
      BY <1>2
    <3> QED
      BY <2>1, <2>6, <3>1
  <2> QED
    BY <2>4, <2>5, <2>6 DEF MetInTurn
<1>5. ASSUME stop = {}
      PROVE  from[N][r[1]] = s
  <2>7. /\ \A n \in Nat : from[n][h] = << >>
        /\ \A n \in Nat, i \in 1..L : n # 0 => from[n][r[i]] = <<s[i]>> \o from[n - 1][r[i + 1]]
    BY <1>3, <1>5 DEF MetInTurn
  <2> DEFINE S == {i \in 0..L : \A n \in Nat : i <= n => from[n][r[L + 1 - i]] = SubSeq(s, L + 1 - i, L)}
  <2>2. 0 \in S
    <3>1. SubSeq(s, L + 1, L) = << >>
      BY <1>0, <1>1, SubSeqEmpty
    <3>2. L + 1 - 0 = L + 1
      BY <1>1
    <3>3. r[L + 1 - 0] = h /\ SubSeq(s, L + 1 - 0, L) = << >>
      BY <1>2, <3>1, <3>2
    <3>4. 0 \in 0..L
      BY <1>1
    <3>5. \A n \in Nat : 0 <= n => from[n][r[L + 1 - 0]] = SubSeq(s, L + 1 - 0, L)
      BY <2>7, <3>3
    <3> QED
      BY <3>4, <3>5
  <2>3. ASSUME NEW i \in 1..L, i - 1 \in S
        PROVE  i \in S
    <3> DEFINE k == L + 1 - i
    <3>1. k \in 1..L /\ L + 1 - (i - 1) = k + 1
      BY <1>1
    <3>2. ASSUME NEW n \in Nat, i <= n
          PROVE  from[n][r[k]] = SubSeq(s, k, L)
      <4>1. n - 1 \in Nat /\ i - 1 <= n - 1 /\ n # 0
        BY <3>2
      <4>2. from[n - 1][r[k + 1]] = SubSeq(s, k + 1, L)
        BY <2>3, <3>1, <4>1
      <4>3. from[n][r[k]] = <<s[k]>> \o from[n - 1][r[k + 1]]
        BY <2>7, <3>1, <4>1
      <4>4. <<s[k]>> \o SubSeq(s, k + 1, L) = SubSeq(s, k, L)
        <5> HIDE DEF k
        <5>1. k \in 1..L + 1 /\ k - 1 <= k /\ k \in k - 1..L /\ k \in Int
          BY <1>1, <3>1
        <5>2. SubSeq(s, k, k) = <<s[k]>>
          <6> DEFINE q == SubSeq(s, k, k)
          <6>1. \A e \in k..k : s[e] \in D
            BY <1>2, <3>1
          <6>2. k - k + 1 = 1 /\ k + 1 - 1 = k /\ k <= k
            BY <5>1
          <6>3. /\ q \in Seq(D) /\ Len(q) = IF k <= k THEN k - k + 1 ELSE 0
                /\ \A e \in 1..k - k + 1 : q[e] = s[k + e - 1]
            BY <5>1, <6>1, SubSeqProperties
          <6> HIDE DEF q
          <6>4. Len(q) = 1 /\ q[1] = s[k]
            BY <6>2, <6>3
          <6>5. <<s[k]>> \in Seq(D) /\ Len(<<s[k]>>) = 1
            BY <1>2, <3>1
          <6>6. \A e \in 1..Len(q) : q[e] = <<s[k]>>[e]
            BY <6>4
          <6>7. q = <<s[k]>>
            BY <6>3, <6>4, <6>5, <6>6, SeqEqual
          <6> QED
            BY <6>7 DEF q
        <5>3. SubSeq(s, k, k) \o SubSeq(s, k + 1, L) = SubSeq(s, k, L)
          BY <1>0, <1>1, <3>1, <5>1, ConcatAdjacentSubSeq DEF L
        <5> QED
          BY <5>2, <5>3
      <4> QED
        BY <4>2, <4>3, <4>4
    <3> QED
      BY <1>1, <3>2
  <2> HIDE DEF S
  <2>4. L \in S
    <3>1. 0..L \subseteq S
      BY <1>1, <2>2, <2>3, IntervalInduction
    <3> QED
      BY <1>1, <3>1
  <2>5. L + 1 - L = 1 /\ N \in Nat /\ L <= N
    BY <1>1
  <2>6. from[N][r[1]] = SubSeq(s, 1, L)
    BY <2>4, <2>5 DEF S
  <2> QED
    BY <1>0, <2>6, SubSeqFull DEF L
<1>6. ASSUME NEW t \in D, stop = {t}
      PROVE  t \in ToSet(from[N][r[1]]) <=> t \in ToSet(s)
  <2>8. MetInTurn(from, D, r, s, L, h, {t})
    BY <1>3, <1>6
  <2> DEFINE S == {i \in 0..L : \A n \in Nat : i <= n =>
                     (t \in ToSet(from[n][r[L + 1 - i]]) <=> \E j \in L + 1 - i..L : s[j] = t)}
  <2>2. 0 \in S
    <3>1. ToSet(<< >>) = {} /\ L + 1 - 0 = L + 1 /\ L + 1..L = {}
      BY <1>1 DEF ToSet
    <3> QED
      BY <1>1, <1>2, <2>8, <3>1 DEF MetInTurn
  <2>3. ASSUME NEW i \in 1..L, i - 1 \in S
        PROVE  i \in S
    <3> DEFINE k == L + 1 - i
    <3>1. k \in 1..L /\ L + 1 - (i - 1) = k + 1 /\ k + 1 \in 1..L + 1
      BY <1>1
    <3>2. ASSUME NEW n \in Nat, i <= n
          PROVE  t \in ToSet(from[n][r[k]]) <=> \E j \in k..L : s[j] = t
      <4>1. n - 1 \in Nat /\ i - 1 <= n - 1 /\ n # 0
        BY <3>2
      <4>2. t \in ToSet(from[n - 1][r[k + 1]]) <=> \E j \in k + 1..L : s[j] = t
        BY <2>3, <3>1, <4>1
      <4>3. from[n][r[k]] = IF s[k] \in {t} THEN <<s[k]>> ELSE <<s[k]>> \o from[n - 1][r[k + 1]]
        BY <2>8, <3>1, <4>1 DEF MetInTurn
      <4>4. from[n - 1][r[k + 1]] \in Seq(D)
        BY <2>8, <3>1, <4>1 DEF MetInTurn
      <4>5. CASE s[k] = t
        <5>1. ToSet(<<s[k]>>) = {s[k]}
          BY DEF ToSet
        <5> HIDE DEF k
        <5>2. k \in k..L
          BY <1>1, <3>1
        <5> QED
          BY <4>3, <4>5, <5>1, <5>2
      <4>6. CASE s[k] # t
        <5> DEFINE q == from[n - 1][r[k + 1]]
        <5>1. from[n][r[k]] = <<s[k]>> \o q
          BY <4>3, <4>6
        <5> HIDE DEF q
        <5>2. t \in ToSet(<<s[k]>> \o q) <=> t \in ToSet(q)
          <6>1. q \in Seq(D) /\ <<s[k]>> \in Seq(D) /\ Len(<<s[k]>>) = 1
            BY <1>2, <3>1, <4>4 DEF q
          <6>2. /\ <<s[k]>> \o q \in Seq(D) /\ Len(<<s[k]>> \o q) = 1 + Len(q) /\ Len(q) \in Nat
                /\ \A e \in 1..1 + Len(q) : (<<s[k]>> \o q)[e] = IF e <= 1 THEN <<s[k]>>[e] ELSE q[e - 1]
            BY <6>1, ConcatProperties, LenProperties
          <6>3. \A e \in 1..Len(q) : (<<s[k]>> \o q)[e + 1] = q[e]
            BY <6>2
          <6>4. \A e \in 1..1 + Len(q) : e # 1 => e - 1 \in 1..Len(q) /\ (<<s[k]>> \o q)[e] = q[e - 1]
            BY <6>2
          <6>5. (<<s[k]>> \o q)[1] = s[k]
            BY <6>2
          <6>6. DOMAIN q = 1..Len(q) /\ DOMAIN (<<s[k]>> \o q) = 1..1 + Len(q)
            BY <6>1, <6>2
          <6>7. ASSUME NEW e \in 1..Len(q)
                PROVE  e + 1 \in 1..1 + Len(q)
            BY <6>2
          <6> DEFINE u == <<s[k]>> \o q
          <6>8. 1 \in 1..1 + Len(q)
            BY <6>2
          <6> HIDE DEF u, k
          <6>9. ASSUME t \in ToSet(u)
                PROVE  t \in ToSet(q)
            <7>1. PICK e \in 1..1 + Len(q) : u[e] = t
              BY <6>6, <6>9 DEF ToSet, u
            <7>2. e - 1 \in 1..Len(q) /\ t = q[e - 1]
              BY <4>6, <6>4, <6>5, <7>1 DEF u
            <7> QED
              BY <6>6, <7>2 DEF ToSet
          <6>10. ASSUME t \in ToSet(q)
                 PROVE  t \in ToSet(u)
            <7>1. PICK e \in 1..Len(q) : q[e] = t
              BY <6>6, <6>10 DEF ToSet
            <7>2. e + 1 \in 1..1 + Len(q) /\ u[e + 1] = t
              BY <6>3, <6>7, <7>1 DEF u
            <7> QED
              BY <6>6, <7>2 DEF ToSet, u
          <6> QED
            BY <6>9, <6>10 DEF u
        <5>3. (\E j \in k..L : s[j] = t) <=> \E j \in k + 1..L : s[j] = t
          <6> HIDE DEF k
          <6>1. \A j \in k..L : j = k \/ j \in k + 1..L
            BY <3>1, <1>1
          <6>2. \A j \in k + 1..L : j \in k..L
            BY <3>1, <1>1
          <6> QED
            BY <4>6, <6>1, <6>2
        <5> QED
          BY <4>2, <5>1, <5>2, <5>3 DEF q
      <4> QED
        BY <4>5, <4>6
    <3> QED
      BY <1>1, <3>2
  <2> HIDE DEF S
  <2>4. L \in S
    <3>1. 0..L \subseteq S
      BY <1>1, <2>2, <2>3, IntervalInduction
    <3> QED
      BY <1>1, <3>1
  <2>5. L + 1 - L = 1 /\ N \in Nat /\ L <= N
    BY <1>1
  <2>6. t \in ToSet(from[N][r[1]]) <=> \E j \in 1..L : s[j] = t
    BY <2>4, <2>5 DEF S
  <2>7. t \in ToSet(s) <=> \E j \in 1..L : s[j] = t
    BY <1>0 DEF ToSet, L
  <2> QED
    BY <2>6, <2>7
<1> QED
  BY <1>5, <1>6

\* Along a link that leads through the objects of s and back to the head, s is
\* met; and with an object to stop at, it is met if it is one of s.
LEMMA MetAlong ==
  ASSUME NEW link \in [DNodes -> Addrs], NEW h \in DNodes, NEW s \in Seq(DNodes),
         \A i \in 1..Len(s) : s[i] # h,
         \A i \in 0..Len(s) : link[RingOf(h, s)[i]] = RingOf(h, s)[i + 1],
         Len(s) <= Cardinality(DNodes), Cardinality(DNodes) \in Nat, NEW t \in DNodes
  PROVE  Along(link, h, {}) = s /\ (t \in ToSet(Along(link, h, {t})) <=> t \in ToSet(s))
<1> DEFINE L == Len(s)
           r == RingOf(h, s)
           N == Cardinality(DNodes)
<1>1. L \in Nat /\ DNodes \subseteq Addrs /\ N \in Nat /\ L <= N
  BY LenProperties DEF Addrs
<1>2. r[0] = h /\ r[L + 1] = h /\ \A i \in 1..L : r[i] = s[i]
  BY <1>1 DEF RingOf
<1>3. Leads(DNodes, Addrs, link, r, s, h, N) /\ link[h] = r[1]
  <2>1. 0 \in 0..L /\ 0 + 1 = 1 /\ \A i \in 1..L : i \in 0..L
    BY <1>1
  <2> HIDE DEF r
  <2> QED
    BY <1>1, <1>2, <2>1 DEF Leads, r
<1> HIDE DEF r, N
<1>4. \A stop : \E from : Met(from, DNodes, Addrs, link, h, stop) /\ Along(link, h, stop) = from[N][r[1]]
  <2> SUFFICES ASSUME NEW stop
               PROVE  \E from : Met(from, DNodes, Addrs, link, h, stop) /\ Along(link, h, stop) = from[N][r[1]]
    OBVIOUS
  <2> DEFINE from == CHOOSE f : Met(f, DNodes, Addrs, link, h, stop)
  <2>1. Met(from, DNodes, Addrs, link, h, stop)
    BY <1>1, MetIsSequence
  <2>2. Along(link, h, stop) = from[N][link[h]]
    BY DEF Along, Met, N, Addrs
  <2> HIDE DEF from
  <2> QED
    BY <1>3, <2>1, <2>2
<1> HIDE DEF L
<1>5. Along(link, h, {}) = s
  <2>1. PICK from : Met(from, DNodes, Addrs, link, h, {}) /\ Along(link, h, {}) = from[N][r[1]]
    BY <1>4
  <2>2. from[N][r[1]] = s
    BY <1>3, <2>1, MetThrough
  <2> QED
    BY <2>1, <2>2
<1>6. t \in ToSet(Along(link, h, {t})) <=> t \in ToSet(s)
  <2>1. PICK from : Met(from, DNodes, Addrs, link, h, {t}) /\ Along(link, h, {t}) = from[N][r[1]]
    BY <1>4
  <2>2. t \in ToSet(from[N][r[1]]) <=> t \in ToSet(s)
    BY <1>3, <2>1, MetThrough
  <2> QED
    BY <2>1, <2>2
<1> QED
  BY <1>5, <1>6

-----------------------------------------------------------------------------
(* Lists as sequences.                                                     *)

\* Of a sequence with x put in behind its place k.
IsGrown(S, u, s, k, x) ==
  /\ u \in Seq(S) /\ Len(u) = Len(s) + 1
  /\ \A i \in 1..Len(s) + 1 : u[i] = IF i <= k THEN s[i] ELSE IF i = k + 1 THEN x ELSE s[i - 1]
\* So it is in front, at the end and between.
LEMMA PutIn ==
  ASSUME NEW S, NEW s \in Seq(S), NEW x \in S
  PROVE  /\ IsGrown(S, <<x>> \o s, s, 0, x) /\ IsGrown(S, Append(s, x), s, Len(s), x)
         /\ \A k \in 0..Len(s) : IsGrown(S, InsertAt(s, k + 1, x), s, k, x)
<1>0. Len(s) \in Nat /\ <<x>> \in Seq(S) /\ Len(<<x>>) = 1 /\ <<x>>[1] = x
  BY LenProperties
<1>1. IsGrown(S, <<x>> \o s, s, 0, x)
  <2>1. /\ <<x>> \o s \in Seq(S) /\ Len(<<x>> \o s) = 1 + Len(s)
        /\ \A i \in 1..1 + Len(s) : (<<x>> \o s)[i] = IF i <= 1 THEN <<x>>[i] ELSE s[i - 1]
    BY <1>0, ConcatProperties
  <2> DEFINE u == <<x>> \o s
  <2>2. \A i \in 1..Len(s) + 1 : u[i] = IF i <= 0 THEN s[i] ELSE IF i = 0 + 1 THEN x ELSE s[i - 1]
    BY <1>0, <2>1
  <2>3. u \in Seq(S) /\ Len(u) = Len(s) + 1
    BY <1>0, <2>1
  <2> HIDE DEF u
  <2>4. IsGrown(S, u, s, 0, x)
    BY <2>2, <2>3 DEF IsGrown
  <2> QED
    BY <2>4 DEF u
<1>2. IsGrown(S, Append(s, x), s, Len(s), x)
  <2>1. /\ Append(s, x) \in Seq(S) /\ Len(Append(s, x)) = Len(s) + 1
        /\ \A i \in 1..Len(s) : Append(s, x)[i] = s[i]
        /\ Append(s, x)[Len(s) + 1] = x
    BY AppendProperties
  <2> DEFINE u == Append(s, x)
  <2> HIDE DEF u
  <2>2. \A i \in 1..Len(s) + 1 : u[i] = IF i <= Len(s) THEN s[i] ELSE IF i = Len(s) + 1 THEN x ELSE s[i - 1]
    BY <1>0, <2>1 DEF u
  <2>3. IsGrown(S, u, s, Len(s), x)
    BY <2>1, <2>2 DEF IsGrown, u
  <2> QED
    BY <2>3 DEF u
<1>3. ASSUME NEW k \in 0..Len(s)
      PROVE  IsGrown(S, InsertAt(s, k + 1, x), s, k, x)
  <2> DEFINE n == Len(s)
             a == SubSeq(s, 1, k)
             b == SubSeq(s, k + 1, n)
             c == a \o <<x>>
             u == c \o b
  <2>0. k + 1 - 1 = k /\ k \in Int /\ n \in Nat /\ \A i \in 1..n : s[i] \in S
    BY <1>0
  <2>1. a \in Seq(S) /\ Len(a) = k /\ \A i \in 1..k : a[i] = s[i]
    <3>1. \A i \in 1..k : s[i] \in S
      BY <2>0
    <3>2. /\ a \in Seq(S) /\ Len(a) = IF 1 <= k THEN k - 1 + 1 ELSE 0
          /\ \A i \in 1..k - 1 + 1 : a[i] = s[1 + i - 1]
      BY <2>0, <3>1, SubSeqProperties
    <3> HIDE DEF a
    <3> QED
      BY <2>0, <3>2
  <2>2. b \in Seq(S) /\ Len(b) = n - k /\ \A i \in 1..n - k : b[i] = s[k + i]
    <3>1. \A i \in k + 1..n : s[i] \in S
      BY <2>0
    <3>2. /\ b \in Seq(S) /\ Len(b) = IF k + 1 <= n THEN n - (k + 1) + 1 ELSE 0
          /\ \A i \in 1..n - (k + 1) + 1 : b[i] = s[k + 1 + i - 1]
      BY <2>0, <3>1, SubSeqProperties
    <3> HIDE DEF b, n
    <3> QED
      BY <2>0, <3>2 DEF n
  <2>3. InsertAt(s, k + 1, x) = u
    <3> DEFINE p == k + 1
    <3>1. p - 1 = k
      BY <2>0
    <3> HIDE DEF p, a, b, c, u, n
    <3>2. InsertAt(s, p, x) = SubSeq(s, 1, p - 1) \o <<x>> \o SubSeq(s, p, Len(s))
      BY DEF InsertAt
    <3> QED
      BY <3>1, <3>2 DEF p, a, b, c, u, n
  <2> HIDE DEF a, b, n
  <2>4. /\ c \in Seq(S) /\ Len(c) = k + 1
        /\ \A i \in 1..k + 1 : c[i] = IF i <= k THEN a[i] ELSE <<x>>[i - k]
    BY <1>0, <2>1, ConcatProperties
  <2> HIDE DEF c
  <2>5. /\ u \in Seq(S) /\ Len(u) = k + 1 + (n - k)
        /\ \A i \in 1..k + 1 + (n - k) : u[i] = IF i <= k + 1 THEN c[i] ELSE b[i - (k + 1)]
    <3>1. /\ c \o b \in Seq(S) /\ Len(c \o b) = Len(c) + Len(b)
          /\ \A i \in 1..Len(c) + Len(b) : (c \o b)[i] = IF i <= Len(c) THEN c[i] ELSE b[i - Len(c)]
      BY <2>2, <2>4, ConcatProperties
    <3> QED
      BY <2>2, <2>4, <3>1
  <2> HIDE DEF u
  <2>6. k + 1 + (n - k) = n + 1
    BY <2>0
  <2>7. ASSUME NEW i \in 1..n + 1
        PROVE  u[i] = IF i <= k THEN s[i] ELSE IF i = k + 1 THEN x ELSE s[i - 1]
    <3>1. CASE i <= k
      BY <2>0, <2>1, <2>4, <2>5, <2>6, <3>1
    <3>2. CASE i = k + 1
      <4>1. k + 1 - k = 1
        BY <2>0
      <4> QED
        BY <1>0, <2>0, <2>4, <2>5, <2>6, <3>2, <4>1
    <3>3. CASE i > k + 1
      <4>1. i - (k + 1) \in 1..n - k /\ k + (i - (k + 1)) = i - 1 /\ ~(i <= k + 1)
        BY <2>0, <3>3
      <4>2. u[i] = b[i - (k + 1)]
        BY <2>5, <2>6, <4>1
      <4> QED
        BY <2>2, <3>3, <4>1, <4>2
    <3> QED
      BY <2>0, <3>1, <3>2, <3>3
  <2>8. IsGrown(S, u, s, k, x)
    BY <2>5, <2>6, <2>7 DEF IsGrown, n
  <2> QED
    BY <2>3, <2>8
<1> QED
  BY <1>1, <1>2, <1>3

\* What is on the ring of a sequence.
LEMMA OnRing ==
  ASSUME NEW h \in DNodes, NEW s \in Seq(Objs)
  PROVE  /\ RingOf(h, s) \in [0..Len(s) + 1 -> DNodes] /\ Len(s) \in Nat
         /\ RingOf(h, s)[0] = h /\ RingOf(h, s)[Len(s) + 1] = h
         /\ \A i \in 1..Len(s) : RingOf(h, s)[i] = s[i] /\ s[i] \in Objs
         /\ \A c : On(RingOf(h, s), Len(s), c) <=> c = h \/ c \in ToSet(s)
         /\ \A c : c \in ToSet(s) <=> \E i \in 1..Len(s) : s[i] = c
<1> DEFINE n == Len(s)
           r == RingOf(h, s)
<1>1. n \in Nat /\ \A i \in 1..n : s[i] \in Objs
  BY LenProperties
<1>2. DOMAIN s = 1..n
  OBVIOUS
<1> HIDE DEF n
<1>3. \A c : c \in ToSet(s) <=> \E i \in 1..n : s[i] = c
  BY <1>2 DEF ToSet
<1>4. r = [i \in 0..n + 1 |-> IF i \in 1..n THEN s[i] ELSE h]
  BY DEF RingOf, n
<1> HIDE DEF r
<1>5. r[0] = h /\ r[n + 1] = h /\ \A i \in 1..n : r[i] = s[i]
  BY <1>1, <1>4
<1>6. r \in [0..n + 1 -> DNodes]
  BY <1>1, <1>4 DEF DNodes
<1>7. \A c : On(r, n, c) <=> c = h \/ c \in ToSet(s)
  <2>1. \A i \in 0..n : i = 0 \/ i \in 1..n
    BY <1>1
  <2>2. \A i \in 1..n : i \in 0..n
    BY <1>1
  <2>3. 0 \in 0..n
    BY <1>1
  <2> QED
    BY <1>3, <1>5, <2>1, <2>2, <2>3 DEF On
<1> QED
  BY <1>1, <1>3, <1>5, <1>6, <1>7 DEF n, r

\* A function on the same places with the same nodes is the ring.
Fits(b, h, s, n) ==
  /\ s \in Seq(Objs) /\ n \in Nat /\ n = Len(s) /\ b \in [0..n + 1 -> DNodes]
  /\ b[0] = h /\ b[n + 1] = h /\ \A i \in 1..n : b[i] = s[i]
\* There is no other such function than the ring.
LEMMA SameRing ==
  ASSUME NEW h \in DNodes, NEW s, NEW n, NEW b, Fits(b, h, s, n)
  PROVE  RingOf(h, s) = b
<1>1. RingOf(h, s) = [i \in 0..n + 1 |-> IF i \in 1..n THEN s[i] ELSE h]
  BY DEF RingOf, Fits
<1>2. \A i \in 0..n + 1 : b[i] = IF i \in 1..n THEN s[i] ELSE h
  <2>1. \A i \in 0..n + 1 : i = 0 \/ i = n + 1 \/ i \in 1..n
    BY DEF Fits
  <2> QED
    BY <2>1 DEF Fits
<1> QED
  BY <1>1, <1>2 DEF Fits

\* What a list has is at one of its places.
LEMMA InList ==
  ASSUME NEW s \in Seq(Objs)
  PROVE  \A c : c \in ToSet(s) <=> \E i \in 1..Len(s) : s[i] = c
BY DEF ToSet

\* The ring of a sequence that has grown is the ring grown.
LEMMA RingGrown ==
  ASSUME NEW h \in DNodes, NEW s \in Seq(Objs), NEW k \in 0..Len(s), NEW x \in Objs, NEW u, IsGrown(Objs, u, s, k, x)
  PROVE  /\ RingOf(h, u) = Grown(RingOf(h, s), Len(s), k, x)
         /\ \A c : c \in ToSet(u) <=> c = x \/ c \in ToSet(s)
<1> DEFINE n == Len(s)
           r == RingOf(h, s)
           b == Grown(r, n, k, x)
<1>1. /\ n \in Nat /\ r[0] = h /\ r[n + 1] = h
      /\ \A i \in 1..n : r[i] = s[i]
  BY OnRing
<1>2. /\ u \in Seq(Objs) /\ Len(u) = n + 1
      /\ \A i \in 1..n + 1 : u[i] = IF i <= k THEN s[i] ELSE IF i = k + 1 THEN x ELSE s[i - 1]
  BY DEF IsGrown
<1>3. /\ b = [i \in 0..n + 1 + 1 |-> b[i]]
      /\ \A i \in 0..n + 2 : b[i] = IF i <= k THEN r[i] ELSE IF i = k + 1 THEN x ELSE r[i - 1]
  <2> HIDE DEF n, r
  <2>1. n + 1 + 1 = n + 2
    BY <1>1
  <2> QED
    BY <2>1 DEF Grown
<1>4. k \in 0..n
  OBVIOUS
<1> HIDE DEF n, r, b
<1>5. b[0] = h /\ b[n + 1 + 1] = h /\ \A i \in 1..n + 1 : b[i] = u[i]
  <2>1. b[0] = h
    BY <1>1, <1>3, <1>4
  <2>2. b[n + 1 + 1] = h
    <3>1. n + 2 \in 0..n + 2 /\ n + 1 + 1 = n + 2 /\ n + 2 - 1 = n + 1 /\ ~(n + 2 <= k) /\ n + 2 # k + 1
      BY <1>1, <1>4
    <3> QED
      BY <1>1, <1>3, <3>1
  <2>3. ASSUME NEW i \in 1..n + 1
        PROVE  b[i] = u[i]
    <3>1. i \in 0..n + 2 /\ (i <= k => i \in 1..n) /\ (~(i <= k) /\ i # k + 1 => i - 1 \in 1..n)
      BY <1>1, <1>4
    <3> QED
      BY <1>1, <1>2, <1>3, <3>1
  <2> QED
    BY <2>1, <2>2, <2>3
<1>6. RingOf(h, u) = b
  <2> DEFINE N == n + 1
  <2>1. N \in Nat /\ N = Len(u)
    BY <1>1, <1>2
  <2>2. b \in [0..N + 1 -> DNodes] /\ b[0] = h /\ b[N + 1] = h /\ \A i \in 1..N : b[i] = u[i]
    <3>1. \A i \in 0..n + 1 + 1 : b[i] \in DNodes
      <4>1. \A i \in 0..n + 1 + 1 : i = 0 \/ i = n + 1 + 1 \/ i \in 1..n + 1
        BY <1>1
      <4>2. \A i \in 1..n + 1 : u[i] \in DNodes
        BY <1>2, ElementOfSeq DEF DNodes
      <4> QED
        BY <1>5, <4>1, <4>2
    <3> QED
      BY <1>3, <1>5, <3>1
  <2> HIDE DEF N
  <2> QED
    BY <1>2, <2>1, <2>2, SameRing DEF Fits
<1>7. ASSUME NEW c
      PROVE  c \in ToSet(u) <=> c = x \/ c \in ToSet(s)
  <2>1. /\ c \in ToSet(u) <=> \E i \in 1..n + 1 : u[i] = c
        /\ c \in ToSet(s) <=> \E i \in 1..n : s[i] = c
    <3>1. c \in ToSet(u) <=> \E i \in 1..Len(u) : u[i] = c
      BY <1>2, InList
    <3>2. c \in ToSet(s) <=> \E i \in 1..Len(s) : s[i] = c
      BY InList
    <3> QED
      BY <1>2, <3>1, <3>2 DEF n
  <2>2. \A i \in 1..n : \E j \in 1..n + 1 : u[j] = s[i]
    <3> SUFFICES ASSUME NEW i \in 1..n
                 PROVE  \E j \in 1..n + 1 : u[j] = s[i]
      OBVIOUS
    <3>1. CASE i <= k
      BY <1>1, <1>2, <3>1
    <3>2. CASE ~(i <= k)
      <4>1. i + 1 \in 1..n + 1 /\ ~(i + 1 <= k) /\ i + 1 # k + 1 /\ i + 1 - 1 = i
        BY <1>1, <1>4, <3>2
      <4> QED
        BY <1>2, <4>1
    <3> QED
      BY <3>1, <3>2
  <2>3. u[k + 1] = x /\ k + 1 \in 1..n + 1
    BY <1>1, <1>2, <1>4
  <2>4. \A i \in 1..n + 1 : u[i] = x \/ \E j \in 1..n : u[i] = s[j]
    BY <1>1, <1>2, <1>4
  <2> QED
    BY <2>1, <2>2, <2>3, <2>4
<1> QED
  BY <1>6, <1>7 DEF b, r, n

\* The ring of a sequence without its place k is the ring without its node k.
LEMMA RingCut ==
  ASSUME NEW h \in DNodes, NEW s \in Seq(Objs), NEW k \in 1..Len(s), NEW u \in Seq(Objs), Without(s, k, u)
  PROVE  /\ RingOf(h, u) = Cut(RingOf(h, s), Len(s), k) /\ Len(u) = Len(s) - 1
         /\ \A c : c \in ToSet(s) => c = s[k] \/ c \in ToSet(u)
         /\ \A c : c \in ToSet(u) => c \in ToSet(s)
<1> DEFINE n == Len(s)
           r == RingOf(h, s)
           b == Cut(r, n, k)
           N == Len(u)
<1>1. /\ n \in Nat /\ r[0] = h /\ r[n + 1] = h
      /\ \A i \in 1..n : r[i] = s[i]
  BY OnRing
<1>2. /\ N \in Nat /\ n = N + 1 /\ k \in 1..n
      /\ \A i \in 1..N : u[i] = IF i < k THEN s[i] ELSE s[i + 1]
  BY LenProperties DEF Without
<1>3. \A i \in 0..n : b[i] = IF i < k THEN r[i] ELSE r[i + 1]
  <2> HIDE DEF n, r
  <2> QED
    BY DEF Cut
<1>4. b = [i \in 0..N + 1 |-> b[i]]
  <2> HIDE DEF n, r, N
  <2> QED
    BY <1>2 DEF Cut
<1>5. \A i \in 1..N : u[i] \in DNodes
  BY ElementOfSeq DEF DNodes
<1> HIDE DEF r, b
<1>6. b[0] = h /\ b[N + 1] = h /\ \A i \in 1..N : b[i] = u[i]
  <2> HIDE DEF n, N
  <2>1. b[0] = h
    BY <1>1, <1>2, <1>3
  <2>2. b[N + 1] = h
    <3>1. N + 1 \in 0..n /\ ~(N + 1 < k) /\ N + 1 + 1 = n + 1
      BY <1>1, <1>2
    <3> QED
      BY <1>1, <1>3, <3>1
  <2>3. ASSUME NEW i \in 1..N
        PROVE  b[i] = u[i]
    <3>1. i \in 0..n /\ i \in 1..n /\ i + 1 \in 1..n
      BY <1>1, <1>2
    <3> QED
      BY <1>1, <1>2, <1>3, <3>1
  <2> QED
    BY <2>1, <2>2, <2>3
<1>7. RingOf(h, u) = b
  <2>1. \A i \in 0..N + 1 : b[i] \in DNodes
    <3> HIDE DEF n, N
    <3>1. \A i \in 0..N + 1 : i = 0 \/ i = N + 1 \/ i \in 1..N
      BY <1>2
    <3> QED
      BY <1>5, <1>6, <3>1
  <2>2. b \in [0..N + 1 -> DNodes]
    BY <1>4, <2>1
  <2>3. N = Len(u)
    OBVIOUS
  <2> HIDE DEF N
  <2> QED
    BY <1>2, <1>6, <2>2, <2>3, SameRing DEF Fits
<1>8. ASSUME NEW c
      PROVE  /\ c \in ToSet(s) => c = s[k] \/ c \in ToSet(u)
             /\ c \in ToSet(u) => c \in ToSet(s)
  <2>1. /\ c \in ToSet(u) <=> \E i \in 1..N : u[i] = c
        /\ c \in ToSet(s) <=> \E i \in 1..n : s[i] = c
    <3>1. c \in ToSet(u) <=> \E i \in 1..Len(u) : u[i] = c
      BY InList
    <3>2. c \in ToSet(s) <=> \E i \in 1..Len(s) : s[i] = c
      BY InList
    <3> QED
      BY <3>1, <3>2
  <2> HIDE DEF n, N
  <2>2. ASSUME NEW i \in 1..n, i # k
        PROVE  \E j \in 1..N : u[j] = s[i]
    <3>1. CASE i < k
      BY <1>2, <3>1
    <3>2. CASE i > k
      <4>1. i - 1 \in 1..N /\ ~(i - 1 < k) /\ i - 1 + 1 = i
        BY <1>2, <3>2
      <4> QED
        BY <1>2, <4>1
    <3> QED
      BY <1>2, <2>2, <3>1, <3>2
  <2>3. ASSUME NEW i \in 1..N
        PROVE  \E j \in 1..n : u[i] = s[j]
    <3>1. i \in 1..n /\ i + 1 \in 1..n
      BY <1>2
    <3> QED
      BY <1>2, <3>1
  <2> QED
    BY <2>1, <2>2, <2>3
<1> QED
  BY <1>2, <1>7, <1>8 DEF b, r, n, N

\* Of a sequence with two places exchanged.
AreExchanged(u, s, i, j) == u = [s EXCEPT ![i] = s[j], ![j] = s[i]]
\* Its ring is the ring with the two objects exchanged, and it holds the same ones.
LEMMA RingExchanged ==
  ASSUME NEW h \in DNodes, NEW s \in Seq(Objs), NEW i \in 1..Len(s), NEW j \in 1..Len(s),
         NEW u, AreExchanged(u, s, i, j)
  PROVE  /\ u \in Seq(Objs) /\ Len(u) = Len(s)
         /\ RingOf(h, u) = Exchanged(RingOf(h, s), Len(s), i, j)
         /\ \A c : c \in ToSet(u) <=> c \in ToSet(s)
<1> DEFINE n == Len(s)
           r == RingOf(h, s)
           b == Exchanged(r, n, i, j)
<1>1. /\ n \in Nat /\ r[0] = h /\ r[n + 1] = h
      /\ \A k \in 1..n : r[k] = s[k] /\ s[k] \in Objs
  BY OnRing
<1>2. /\ u \in Seq(Objs) /\ Len(u) = n
      /\ \A k \in 1..n : u[k] = IF k = i THEN s[j] ELSE IF k = j THEN s[i] ELSE s[k]
  <2> DEFINE v == [s EXCEPT ![i] = s[j]]
  <2>0. s[i] \in Objs /\ s[j] \in Objs
    BY <1>1
  <2>1. /\ v \in Seq(Objs) /\ Len(v) = n
        /\ \A k \in 1..n : v[k] = IF k = i THEN s[j] ELSE s[k]
    BY <2>0, ExceptSeq
  <2>2. u = [v EXCEPT ![j] = s[i]]
    BY DEF AreExchanged
  <2> HIDE DEF v
  <2>3. /\ u \in Seq(Objs) /\ Len(u) = Len(v)
        /\ \A k \in 1..Len(v) : u[k] = IF k = j THEN s[i] ELSE v[k]
    BY <2>0, <2>1, <2>2, ExceptSeq
  <2> QED
    BY <2>1, <2>3
<1>3. b = [k \in 0..n + 1 |-> b[k]] /\ \A k \in 0..n + 1 : b[k] = IF k = i THEN r[j] ELSE IF k = j THEN r[i] ELSE r[k]
  <2> HIDE DEF n, r
  <2> QED
    BY DEF Exchanged
<1>4. i \in 1..n /\ j \in 1..n
  OBVIOUS
<1>n. n = Len(s)
  OBVIOUS
<1> HIDE DEF n, r, b
<1>5. b[0] = h /\ b[n + 1] = h /\ \A k \in 1..n : b[k] = u[k]
  <2>1. b[0] = h /\ b[n + 1] = h
    <3>1. 0 \in 0..n + 1 /\ n + 1 \in 0..n + 1 /\ 0 # i /\ 0 # j /\ n + 1 # i /\ n + 1 # j
      BY <1>1, <1>4
    <3> QED
      BY <1>1, <1>3, <3>1
  <2>2. ASSUME NEW k \in 1..n
        PROVE  b[k] = u[k]
    <3>1. k \in 0..n + 1
      BY <1>1
    <3> QED
      BY <1>1, <1>2, <1>3, <1>4, <3>1
  <2> QED
    BY <2>1, <2>2
<1>6. RingOf(h, u) = b
  <2>1. \A k \in 0..n + 1 : b[k] \in DNodes
    <3>1. \A k \in 0..n + 1 : k = 0 \/ k = n + 1 \/ k \in 1..n
      BY <1>1
    <3>2. \A k \in 1..n : u[k] \in DNodes
      BY <1>2, ElementOfSeq DEF DNodes
    <3> QED
      BY <1>5, <3>1, <3>2
  <2>2. b \in [0..n + 1 -> DNodes]
    BY <1>3, <2>1
  <2> QED
    <3>1. Fits(b, h, u, n)
      BY <1>1, <1>2, <1>5, <2>2 DEF Fits
    <3> QED
      BY <3>1, SameRing
<1>7. ASSUME NEW c
      PROVE  c \in ToSet(u) <=> c \in ToSet(s)
  <2>1. /\ c \in ToSet(u) <=> \E k \in 1..n : u[k] = c
        /\ c \in ToSet(s) <=> \E k \in 1..n : s[k] = c
    <3>1. c \in ToSet(u) <=> \E k \in 1..Len(u) : u[k] = c
      BY <1>2, InList
    <3>2. c \in ToSet(s) <=> \E k \in 1..Len(s) : s[k] = c
      BY InList
    <3> QED
      BY <1>2, <1>n, <3>1, <3>2
  <2>2. \A k \in 1..n : \E e \in 1..n : u[k] = s[e]
    BY <1>2, <1>4
  <2>3. \A k \in 1..n : \E e \in 1..n : u[e] = s[k]
    <3>1. u[i] = s[j] /\ (j # i => u[j] = s[i])
      BY <1>2, <1>4
    <3> QED
      BY <1>2, <1>4, <3>1
  <2> QED
    BY <2>1, <2>2, <2>3
<1> QED
  BY <1>2, <1>6, <1>7 DEF b, r, n

\* Of two sequences, one behind the other.
LEMMA RingJoined ==
  ASSUME NEW h \in DNodes, NEW g \in DNodes, NEW s \in Seq(Objs), NEW t \in Seq(Objs)
  PROVE  /\ s \o t \in Seq(Objs) /\ Len(s \o t) = Len(s) + Len(t)
         /\ RingOf(h, s \o t) = Joined(RingOf(h, s), Len(s), RingOf(g, t), Len(t))
         /\ \A c : c \in ToSet(s \o t) <=> c \in ToSet(s) \/ c \in ToSet(t)
<1> DEFINE n == Len(s)
           l == Len(t)
           a == RingOf(h, s)
           b == RingOf(g, t)
           u == s \o t
           r == Joined(a, n, b, l)
<1>1. /\ n \in Nat /\ a[0] = h /\ a[n + 1] = h
      /\ \A k \in 1..n : a[k] = s[k] /\ s[k] \in Objs
  BY OnRing
<1>2. /\ l \in Nat /\ \A k \in 1..l : b[k] = t[k] /\ t[k] \in Objs
  BY OnRing
<1>3. /\ u \in Seq(Objs) /\ Len(u) = n + l
      /\ \A k \in 1..n + l : u[k] = IF k <= n THEN s[k] ELSE t[k - n]
  BY ConcatProperties
<1>4. /\ r = [k \in 0..n + l + 1 |-> r[k]]
      /\ \A k \in 0..n + l + 1 : r[k] = IF k <= n THEN a[k] ELSE IF k <= n + l THEN b[k - n] ELSE a[0]
  <2> HIDE DEF n, l, a, b
  <2> QED
    BY DEF Joined
<1>n. n = Len(s) /\ l = Len(t)
  OBVIOUS
<1> HIDE DEF n, l, a, b, u, r
<1>5. r[0] = h /\ r[n + l + 1] = h /\ \A k \in 1..n + l : r[k] = u[k]
  <2>1. r[0] = h
    <3>1. 0 \in 0..n + l + 1 /\ 0 <= n
      BY <1>1, <1>2
    <3> QED
      BY <1>1, <1>4, <3>1
  <2>2. r[n + l + 1] = h
    <3>1. n + l + 1 \in 0..n + l + 1 /\ ~(n + l + 1 <= n) /\ ~(n + l + 1 <= n + l)
      BY <1>1, <1>2
    <3> QED
      BY <1>1, <1>4, <3>1
  <2>3. ASSUME NEW k \in 1..n + l
        PROVE  r[k] = u[k]
    <3>1. k \in 0..n + l + 1 /\ (k <= n => k \in 1..n) /\ (~(k <= n) => k - n \in 1..l) /\ k <= n + l
      BY <1>1, <1>2
    <3> QED
      BY <1>1, <1>2, <1>3, <1>4, <3>1
  <2> QED
    BY <2>1, <2>2, <2>3
<1>6. RingOf(h, u) = r
  <2> DEFINE N == n + l
  <2>1. N \in Nat /\ N = Len(u)
    BY <1>1, <1>2, <1>3
  <2>2. r = [k \in 0..N + 1 |-> r[k]] /\ r[0] = h /\ r[N + 1] = h /\ \A k \in 1..N : r[k] = u[k]
    BY <1>4, <1>5
  <2> HIDE DEF N
  <2>3. \A k \in 0..N + 1 : r[k] \in DNodes
    <3>1. \A k \in 0..N + 1 : k = 0 \/ k = N + 1 \/ k \in 1..N
      BY <2>1
    <3>2. \A k \in 1..N : u[k] \in DNodes
      BY <1>3, <2>1, ElementOfSeq DEF DNodes
    <3> QED
      BY <2>2, <3>1, <3>2
  <2>4. r \in [0..N + 1 -> DNodes]
    BY <2>2, <2>3
  <2> QED
    <3>1. u \in Seq(Objs)
      BY <1>3
    <3>2. Fits(r, h, u, N)
      BY <2>1, <2>2, <2>4, <3>1 DEF Fits
    <3> QED
      BY <3>2, SameRing
<1>7. ASSUME NEW c
      PROVE  c \in ToSet(u) <=> c \in ToSet(s) \/ c \in ToSet(t)
  <2>1. /\ c \in ToSet(u) <=> \E k \in 1..n + l : u[k] = c
        /\ c \in ToSet(s) <=> \E k \in 1..n : s[k] = c
        /\ c \in ToSet(t) <=> \E k \in 1..l : t[k] = c
    <3>1. c \in ToSet(u) <=> \E k \in 1..Len(u) : u[k] = c
      BY <1>3, InList
    <3>2. c \in ToSet(s) <=> \E k \in 1..Len(s) : s[k] = c
      BY InList
    <3>3. c \in ToSet(t) <=> \E k \in 1..Len(t) : t[k] = c
      BY InList
    <3> QED
      BY <1>3, <1>n, <3>1, <3>2, <3>3
  <2>2. \A k \in 1..n : k \in 1..n + l /\ u[k] = s[k]
    BY <1>1, <1>2, <1>3
  <2>3. ASSUME NEW k \in 1..l
        PROVE  k + n \in 1..n + l /\ u[k + n] = t[k]
    <3> DEFINE e == k + n
    <3>1. e \in 1..n + l /\ ~(e <= n) /\ e - n = k
      BY <1>1, <1>2
    <3> HIDE DEF e
    <3>2. u[e] = t[k]
      BY <1>3, <3>1
    <3> QED
      BY <3>1, <3>2 DEF e
  <2>4. ASSUME NEW k \in 1..n + l
        PROVE  (\E e \in 1..n : u[k] = s[e]) \/ \E e \in 1..l : u[k] = t[e]
    <3>1. (k <= n => k \in 1..n) /\ (~(k <= n) => k - n \in 1..l)
      BY <1>1, <1>2
    <3> QED
      BY <1>3, <3>1
  <2> QED
    BY <2>1, <2>2, <2>3, <2>4
<1> QED
  BY <1>3, <1>6, <1>7 DEF a, b, r, n, l, u

-----------------------------------------------------------------------------
(* The invariant: every list that was not moved from is the ring of its    *)
(* sequence, no object is on two of them, and one on none says so.         *)

DInv ==
  /\ dmem \in Mems /\ dseq \in [DLists -> Seq(Objs)] /\ dmoved \subseteq DLists
  /\ \A h \in Usable : Ring(dmem, RingOf(h, dseq[h]), Len(dseq[h]))
  /\ \A g, h \in Usable : g # h => ToSet(dseq[g]) \cap ToSet(dseq[h]) = {}
  /\ \A t \in Loose : dmem[t].next = DNull

\* What has become of list h: memory w and sequence u.
Relisted(h, w, u) ==
  /\ w \in Mems /\ u \in Seq(Objs) /\ Ring(w, RingOf(h, u), Len(u))
  /\ \A c \in DNodes : c # h /\ c \notin ToSet(dseq[h]) /\ c \notin ToSet(u) => w[c] = dmem[c]
  /\ \A c \in ToSet(u) : c \in ToSet(dseq[h]) \/ c \in Loose
  /\ \A c \in ToSet(dseq[h]) : c \notin ToSet(u) => w[c].next = DNull

\* An object is on no list or on one, and is no list.
LEMMA Listed ==
  ASSUME DInv, NEW h \in Usable
  PROVE  /\ h \in DNodes /\ h \notin Objs /\ dseq[h] \in Seq(Objs) /\ Len(dseq[h]) \in Nat
         /\ Ring(dmem, RingOf(h, dseq[h]), Len(dseq[h])) /\ dmem \in Mems
         /\ ToSet(dseq[h]) \subseteq Objs /\ Objs \subseteq DNodes
         /\ \A t \in Loose : t \in Objs /\ t \notin ToSet(dseq[h])
<1>1. h \in DNodes /\ h \notin Objs /\ dseq[h] \in Seq(Objs)
  BY DListAssumption DEF DInv, Usable, DNodes
<1>2. ToSet(dseq[h]) \subseteq Objs /\ Len(dseq[h]) \in Nat
  <2> DEFINE s == dseq[h]
  <2> HIDE DEF s
  <2>1. s \in Seq(Objs)
    BY <1>1 DEF s
  <2>2. ToSet(s) \subseteq Objs /\ Len(s) \in Nat
    BY <2>1, LenProperties DEF ToSet
  <2> QED
    BY <2>2 DEF s
<1>3. \A t \in Loose : t \in Objs /\ t \notin ToSet(dseq[h])
  BY DEF Loose
<1> QED
  BY <1>1, <1>2, <1>3 DEF DInv, DNodes

\* The invariant holds when one list has become another.
LEMMA OneList ==
  ASSUME DInv, NEW h \in Usable, NEW w, NEW u, Relisted(h, w, u),
         dmem' = w, dseq' = [dseq EXCEPT ![h] = u], UNCHANGED dmoved
  PROVE  DInv'
<1>1. /\ h \in DLists /\ Usable' = Usable /\ dseq \in [DLists -> Seq(Objs)]
      /\ u \in Seq(Objs) /\ w \in Mems
  BY DEF DInv, Usable, Relisted
<1>2. \A g \in DLists : dseq'[g] = IF g = h THEN u ELSE dseq[g]
  BY <1>1
<1>3. dseq' \in [DLists -> Seq(Objs)]
  BY <1>1
<1>4. \A c \in ToSet(u) : c \in ToSet(dseq[h]) \/ c \in Loose
  BY DEF Relisted
<1>5. ASSUME NEW g \in Usable, g # h
      PROVE  ToSet(dseq[g]) \cap ToSet(u) = {}
  <2>1. ToSet(dseq[g]) \cap ToSet(dseq[h]) = {}
    BY <1>5 DEF DInv
  <2>2. \A c \in Loose : c \notin ToSet(dseq[g])
    BY DEF Loose
  <2> QED
    BY <1>4, <2>1, <2>2
<1>6. ASSUME NEW f \in Usable', NEW g \in Usable', f # g
      PROVE  ToSet(dseq'[f]) \cap ToSet(dseq'[g]) = {}
  <2>1. f \in Usable /\ g \in Usable /\ f \in DLists /\ g \in DLists
    BY <1>1, <1>6 DEF Usable
  <2>2. CASE f = h
    BY <1>2, <1>5, <1>6, <2>1, <2>2
  <2>3. CASE g = h
    BY <1>2, <1>5, <1>6, <2>1, <2>3
  <2>4. CASE f # h /\ g # h
    BY <1>2, <1>6, <2>1, <2>4 DEF DInv
  <2> QED
    BY <2>2, <2>3, <2>4
<1>7. ASSUME NEW g \in Usable'
      PROVE  Ring(dmem', RingOf(g, dseq'[g]), Len(dseq'[g]))
  <2>1. g \in Usable /\ g \in DLists
    BY <1>1 DEF Usable
  <2>2. CASE g = h
    BY <1>2, <2>1, <2>2 DEF Relisted
  <2>3. CASE g # h
    <3> DEFINE s == dseq[g]
               r == RingOf(g, s)
               n == Len(s)
    <3>1. dseq'[g] = s
      BY <1>2, <2>1, <2>3
    <3>2. Ring(dmem, r, n) /\ g \in DNodes /\ g \notin Objs /\ s \in Seq(Objs) /\ ToSet(s) \subseteq Objs /\ n \in Nat
      BY <2>1, Listed
    <3>3. \A c : On(r, n, c) <=> c = g \/ c \in ToSet(s)
      BY <3>2, OnRing
    <3>4. ToSet(s) \cap ToSet(dseq[h]) = {} /\ ToSet(s) \cap ToSet(u) = {} /\ h \notin Objs /\ g \notin ToSet(u) /\ g \notin ToSet(dseq[h])
      <4>1. h \notin Objs /\ ToSet(dseq[h]) \subseteq Objs
        BY Listed
      <4>2. ToSet(u) \subseteq Objs
        BY <1>4, <4>1 DEF Loose
      <4> QED
        BY <1>5, <2>1, <2>3, <3>2, <4>1, <4>2 DEF DInv
    <3> HIDE DEF s, r, n
    <3>5. \A c \in DNodes : On(r, n, c) => dmem'[c] = dmem[c]
      BY <2>3, <3>2, <3>3, <3>4 DEF Relisted
    <3>6. Ring(dmem', r, n)
      BY <3>2, <3>5, StillRing
    <3> QED
      BY <3>1, <3>6 DEF s, r, n
  <2> QED
    BY <2>2, <2>3
<1>8. ASSUME NEW t \in Loose'
      PROVE  dmem'[t].next = DNull
  <2>1. t \in Objs /\ \A g \in Usable : t \notin ToSet(dseq'[g])
    BY <1>1 DEF Loose
  <2>2. t \notin ToSet(u) /\ \A g \in Usable : g # h => t \notin ToSet(dseq[g])
    BY <1>1, <1>2, <2>1 DEF Usable
  <2>3. CASE t \in ToSet(dseq[h])
    BY <2>2, <2>3 DEF Relisted
  <2>4. CASE t \notin ToSet(dseq[h])
    <3>1. t \in Loose
      BY <2>1, <2>2, <2>4 DEF Loose
    <3>2. t # h /\ t \in DNodes
      BY <2>1, Listed
    <3>3. dmem'[t] = dmem[t]
      BY <2>2, <2>4, <3>2 DEF Relisted
    <3> QED
      BY <3>1, <3>3 DEF DInv
  <2> QED
    BY <2>3, <2>4
<1>9. dmoved' \subseteq DLists /\ dmem' \in Mems
  BY <1>1 DEF DInv
<1> QED
  BY <1>3, <1>6, <1>7, <1>8, <1>9 DEF DInv

\* A loose object is put in behind place k.
LEMMA PutInList ==
  ASSUME DInv, NEW h \in Usable, NEW x \in Loose, NEW k \in 0..Len(dseq[h]), NEW u, IsGrown(Objs, u, dseq[h], k, x)
  PROVE  Relisted(h, insertAfter(dmem, RingOf(h, dseq[h])[k], x), u)
<1> DEFINE s == dseq[h]
           n == Len(s)
           r == RingOf(h, s)
           w == insertAfter(dmem, r[k], x)
<1>1. /\ h \in DNodes /\ s \in Seq(Objs) /\ n \in Nat /\ Ring(dmem, r, n) /\ dmem \in Mems
      /\ x \in Objs /\ x \notin ToSet(s) /\ h \notin Objs /\ x \in DNodes /\ k \in 0..n
  BY Listed
<1>2. \A c : On(r, n, c) <=> c = h \/ c \in ToSet(s)
  BY <1>1, OnRing
<1>3. /\ RingOf(h, u) = Grown(r, n, k, x)
      /\ \A c : c \in ToSet(u) <=> c = x \/ c \in ToSet(s)
  BY <1>1, RingGrown
<1>4. u \in Seq(Objs) /\ Len(u) = n + 1
  BY DEF IsGrown
<1> HIDE DEF s, n, r
<1>5. Apart(dmem, w, r, n, x) /\ Ring(w, Grown(r, n, k, x), n + 1)
  BY <1>1, <1>2, InsertedBehind
<1> HIDE DEF w
<1>6. /\ w \in Mems /\ Ring(w, RingOf(h, u), Len(u))
      /\ \A c \in DNodes : c # h /\ c \notin ToSet(s) /\ c \notin ToSet(u) => w[c] = dmem[c]
  BY <1>2, <1>3, <1>4, <1>5 DEF Apart
<1> QED
  BY <1>3, <1>4, <1>6 DEF Relisted, s, w, n, r

\* An object of what is left of a list is taken out.
LEMMA TakenFromList ==
  ASSUME DInv, NEW h \in Usable, NEW m, NEW v, Relisted(h, m, v), ToSet(v) \subseteq ToSet(dseq[h]),
         NEW k \in 1..Len(v), NEW u \in Seq(Objs), Without(v, k, u)
  PROVE  Relisted(h, remove(m, v[k]), u) /\ ToSet(u) \subseteq ToSet(dseq[h]) /\ Len(u) = Len(v) - 1
<1> DEFINE n == Len(v)
           r == RingOf(h, v)
           w == remove(m, r[k])
<1>1. /\ h \in DNodes /\ h \notin Objs /\ ToSet(dseq[h]) \subseteq Objs /\ Objs \subseteq DNodes
      /\ v \in Seq(Objs) /\ m \in Mems /\ Ring(m, r, n) /\ k \in 1..n
  BY Listed DEF Relisted
<1>2. /\ n \in Nat /\ r[k] = v[k]
      /\ \A c : On(r, n, c) <=> c = h \/ c \in ToSet(v)
  BY <1>1, OnRing
<1>3. /\ RingOf(h, u) = Cut(r, n, k) /\ Len(u) = n - 1
      /\ \A c : c \in ToSet(v) => c = v[k] \/ c \in ToSet(u)
      /\ \A c : c \in ToSet(u) => c \in ToSet(v)
  BY <1>1, RingCut
<1> HIDE DEF n, r
<1>4. Apart(m, w, r, n, r[k]) /\ w[r[k]].next = DNull /\ Ring(w, Cut(r, n, k), n - 1)
  BY <1>1, <1>2, TakenOut
<1>5. On(r, n, v[k])
  <2>1. k \in 0..n
    BY <1>1, <1>2
  <2> QED
    BY <1>2, <2>1 DEF On
<1> HIDE DEF w
<1>6. w \in Mems /\ \A c \in DNodes : c # h /\ c \notin ToSet(v) => w[c] = m[c]
  BY <1>2, <1>4, <1>5 DEF Apart
<1>7. ASSUME NEW c \in DNodes, c # h, c \notin ToSet(dseq[h]), c \notin ToSet(u)
      PROVE  w[c] = dmem[c]
  <2>1. c \notin ToSet(v)
    BY <1>7
  <2> QED
    BY <1>6, <1>7, <2>1 DEF Relisted
<1>8. ASSUME NEW c \in ToSet(dseq[h]), c \notin ToSet(u)
      PROVE  w[c].next = DNull
  <2>1. CASE c = v[k]
    BY <1>2, <1>4, <2>1
  <2>2. CASE c # v[k]
    <3>1. c \notin ToSet(v) /\ c \in DNodes /\ c # h
      BY <1>1, <1>3, <1>8, <2>2
    <3>2. w[c] = m[c] /\ m[c].next = DNull
      BY <1>6, <3>1 DEF Relisted
    <3> QED
      BY <3>2
  <2> QED
    BY <2>1, <2>2
<1>9. Ring(w, RingOf(h, u), Len(u)) /\ \A c \in ToSet(u) : c \in ToSet(dseq[h])
  BY <1>3, <1>4
<1>10. Relisted(h, w, u)
  BY <1>6, <1>7, <1>8, <1>9 DEF Relisted
<1> QED
  BY <1>2, <1>3, <1>9, <1>10 DEF w, n

\* As it is, each list is relisted.
LEMMA Unlisted ==
  ASSUME DInv, NEW h \in Usable
  PROVE  Relisted(h, dmem, dseq[h])
BY Listed DEF Relisted

-----------------------------------------------------------------------------
(* What the traversals of a list find.                                     *)

\* No list has more objects than there are nodes.
LEMMA ListFits ==
  ASSUME DInv, NEW h \in Usable
  PROVE  Len(dseq[h]) <= Cardinality(DNodes) /\ Cardinality(DNodes) \in Nat
<1> DEFINE s == dseq[h]
           n == Len(s)
           r == RingOf(h, s)
<1>1. /\ s \in Seq(Objs) /\ n \in Nat /\ h \in DNodes /\ Ring(dmem, r, n) /\ Objs \subseteq DNodes
  BY Listed
<1>2. \A i \in 1..n : r[i] = s[i] /\ s[i] \in Objs
  BY <1>1, OnRing
<1>3. IsFiniteSet(DNodes)
  BY DListAssumption DEF DNodes
<1> HIDE DEF r
<1>4. \A i, j \in 1..n : i # j => s[i] # s[j]
  <2>1. \A i \in 1..n : i \in 0..n
    BY <1>1
  <2> QED
    BY <1>1, <1>2, <2>1 DEF Ring, IsRing
<1> DEFINE f == [i \in 1..n |-> s[i]]
<1> HIDE DEF n, s
<1>5. f \in Injection(1..n, DNodes)
  BY <1>1, <1>2, <1>4 DEF Injection, IsInjective
<1>6. Cardinality(1..n) <= Cardinality(DNodes)
  BY <1>3, <1>5, FS_Injection
<1>7. Cardinality(1..n) = n
  <2>1. Cardinality(1..n) = IF 1 > n THEN 0 ELSE n - 1 + 1
    BY <1>1, FS_Interval
  <2> QED
    BY <1>1, <2>1
<1> QED
  BY <1>3, <1>6, <1>7, FS_CardinalityType DEF n, s

\* foreach and backward meet the list's objects, in order, and isMember tells
\* which they are.
LEMMA ListRead ==
  ASSUME DInv, NEW h \in Usable
  PROVE  /\ foreach(h, {}) = dseq[h] /\ backward(h) = Reverse(dseq[h])
         /\ \A t \in Objs : isMember(h, t) <=> t \in ToSet(dseq[h])
<1> DEFINE s == dseq[h]
           n == Len(s)
           r == RingOf(h, s)
           N == Cardinality(DNodes)
           ahead == [c \in DNodes |-> getNext(c)]
           behind == [c \in DNodes |-> getPrev(c)]
           z == Reverse(s)
           q == RingOf(h, z)
<1>1. /\ s \in Seq(Objs) /\ n \in Nat /\ h \in DNodes /\ h \notin Objs /\ Objs \subseteq DNodes
      /\ Ring(dmem, r, n) /\ dmem \in Mems
  BY Listed
<1>2. /\ \A i \in 1..n : r[i] = s[i] /\ s[i] \in Objs
      /\ r[0] = h /\ r[n + 1] = h /\ r \in [0..n + 1 -> DNodes]
  BY <1>1, OnRing
<1>3. n <= N /\ N \in Nat
  BY ListFits
<1>n. n = Len(s)
  OBVIOUS
<1> HIDE DEF r, N
<1>4. /\ ahead \in [DNodes -> Addrs] /\ behind \in [DNodes -> Addrs]
      /\ \A c \in DNodes : ahead[c] = dmem[c].next /\ behind[c] = dmem[c].prev
  BY <1>1 DEF Mems, getNext, getPrev
<1>5. foreach(h, {}) = Along(ahead, h, {}) /\ backward(h) = Along(behind, h, {})
      /\ \A t : isMember(h, t) <=> t \in ToSet(Along(ahead, h, {t}))
  BY DEF foreach, backward, isMember
<1>6. ASSUME NEW t \in Objs
      PROVE  Along(ahead, h, {}) = s /\ (t \in ToSet(Along(ahead, h, {t})) <=> t \in ToSet(s))
  <2> HIDE DEF ahead, behind, n
  <2>1. \A i \in 0..Len(s) : ahead[r[i]] = r[i + 1]
    <3>1. \A i \in 0..n : r[i] \in DNodes
      <4>1. \A i \in 0..n : i \in 0..n + 1
        BY <1>1
      <4> QED
        BY <1>2, <4>1
    <3>2. \A i \in 0..n : dmem[r[i]].next = r[i + 1]
      BY <1>1 DEF Ring, Linked
    <3> QED
      BY <1>4, <1>n, <3>1, <3>2
  <2>2. \A i \in 1..Len(s) : s[i] # h
    BY <1>1, <1>2, <1>n
  <2>3. s \in Seq(DNodes) /\ t \in DNodes
    BY <1>1
  <2> HIDE DEF s
  <2>4. Len(s) <= Cardinality(DNodes) /\ Cardinality(DNodes) \in Nat
    BY <1>3, <1>n DEF N
  <2> QED
    BY <1>1, <1>4, <2>1, <2>2, <2>3, <2>4, MetAlong DEF r
<1>7. Along(behind, h, {}) = z
  <2>1. Len(z) = n /\ z \in Seq(DNodes) /\ \A i \in 1..n : z[i] = s[n - i + 1]
    <3> HIDE DEF s, n
    <3>1. z = [i \in 1..n |-> s[n - i + 1]]
      BY <1>n DEF Reverse
    <3>2. \A i \in 1..n : n - i + 1 \in 1..n
      BY <1>1
    <3>3. z \in [1..n -> DNodes]
      BY <1>1, <1>2, <3>1, <3>2
    <3> HIDE DEF z
    <3>4. z \in Seq(DNodes) /\ Len(z) = n
      BY <1>1, <3>3
    <3> QED
      BY <3>1, <3>4
  <2>2. q = [i \in 0..n + 1 |-> IF i \in 1..n THEN z[i] ELSE h]
    BY <2>1 DEF RingOf
  <2> HIDE DEF ahead, behind, n, s, q
  <2> HIDE DEF z
  <2>3. \A i \in 0..n + 1 : q[i] = r[n + 1 - i]
    <3> SUFFICES ASSUME NEW i \in 0..n + 1
                 PROVE  q[i] = r[n + 1 - i]
      OBVIOUS
    <3>1. CASE i = 0
      <4>1. n + 1 - i = n + 1 /\ i \notin 1..n
        BY <1>1, <3>1
      <4> QED
        BY <1>2, <2>2, <4>1
    <3>2. CASE i = n + 1
      <4>1. n + 1 - i = 0 /\ i \notin 1..n
        BY <1>1, <3>2
      <4> QED
        BY <1>2, <2>2, <4>1
    <3>3. CASE i \in 1..n
      <4>1. n + 1 - i = n - i + 1 /\ n - i + 1 \in 1..n
        BY <1>1, <3>3
      <4> QED
        BY <1>2, <2>1, <2>2, <3>3, <4>1
    <3> QED
      BY <1>1, <3>1, <3>2, <3>3
  <2>4. ASSUME NEW i \in 0..n
        PROVE  behind[q[i]] = q[i + 1]
    <3> DEFINE k == n - i
    <3>1. k \in 0..n /\ k + 1 \in 0..n + 1 /\ n + 1 - i = k + 1 /\ n + 1 - (i + 1) = k /\ i \in 0..n + 1 /\ i + 1 \in 0..n + 1
      BY <1>1
    <3>2. q[i] = r[k + 1] /\ q[i + 1] = r[k]
      BY <2>3, <3>1
    <3> HIDE DEF k
    <3>3. dmem[r[k + 1]].prev = r[k] /\ r[k + 1] \in DNodes
      BY <1>1, <1>2, <3>1 DEF Ring, Linked
    <3> QED
      BY <1>4, <3>2, <3>3
  <2>5. \A i \in 1..Len(z) : z[i] # h
    <3>1. \A i \in 1..n : n - i + 1 \in 1..n
      BY <1>1
    <3> QED
      BY <1>1, <1>2, <2>1, <3>1
  <2>6. \A i \in 0..Len(z) : behind[RingOf(h, z)[i]] = RingOf(h, z)[i + 1]
    BY <2>1, <2>4 DEF q
  <2>7. Len(z) <= Cardinality(DNodes) /\ Cardinality(DNodes) \in Nat
    BY <1>3, <2>1 DEF N
  <2> QED
    BY <1>1, <1>4, <2>1, <2>5, <2>6, <2>7, MetAlong
<1> HIDE DEF ahead, behind
<1>8. ASSUME Objs = {}
      PROVE  Along(ahead, h, {}) = s
  <2>1. n = 0
    BY <1>1, <1>2, <1>8
  <2> HIDE DEF n
  <2>2. s \in Seq(DNodes) /\ \A i \in 1..Len(s) : s[i] # h
    BY <1>1, <1>n, <2>1
  <2>3. \A i \in 0..Len(s) : ahead[RingOf(h, s)[i]] = RingOf(h, s)[i + 1]
    <3> HIDE DEF s
    <3>1. \A i \in 0..n : i = 0
      BY <2>1
    <3>2. dmem[r[0]].next = r[0 + 1] /\ r[0] \in DNodes
      BY <1>1, <1>2, <2>1 DEF Ring, Linked
    <3> QED
      BY <1>4, <1>n, <3>1, <3>2 DEF r
  <2> HIDE DEF s
  <2>4. Len(s) <= Cardinality(DNodes) /\ Cardinality(DNodes) \in Nat
    BY <1>3, <1>n DEF N
  <2> QED
    BY <1>1, <1>4, <2>2, <2>3, <2>4, MetAlong
<1>9. Along(ahead, h, {}) = s
  BY <1>6, <1>8
<1> QED
  BY <1>5, <1>6, <1>7, <1>9

-----------------------------------------------------------------------------
(* The calls.                                                              *)

\* An object is put in behind place k, seen from either side.
LEMMA PutInHolds ==
  ASSUME DInv, NEW h \in Usable, NEW x \in Loose, NEW k \in 0..Len(dseq[h]),
         NEW u, IsGrown(Objs, u, dseq[h], k, x), dseq' = [dseq EXCEPT ![h] = u], UNCHANGED dmoved,
         \/ dmem' = insertAfter(dmem, RingOf(h, dseq[h])[k], x)
         \/ dmem' = insertBefore(dmem, RingOf(h, dseq[h])[k + 1], x)
  PROVE  DInv'
<1> DEFINE s == dseq[h]
           n == Len(s)
           r == RingOf(h, s)
           w == insertAfter(dmem, r[k], x)
<1>1. Ring(dmem, r, n) /\ dmem \in Mems /\ n \in Nat
  BY Listed
<1>2. Relisted(h, w, u)
  BY PutInList
<1>k. k \in 0..n
  OBVIOUS
<1>3. dmem' = w
  <2> HIDE DEF n, r
  <2>1. insertBefore(dmem, r[k + 1], x) = insertAfter(dmem, r[k], x)
    BY <1>1, <1>k, InsertedBefore
  <2> QED
    BY <2>1 DEF r, n
<1> HIDE DEF w
<1> QED
  BY <1>2, <1>3, OneList

\* addHead puts the object first in its list.
LEMMA HeadAdded ==
  ASSUME DInv, NEW h \in Usable, NEW t, addHead(h, t)
  PROVE  DInv'
<1> DEFINE s == dseq[h]
           u == <<t>> \o s
<1>1. t \in Loose /\ t \in Objs /\ s \in Seq(Objs) /\ h \in DNodes /\ Len(s) \in Nat
  BY Listed DEF addHead
<1>2. IsGrown(Objs, u, s, 0, t)
  BY <1>1, PutIn
<1>3. RingOf(h, s)[0] = h /\ 0 \in 0..Len(s)
  BY <1>1, OnRing
<1>4. dseq' = [dseq EXCEPT ![h] = u] /\ dmem' = insertAfter(dmem, RingOf(h, s)[0], t) /\ UNCHANGED dmoved
  BY <1>3 DEF addHead
<1> HIDE DEF u
<1> QED
  BY <1>1, <1>2, <1>3, <1>4, PutInHolds

\* addTail puts the object last in its list.
LEMMA TailAdded ==
  ASSUME DInv, NEW h \in Usable, NEW t, addTail(h, t)
  PROVE  DInv'
<1> DEFINE s == dseq[h]
           u == Append(s, t)
           n == Len(s)
<1>1. t \in Loose /\ t \in Objs /\ s \in Seq(Objs) /\ h \in DNodes /\ n \in Nat
  BY Listed DEF addTail
<1>2. IsGrown(Objs, u, s, n, t)
  BY <1>1, PutIn
<1>3. RingOf(h, s)[n + 1] = h /\ n \in 0..n
  BY <1>1, OnRing
<1>4. dseq' = [dseq EXCEPT ![h] = u] /\ dmem' = insertBefore(dmem, RingOf(h, s)[n + 1], t) /\ UNCHANGED dmoved
  BY <1>3 DEF addTail
<1> HIDE DEF u
<1> QED
  BY <1>1, <1>2, <1>3, <1>4, PutInHolds

\* The place of an object that is on the list.
LEMMA PlaceFound ==
  ASSUME DInv, NEW h \in Usable, NEW t \in ToSet(dseq[h])
  PROVE  /\ PlaceOf(h, t) \in 1..Len(dseq[h]) /\ dseq[h][PlaceOf(h, t)] = t
         /\ RingOf(h, dseq[h])[PlaceOf(h, t)] = t
<1>1. dseq[h] \in Seq(Objs) /\ h \in DNodes
  BY Listed
<1>2. \E i \in 1..Len(dseq[h]) : dseq[h][i] = t
  BY <1>1, InList
<1>3. PlaceOf(h, t) \in 1..Len(dseq[h]) /\ dseq[h][PlaceOf(h, t)] = t
  BY <1>2 DEF PlaceOf
<1> QED
  BY <1>1, <1>3, OnRing

\* insertBefore and insertAfter put the object next to the one they are given.
LEMMA Inserted ==
  ASSUME DInv, NEW h \in Usable, NEW t, NEW here, DInsert(h, t, here)
  PROVE  DInv'
<1> DEFINE s == dseq[h]
           n == Len(s)
           p == PlaceOf(h, here)
           q == p - 1
           r == RingOf(h, s)
<1>1. t \in Loose /\ t \in Objs /\ s \in Seq(Objs) /\ h \in DNodes /\ n \in Nat /\ here \in ToSet(s)
  BY Listed DEF DInsert
<1>2. p \in 1..n /\ r[p] = here
  BY <1>1, PlaceFound
<1> HIDE DEF p
<1>3. p \in 0..n /\ q \in 0..n /\ q + 1 = p
  BY <1>1, <1>2
<1>4. CASE dmem' = insertAfter(dmem, here, t) /\ dseq' = [dseq EXCEPT ![h] = InsertAt(@, p + 1, t)]
  <2> DEFINE u == InsertAt(s, p + 1, t)
  <2>1. IsGrown(Objs, u, s, p, t)
    BY <1>1, <1>3, PutIn
  <2>2. dseq' = [dseq EXCEPT ![h] = u] /\ dmem' = insertAfter(dmem, r[p], t) /\ UNCHANGED dmoved
    BY <1>2, <1>4 DEF DInsert
  <2> HIDE DEF u
  <2> QED
    BY <1>1, <1>3, <2>1, <2>2, PutInHolds
<1>5. CASE dmem' = insertBefore(dmem, here, t) /\ dseq' = [dseq EXCEPT ![h] = InsertAt(@, p, t)]
  <2> DEFINE u == InsertAt(s, p, t)
  <2> HIDE DEF q
  <2>1. IsGrown(Objs, u, s, q, t)
    <3>1. \A k \in 0..n : IsGrown(Objs, InsertAt(s, k + 1, t), s, k, t)
      BY <1>1, PutIn
    <3> QED
      BY <1>3, <3>1
  <2>2. dseq' = [dseq EXCEPT ![h] = u] /\ dmem' = insertBefore(dmem, r[q + 1], t) /\ UNCHANGED dmoved
    BY <1>2, <1>3, <1>5 DEF DInsert
  <2> HIDE DEF u
  <2> QED
    BY <1>1, <1>3, <2>1, <2>2, PutInHolds
<1> QED
  BY <1>4, <1>5 DEF DInsert, p

\* remove takes the object out of its list, and it says it is on none.
LEMMA Removed ==
  ASSUME DInv, NEW h \in Usable, NEW t, DRemove(h, t)
  PROVE  DInv'
<1> DEFINE s == dseq[h]
           p == PlaceOf(h, t)
           u == RemoveAt(s, p)
<1>1. t \in ToSet(s) /\ s \in Seq(Objs)
  BY Listed DEF DRemove
<1>2. p \in 1..Len(s) /\ s[p] = t
  BY <1>1, PlaceFound
<1>3. dseq' = [dseq EXCEPT ![h] = u] /\ dmem' = remove(dmem, s[p]) /\ UNCHANGED dmoved
  BY <1>2 DEF DRemove
<1> HIDE DEF p
<1>4. u \in Seq(Objs) /\ Without(s, p, u)
  BY <1>1, <1>2, RemoveAtIs
<1> HIDE DEF u
<1>5. Relisted(h, dmem, s)
  BY Unlisted
<1>6. Relisted(h, remove(dmem, s[p]), u)
  BY <1>2, <1>4, <1>5, TakenFromList
<1> QED
  BY <1>3, <1>6, OneList

\* The first of what is left of a list is taken out, if there is one.
LEMMA HeadTaken ==
  ASSUME DInv, NEW h \in Usable, NEW m, NEW v, Relisted(h, m, v), ToSet(v) \subseteq ToSet(dseq[h])
  PROVE  /\ v = << >> => withoutHead(m, h) = m
         /\ v # << >> => /\ Relisted(h, withoutHead(m, h), Tail(v)) /\ Len(Tail(v)) = Len(v) - 1
                         /\ ToSet(Tail(v)) \subseteq ToSet(dseq[h])
<1> DEFINE r == RingOf(h, v)
           n == Len(v)
<1>1. /\ h \in DNodes /\ h \notin Objs /\ v \in Seq(Objs) /\ m \in Mems /\ Ring(m, r, n)
  BY Listed DEF Relisted
<1>2. /\ n \in Nat /\ r[0] = h /\ r[n + 1] = h /\ \A i \in 1..n : r[i] = v[i] /\ v[i] \in Objs
  BY <1>1, OnRing
<1>3. m[h].next = r[1]
  <2>1. 0 \in 0..n /\ 0 + 1 = 1
    BY <1>2
  <2> HIDE DEF r, n
  <2> QED
    BY <1>1, <1>2, <2>1 DEF Ring, Linked
<1>4. CASE v = << >>
  <2>1. n = 0
    BY <1>4
  <2>2. m[h].next = h
    BY <1>2, <1>3, <2>1
  <2> QED
    BY <1>4, <2>2 DEF withoutHead
<1>5. CASE v # << >>
  <2> DEFINE u == Tail(v)
  <2>1. n # 0 /\ u \in Seq(Objs) /\ Len(u) = n - 1 /\ \A i \in 1..Len(u) : u[i] = v[i + 1]
    BY <1>1, <1>5, HeadTailProperties
  <2>2. 1 \in 1..n
    BY <1>2, <2>1
  <2>3. Without(v, 1, u)
    <3> HIDE DEF u
    <3>1. n = Len(u) + 1 /\ \A i \in 1..Len(u) : ~(i < 1)
      BY <1>2, <2>1
    <3> QED
      BY <2>1, <2>2, <3>1 DEF Without
  <2> HIDE DEF u, r
  <2>4. m[h].next = v[1] /\ v[1] # h
    BY <1>1, <1>2, <1>3, <2>2
  <2>5. withoutHead(m, h) = remove(m, v[1])
    BY <2>4 DEF withoutHead
  <2>6. Relisted(h, remove(m, v[1]), u) /\ ToSet(u) \subseteq ToSet(dseq[h]) /\ Len(u) = n - 1
    BY <2>1, <2>2, <2>3, TakenFromList
  <2> QED
    BY <1>5, <2>5, <2>6 DEF u
<1> QED
  BY <1>4, <1>5

\* removeHead takes the first object out, if there is one.
LEMMA HeadRemoved ==
  ASSUME DInv, NEW h \in Usable, removeHead(h)
  PROVE  DInv'
<1> DEFINE s == dseq[h]
           u == IF s = << >> THEN s ELSE Tail(s)
<1>1. Relisted(h, dmem, s)
  BY Unlisted
<1>2. dseq' = [dseq EXCEPT ![h] = u] /\ dmem' = withoutHead(dmem, h) /\ UNCHANGED dmoved
  BY DEF removeHead
<1>3. Relisted(h, withoutHead(dmem, h), u)
  BY <1>1, HeadTaken
<1> HIDE DEF u
<1> QED
  BY <1>2, <1>3, OneList

\* After n turns of a loop that takes out the first object.
Drained(rest, h) == rest = [n \in Nat |-> IF n = 0 THEN dmem ELSE withoutHead(rest[n - 1], h)]
\* What list h can come to be when objects are only taken out.
Remnants(h) == {m \in Mems : \E u \in Seq(Objs) : Relisted(h, m, u) /\ ToSet(u) \subseteq ToSet(dseq[h])}

\* Taking out the first object again and again is defined for every number of times.
LEMMA DrainedExists ==
  ASSUME DInv, NEW h \in Usable
  PROVE  \E rest : Drained(rest, h)
<1> DEFINE S == Remnants(h)
           Base == {0}
           down == [n \in Nat |-> n - 1]
           start == [n \in Base |-> dmem]
           step == [n \in Nat |-> [x \in S |-> withoutHead(x, h)]]
<1>1. dmem \in S
  <2>1. dmem \in Mems /\ dseq[h] \in Seq(Objs) /\ Relisted(h, dmem, dseq[h])
    BY Listed, Unlisted
  <2> QED
    BY <2>1 DEF Remnants
<1>2. ASSUME NEW x \in S
      PROVE  withoutHead(x, h) \in S
  <2>1. PICK u \in Seq(Objs) : Relisted(h, x, u) /\ ToSet(u) \subseteq ToSet(dseq[h])
    BY <1>2 DEF Remnants
  <2>2. CASE u = << >>
    BY <2>1, <2>2, HeadTaken
  <2>3. CASE u # << >>
    <3> DEFINE v == Tail(u)
               w == withoutHead(x, h)
    <3>1. Relisted(h, w, v) /\ ToSet(v) \subseteq ToSet(dseq[h])
      BY <2>1, <2>3, HeadTaken
    <3> HIDE DEF v, w
    <3>2. w \in Mems /\ v \in Seq(Objs)
      BY <3>1 DEF Relisted
    <3>3. w \in S
      BY <3>1, <3>2 DEF Remnants
    <3> QED
      BY <3>3 DEF w
  <2> QED
    BY <2>2, <2>3
<1> HIDE DEF S
<1>3. Descends(Base, down)
  BY DEF Descends
<1>4. (\A n \in Base : start[n] \in S) /\ \A n \in Nat, x \in S : step[n][x] \in S
  BY <1>1, <1>2
<1>5. PICK f \in [Nat -> S] : Recurs(f, Nat, Base, start, down, step)
  <2> HIDE DEF Base, down, start, step
  <2> QED
    BY <1>3, <1>4, DescendingRecursion
<1>6. ASSUME NEW n \in Nat
      PROVE  f[n] = IF n = 0 THEN dmem ELSE withoutHead(f[n - 1], h)
  <2>1. f[n] = IF n \in Base THEN start[n] ELSE step[n][f[down[n]]]
    BY <1>5 DEF Recurs
  <2>2. CASE n = 0
    BY <2>1, <2>2
  <2>3. CASE n # 0
    <3>1. n - 1 \in Nat
      BY <2>3
    <3>2. f[n - 1] \in S
      BY <1>5, <3>1
    <3> QED
      BY <2>1, <2>3, <3>2
  <2> QED
    BY <2>2, <2>3
<1>7. f = [n \in Nat |-> f[n]]
  BY <1>5
<1>8. Drained(f, h)
  BY <1>6, <1>7 DEF Drained
<1> QED
  BY <1>8

\* removeAll leaves the list empty and every object on it on no list.
LEMMA AllRemoved ==
  ASSUME DInv, NEW h \in Usable, removeAll(h)
  PROVE  DInv'
<1> DEFINE s == dseq[h]
           L == Len(s)
           rest == CHOOSE f : Drained(f, h)
<1>1. s \in Seq(Objs) /\ L \in Nat
  BY Listed
<1>2. Drained(rest, h)
  BY DrainedExists
<1>3. dmem' = rest[Len(foreach(h, {}))] /\ dseq' = [dseq EXCEPT ![h] = << >>] /\ UNCHANGED dmoved
  BY DEF removeAll, Drained
<1>4. foreach(h, {}) = s
  BY ListRead
<1> HIDE DEF rest
<1>5. rest[0] = dmem /\ \A n \in Nat : n # 0 => rest[n] = withoutHead(rest[n - 1], h)
  BY <1>2 DEF Drained
<1> DEFINE Left(n, u) == Relisted(h, rest[n], u) /\ Len(u) = L - n /\ ToSet(u) \subseteq ToSet(s)
           S == {n \in 0..L : \E u \in Seq(Objs) : Left(n, u)}
<1>6. 0 \in S
  <2>1. Relisted(h, dmem, s) /\ 0 \in 0..L /\ L - 0 = L
    BY <1>1, Unlisted
  <2> HIDE DEF s, L
  <2>2. Len(s) = L
    BY DEF L
  <2>3. Left(0, s)
    BY <1>5, <2>1, <2>2
  <2> QED
    BY <1>1, <2>1, <2>3
<1>7. ASSUME NEW n \in 1..L, n - 1 \in S
      PROVE  n \in S
  <2> DEFINE k == n - 1
  <2>1. n \in 0..L /\ n \in Nat /\ n # 0 /\ k \in 0..L /\ L - k # 0 /\ L - k - 1 = L - n
    BY <1>1
  <2>2. PICK v \in Seq(Objs) : Left(k, v)
    BY <1>7
  <2> HIDE DEF k
  <2> DEFINE u == Tail(v)
  <2>3. v # << >> /\ Len(v) = L - k
    BY <2>1, <2>2
  <2>4. Relisted(h, withoutHead(rest[k], h), u) /\ Len(u) = Len(v) - 1 /\ ToSet(u) \subseteq ToSet(s)
    BY <2>2, <2>3, HeadTaken
  <2>5. rest[n] = withoutHead(rest[k], h)
    BY <1>5, <2>1 DEF k
  <2> HIDE DEF u, s, L
  <2>6. Left(n, u) /\ u \in Seq(Objs)
    <3>1. Len(u) = L - n
      BY <2>1, <2>3, <2>4
    <3>2. u \in Seq(Objs)
      BY <2>4 DEF Relisted
    <3> QED
      BY <2>4, <2>5, <3>1, <3>2
  <2> QED
    BY <2>1, <2>6
<1> HIDE DEF S, Left
<1>8. L \in S
  <2>1. 0..L \subseteq S
    BY <1>1, <1>6, <1>7, IntervalInduction
  <2> QED
    BY <1>1, <2>1
<1>9. PICK u \in Seq(Objs) : Left(L, u)
  BY <1>8 DEF S
<1>10. Relisted(h, rest[L], u) /\ u = << >>
  <2>1. Relisted(h, rest[L], u) /\ Len(u) = 0
    BY <1>1, <1>9 DEF Left
  <2> QED
    BY <2>1
<1> QED
  BY <1>3, <1>4, <1>10, OneList

\* deleteItems leaves the list empty.
LEMMA ItemsDeleted ==
  ASSUME DInv, NEW h \in Usable, deleteItems(h)
  PROVE  DInv'
<1> DEFINE s == dseq[h]
           w == [c \in DNodes |-> IF c = h THEN DList(h) ELSE IF c \in ToSet(s) THEN DListNode ELSE dmem[c]]
           r == RingOf(h, << >>)
<1>1. h \in DNodes /\ h \notin Objs /\ dmem \in Mems /\ ToSet(s) \subseteq Objs /\ Objs \subseteq DNodes
  BY Listed
<1>2. foreach(h, {}) = s
  BY ListRead
<1>3. dmem' = w /\ dseq' = [dseq EXCEPT ![h] = << >>] /\ UNCHANGED dmoved
  BY <1>2 DEF deleteItems
<1>4. DList(h) \in [next : Addrs, prev : Addrs] /\ DListNode \in [next : Addrs, prev : Addrs]
  BY <1>1 DEF DList, DListNode, Addrs
<1>5. w \in Mems
  BY <1>1, <1>4 DEF Mems
<1>6. /\ \A c \in DNodes : c # h /\ c \notin ToSet(s) => w[c] = dmem[c]
      /\ \A c \in ToSet(s) : w[c].next = DNull
      /\ w[h].next = h /\ w[h].prev = h
  BY <1>1 DEF DList, DListNode
<1> HIDE DEF w
<1>7. << >> \in Seq(Objs) /\ Len(<< >>) = 0 /\ ToSet(<< >>) = {}
  BY DEF ToSet
<1>8. r \in [0..0 + 1 -> DNodes] /\ r[0] = h /\ r[0 + 1] = h
  <2>1. r = [i \in 0..0 + 1 |-> IF i \in 1..0 THEN << >>[i] ELSE h]
    BY <1>7 DEF RingOf
  <2>2. \A i \in 0..0 + 1 : i \notin 1..0
    OBVIOUS
  <2> QED
    BY <1>1, <2>1, <2>2
<1> HIDE DEF r
<1>9. Ring(w, r, 0)
  <2>1. \A i \in 0..0 : i = 0
    OBVIOUS
  <2> QED
    BY <1>6, <1>8, <2>1 DEF Ring, IsRing, Linked
<1>10. Relisted(h, w, << >>)
  BY <1>5, <1>6, <1>7, <1>9 DEF Relisted, r
<1> QED
  BY <1>3, <1>10, OneList

\* swap exchanges two objects of a list, neighbours or not.
LEMMA ItemsSwapped ==
  ASSUME DInv, NEW h \in Usable, NEW x, NEW y, DSwap(h, x, y)
  PROVE  DInv'
<1> DEFINE s == dseq[h]
           n == Len(s)
           i == PlaceOf(h, x)
           j == PlaceOf(h, y)
           r == RingOf(h, s)
           u == [s EXCEPT ![i] = y, ![j] = x]
           w == swap(dmem, r[i], r[j])
<1>1. /\ x \in ToSet(s) /\ y \in ToSet(s) /\ s \in Seq(Objs) /\ n \in Nat
      /\ Ring(dmem, r, n) /\ dmem \in Mems /\ h \in DNodes /\ dseq \in [DLists -> Seq(Objs)] /\ h \in DLists
  BY Listed DEF DSwap, DInv, Usable
<1>2. i \in 1..n /\ s[i] = x /\ r[i] = x /\ j \in 1..n /\ s[j] = y /\ r[j] = y
  BY <1>1, PlaceFound
<1>3. dmem' = swap(dmem, x, y) /\ dseq' = [dseq EXCEPT ![h][i] = y, ![h][j] = x] /\ UNCHANGED dmoved
  BY DEF DSwap
<1> HIDE DEF i, j
<1>4. dseq' = [dseq EXCEPT ![h] = u]
  BY <1>1, <1>3
<1>5. AreExchanged(u, s, i, j)
  BY <1>2 DEF AreExchanged
<1>6. /\ u \in Seq(Objs) /\ Len(u) = n /\ RingOf(h, u) = Exchanged(r, n, i, j)
      /\ \A c : c \in ToSet(u) <=> c \in ToSet(s)
  <2>1. h \in DNodes /\ s \in Seq(Objs) /\ i \in 1..Len(s) /\ j \in 1..Len(s)
    BY <1>1, <1>2
  <2> HIDE DEF s, u
  <2> QED
    BY <1>5, <2>1, RingExchanged
<1>7. \A c : On(r, n, c) <=> c = h \/ c \in ToSet(s)
  BY <1>1, OnRing
<1> HIDE DEF u, r, n
<1>8. /\ w \in Mems /\ \A c \in DNodes : ~On(r, n, c) => w[c] = dmem[c]
      /\ Ring(w, Exchanged(r, n, i, j), n)
  BY <1>1, <1>2, Swapped
<1>9. dmem' = w
  BY <1>2, <1>3
<1> HIDE DEF w
<1>10. Relisted(h, w, u)
  BY <1>6, <1>7, <1>8 DEF Relisted
<1> QED
  BY <1>3, <1>4, <1>9, <1>10, OneList

\* A list says it is empty exactly when it has no objects.
LEMMA EmptyToldRight ==
  ASSUME DInv, NEW h \in Usable
  PROVE  isEmpty(h) <=> dseq[h] = << >>
<1> DEFINE s == dseq[h]
           n == Len(s)
           r == RingOf(h, s)
<1>1. h \in DNodes /\ h \notin Objs /\ s \in Seq(Objs) /\ n \in Nat /\ Ring(dmem, r, n)
  BY Listed
<1>2. r[0] = h /\ r[n + 1] = h /\ \A i \in 1..n : r[i] = s[i] /\ s[i] \in Objs
  BY <1>1, OnRing
<1>3. dmem[h].next = r[1]
  <2>1. 0 \in 0..n /\ 0 + 1 = 1
    BY <1>1
  <2> HIDE DEF r, n
  <2> QED
    BY <1>1, <1>2, <2>1 DEF Ring, Linked
<1>4. CASE n = 0
  <2>1. s = << >>
    BY <1>1, <1>4
  <2>2. dmem[h].next = h
    BY <1>2, <1>3, <1>4
  <2> QED
    BY <2>1, <2>2 DEF isEmpty
<1>5. CASE n # 0
  <2>1. s # << >>
    BY <1>5
  <2> HIDE DEF n, r
  <2>2. 1 \in 1..n
    BY <1>1, <1>5
  <2>3. dmem[h].next # h
    BY <1>1, <1>2, <1>3, <2>2
  <2> QED
    BY <2>1, <2>3 DEF isEmpty
<1> QED
  BY <1>4, <1>5

\* Nothing that the invariant reads has changed.
LEMMA NothingChanged ==
  ASSUME DInv, UNCHANGED dlistVars
  PROVE  DInv'
<1>1. dmem' = dmem /\ dseq' = dseq /\ dmoved' = dmoved
  BY DEF dlistVars
<1>2. Usable' = Usable /\ Loose' = Loose
  BY <1>1 DEF Usable, Loose
<1> QED
  BY <1>1, <1>2 DEF DInv

\* moveList puts the objects of one list at the end of another.
LEMMA ListMoved ==
  ASSUME DInv, NEW h \in Usable, NEW g, DMove(h, g), ~isEmpty(g)
  PROVE  DInv'
<1> DEFINE s == dseq[h]
           t == dseq[g]
           u == s \o t
           n == Len(s)
           l == Len(t)
           a == RingOf(h, s)
           b == RingOf(g, t)
           w == moveList(dmem, a[0], b[0])
<1>1. /\ g \in Usable /\ g # h /\ t # << >> /\ h \in DLists /\ g \in DLists
      /\ dseq \in [DLists -> Seq(Objs)] /\ dmoved \subseteq DLists
  BY EmptyToldRight DEF DMove, DInv, Usable
<1>2. /\ h \in DNodes /\ h \notin Objs /\ s \in Seq(Objs) /\ n \in Nat /\ Ring(dmem, a, n) /\ dmem \in Mems
      /\ g \in DNodes /\ g \notin Objs /\ t \in Seq(Objs) /\ l \in Nat /\ Ring(dmem, b, l)
      /\ ToSet(s) \subseteq Objs /\ ToSet(t) \subseteq Objs /\ Objs \subseteq DNodes
  BY <1>1, Listed
<1>3. /\ a[0] = h /\ \A c : On(a, n, c) <=> c = h \/ c \in ToSet(s)
      /\ b[0] = g /\ \A c : On(b, l, c) <=> c = g \/ c \in ToSet(t)
  BY <1>2, OnRing
<1>4. ToSet(s) \cap ToSet(t) = {}
  BY <1>1 DEF DInv
<1>5. l # 0
  BY <1>1, <1>2
<1>6. /\ u \in Seq(Objs) /\ Len(u) = n + l /\ RingOf(h, u) = Joined(a, n, b, l)
      /\ \A c : c \in ToSet(u) <=> c \in ToSet(s) \/ c \in ToSet(t)
  BY <1>2, RingJoined
<1>7. dmem' = w /\ dseq' = [dseq EXCEPT ![h] = u, ![g] = << >>] /\ dmoved' = dmoved \cup {g}
  BY <1>3 DEF DMove
<1> HIDE DEF u, s, t, n, l, a, b
<1>8. \A i \in 0..l : ~On(a, n, b[i])
  <2>1. \A i \in 0..l : On(b, l, b[i])
    BY DEF On
  <2> QED
    BY <1>1, <1>2, <1>3, <1>4, <2>1
<1>9. /\ w \in Mems /\ \A c \in DNodes : ~On(a, n, c) /\ ~On(b, l, c) => w[c] = dmem[c]
      /\ Ring(w, Joined(a, n, b, l), n + l)
  BY <1>2, <1>5, <1>8, Moved
<1> HIDE DEF w
<1>10. /\ Usable' = Usable \ {g} /\ dseq' \in [DLists -> Seq(Objs)] /\ dmoved' \subseteq DLists
       /\ dseq'[h] = u /\ \A f \in Usable' : f # h => dseq'[f] = dseq[f] /\ f \in Usable /\ f # g
  BY <1>1, <1>2, <1>6, <1>7 DEF Usable
<1>11. h \in Usable'
  BY <1>1, <1>10
<1>12. ASSUME NEW f \in Usable, f # h, f # g
       PROVE  ToSet(dseq[f]) \cap ToSet(u) = {}
  <2>1. ToSet(dseq[f]) \cap ToSet(s) = {} /\ ToSet(dseq[f]) \cap ToSet(t) = {}
    BY <1>1, <1>12 DEF DInv, s, t
  <2> QED
    BY <1>6, <2>1
<1>13. ASSUME NEW f \in Usable', NEW e \in Usable', f # e
       PROVE  ToSet(dseq'[f]) \cap ToSet(dseq'[e]) = {}
  <2>1. CASE f = h
    BY <1>10, <1>12, <1>13, <2>1
  <2>2. CASE e = h
    BY <1>10, <1>12, <1>13, <2>2
  <2>3. CASE f # h /\ e # h
    BY <1>10, <1>13, <2>3 DEF DInv
  <2> QED
    BY <2>1, <2>2, <2>3
<1>14. ASSUME NEW f \in Usable'
       PROVE  Ring(dmem', RingOf(f, dseq'[f]), Len(dseq'[f]))
  <2>1. CASE f = h
    BY <1>6, <1>7, <1>9, <1>10, <2>1
  <2>2. CASE f # h
    <3> DEFINE v == dseq[f]
               r == RingOf(f, v)
               k == Len(v)
    <3>1. dseq'[f] = v /\ f \in Usable /\ f # g
      BY <1>10, <2>2
    <3>2. /\ Ring(dmem, r, k) /\ f \in DNodes /\ f \notin Objs /\ v \in Seq(Objs) /\ ToSet(v) \subseteq Objs /\ k \in Nat
      BY <3>1, Listed
    <3>3. \A c : On(r, k, c) <=> c = f \/ c \in ToSet(v)
      BY <3>2, OnRing
    <3>4. ToSet(v) \cap ToSet(u) = {}
      BY <1>12, <2>2, <3>1
    <3> HIDE DEF v, r, k
    <3>5. \A c \in DNodes : On(r, k, c) => dmem'[c] = dmem[c]
      BY <1>2, <1>3, <1>6, <1>7, <1>9, <2>2, <3>1, <3>2, <3>3, <3>4
    <3>6. Ring(dmem', r, k)
      BY <3>2, <3>5, StillRing
    <3> QED
      BY <3>1, <3>6 DEF v, r, k
  <2> QED
    BY <2>1, <2>2
<1>15. ASSUME NEW c \in Loose'
       PROVE  dmem'[c].next = DNull
  <2>1. c \in Objs /\ c \notin ToSet(u) /\ \A f \in Usable' : f # h => c \notin ToSet(dseq[f])
    BY <1>10, <1>11 DEF Loose
  <2>2. c \notin ToSet(s) /\ c \notin ToSet(t)
    BY <1>6, <2>1
  <2>3. c \in Loose
    <3>1. \A f \in Usable : f = h \/ f = g \/ f \in Usable'
      BY <1>10
    <3> QED
      BY <2>1, <2>2, <3>1 DEF Loose, s, t
  <2>4. c \in DNodes /\ c # h /\ c # g
    BY <1>2, <2>1
  <2>5. dmem'[c] = dmem[c]
    BY <1>3, <1>7, <1>9, <2>2, <2>4
  <2> QED
    BY <2>3, <2>5 DEF DInv
<1> QED
  BY <1>7, <1>9, <1>10, <1>13, <1>14, <1>15 DEF DInv

\* moveList of an empty list changes nothing.
LEMMA NothingMoved ==
  ASSUME DInv, NEW h \in Usable, NEW g, DMove(h, g), isEmpty(g)
  PROVE  DInv'
<1>1. g \in Usable /\ h \in DLists /\ g \in DLists /\ dseq \in [DLists -> Seq(Objs)] /\ dseq[g] = << >>
  BY EmptyToldRight DEF DMove, DInv, Usable
<1>2. dmem' = dmem /\ dmoved' = dmoved
  BY DEF DMove, moveList, isEmpty
<1>3. dseq[h] \o << >> = dseq[h]
  BY <1>1
<1>4. dseq' = dseq
  BY <1>1, <1>3 DEF DMove
<1> QED
  BY <1>2, <1>4, NothingChanged DEF dlistVars

\* The lists start empty, and every object is on none.
LEMMA ListsBegin ==
  ASSUME DListInit
  PROVE  DInv
<1>1. /\ dmem = [c \in DNodes |-> IF c \in DLists THEN DList(c) ELSE DListNode]
      /\ dseq = [h \in DLists |-> << >>] /\ dmoved = {} /\ Usable = DLists
  BY DEF DListInit, Usable
<1>2. dmem \in Mems
  BY <1>1 DEF Mems, Addrs, DList, DListNode
<1>3. << >> \in Seq(Objs) /\ Len(<< >>) = 0 /\ ToSet(<< >>) = {}
  BY DEF ToSet
<1>4. ASSUME NEW h \in Usable
      PROVE  Ring(dmem, RingOf(h, dseq[h]), Len(dseq[h]))
  <2> DEFINE r == RingOf(h, << >>)
  <2>1. h \in DNodes /\ dseq[h] = << >> /\ dmem[h].next = h /\ dmem[h].prev = h
    BY <1>1 DEF DNodes, DList
  <2>2. r \in [0..0 + 1 -> DNodes] /\ r[0] = h /\ r[0 + 1] = h
    <3>1. r = [i \in 0..0 + 1 |-> IF i \in 1..0 THEN << >>[i] ELSE h]
      BY <1>3 DEF RingOf
    <3>2. \A i \in 0..0 + 1 : i \notin 1..0
      OBVIOUS
    <3> QED
      BY <2>1, <3>1, <3>2
  <2> HIDE DEF r
  <2>3. Ring(dmem, r, 0)
    <3>1. \A i \in 0..0 : i = 0
      OBVIOUS
    <3> QED
      BY <2>1, <2>2, <3>1 DEF Ring, IsRing, Linked
  <2> QED
    BY <1>3, <2>1, <2>3 DEF r
<1>5. \A t \in Loose : dmem[t].next = DNull
  <2>1. \A t \in Loose : t \in DNodes /\ t \notin DLists
    BY DListAssumption DEF Loose, DNodes
  <2> QED
    BY <1>1, <2>1 DEF DListNode
<1>6. \A g, h \in Usable : ToSet(dseq[g]) \cap ToSet(dseq[h]) = {}
  BY <1>1, <1>3
<1>7. dseq \in [DLists -> Seq(Objs)]
  BY <1>1, <1>3
<1> QED
  BY <1>1, <1>2, <1>4, <1>5, <1>6, <1>7 DEF DInv

\* The links of every list are a ring in every state.
LEMMA DInvHolds == DListSpec => []DInv
<1>1. DListInit => DInv
  BY ListsBegin
<1>2. DInv /\ [DListNext]_dlistVars => DInv'
  <2> SUFFICES ASSUME DInv, [DListNext]_dlistVars
               PROVE  DInv'
    OBVIOUS
  <2>1. CASE UNCHANGED dlistVars
    BY <2>1, NothingChanged
  <2>2. CASE DListNext
    <3> PICK h \in Usable :
          \/ removeHead(h) \/ removeAll(h) \/ deleteItems(h)
          \/ \E t \in Objs : addHead(h, t) \/ addTail(h, t) \/ DRemove(h, t)
          \/ \E t, s \in Objs : DInsert(h, t, s) \/ DSwap(h, t, s)
          \/ \E source \in DLists : DMove(h, source)
      BY <2>2 DEF DListNext
    <3>1. CASE removeHead(h)
      BY <3>1, HeadRemoved
    <3>2. CASE removeAll(h)
      BY <3>2, AllRemoved
    <3>3. CASE deleteItems(h)
      BY <3>3, ItemsDeleted
    <3>4. ASSUME NEW t \in Objs, addHead(h, t)
          PROVE  DInv'
      BY <3>4, HeadAdded
    <3>5. ASSUME NEW t \in Objs, addTail(h, t)
          PROVE  DInv'
      BY <3>5, TailAdded
    <3>6. ASSUME NEW t \in Objs, DRemove(h, t)
          PROVE  DInv'
      BY <3>6, Removed
    <3>7. ASSUME NEW t \in Objs, NEW s \in Objs, DInsert(h, t, s)
          PROVE  DInv'
      BY <3>7, Inserted
    <3>8. ASSUME NEW t \in Objs, NEW s \in Objs, DSwap(h, t, s)
          PROVE  DInv'
      BY <3>8, ItemsSwapped
    <3>9. ASSUME NEW source \in DLists, DMove(h, source)
          PROVE  DInv'
      BY <3>9, ListMoved, NothingMoved
    <3> QED
      BY <3>1, <3>2, <3>3, <3>4, <3>5, <3>6, <3>7, <3>8, <3>9
  <2> QED
    BY <2>1, <2>2
<1> QED
  BY <1>1, <1>2, PTL DEF DListSpec

\* Whatever is inserted, swapped, moved and removed, every list that was not
\* moved from is its sequence, read from either end and asked for members, and
\* an object says that it is on a list exactly when it is on one.
THEOREM ListsAreSequences == DListSpec => []DListIsSequence
<1>1. DInv => DListIsSequence
  <2> SUFFICES ASSUME DInv
               PROVE  DListIsSequence
    OBVIOUS
  <2>1. ASSUME NEW t \in Objs
        PROVE  isOnList(t) <=> t \notin Loose
    <3>1. CASE t \in Loose
      BY <3>1 DEF DInv, isOnList
    <3>2. CASE t \notin Loose
      <4>1. PICK h \in Usable : t \in ToSet(dseq[h])
        BY <3>2 DEF Loose
      <4> DEFINE n == Len(dseq[h])
                 r == RingOf(h, dseq[h])
      <4>2. /\ Ring(dmem, r, n) /\ n \in Nat
        BY Listed
      <4>3. h \in DNodes /\ dseq[h] \in Seq(Objs)
        BY Listed
      <4>4. On(r, n, t)
        BY <4>1, <4>3, OnRing
      <4> HIDE DEF n, r
      <4>5. PICK i \in 0..n : r[i] = t
        BY <4>4 DEF On
      <4>6. i + 1 \in 0..n + 1
        BY <4>2
      <4>7. dmem[t].next \in DNodes
        BY <4>2, <4>5, <4>6 DEF Ring, IsRing, Linked
      <4> QED
        BY <3>2, <4>7, DListAssumption DEF isOnList, DNodes
    <3> QED
      BY <3>1, <3>2
  <2>2. ASSUME NEW h \in Usable
        PROVE  /\ foreach(h, {}) = dseq[h]
               /\ backward(h) = Reverse(dseq[h])
               /\ isEmpty(h) <=> dseq[h] = << >>
               /\ \A t \in Objs : isMember(h, t) <=> t \in ToSet(dseq[h])
    BY ListRead, EmptyToldRight
  <2> QED
    BY <2>1, <2>2 DEF DListIsSequence
<1> QED
  BY <1>1, DInvHolds, PTL

-----------------------------------------------------------------------------
(* The queue macros.  A queue is a chain: a[0] is the head, the n elements *)
(* follow, and a[n + 1] is where its kind of list ends.                    *)

QAddrs == Cells \cup {QNull, Garbage}
Memories == [next : [Cells -> QAddrs], prev : [Cells -> QAddrs]]
Doubly == {"LIST", "TAILQ", "CIRCLEQ", "QUE"}
Tailed == {"STAILQ", "TAILQ", "CIRCLEQ", "QUE"}
EndOf(kind) == IF kind \in {"CIRCLEQ", "QUE"} THEN QHead ELSE QNull

IsChain(kind, a, n) ==
  /\ n \in Nat /\ a \in [0..n + 1 -> Cells \cup {QNull}] /\ a[0] = QHead /\ a[n + 1] = EndOf(kind)
  /\ \A i \in 1..n : a[i] \in Elems
  /\ \A i, j \in 0..n : i # j => a[i] # a[j]
\* The fields of each kind of list: all have the forward one, some the backward
\* one of elements and some that of the head.
Fields(m, kind, a, n) ==
  /\ \A i \in 0..n : m.next[a[i]] = a[i + 1]
  /\ kind \in Doubly => \A i \in 1..n : m.prev[a[i]] = a[i - 1]
  /\ kind \in Tailed => m.prev[QHead] = a[n]
Chained(m, kind, a, n) == m \in Memories /\ IsChain(kind, a, n) /\ Fields(m, kind, a, n)

\* What putting x in behind place k does, and taking out the element there.
Spliced(m, w, kind, a, n, k, x) ==
  /\ w \in Memories
  /\ w.next[x] = a[k + 1] /\ w.next[a[k]] = x /\ \A i \in 0..n : i # k => w.next[a[i]] = m.next[a[i]]
  /\ kind \in Doubly =>
       /\ w.prev[x] = a[k]
       /\ k < n => w.prev[a[k + 1]] = x
       /\ \A i \in 1..n : i # k + 1 => w.prev[a[i]] = m.prev[a[i]]
  /\ kind \in Tailed => w.prev[QHead] = IF k = n THEN x ELSE m.prev[QHead]
Unspliced(m, w, kind, a, n, k) ==
  /\ w \in Memories
  /\ w.next[a[k - 1]] = a[k + 1] /\ \A i \in 0..n : i # k - 1 /\ i # k => w.next[a[i]] = m.next[a[i]]
  /\ kind \in Doubly =>
       /\ k < n => w.prev[a[k + 1]] = a[k - 1]
       /\ \A i \in 1..n : i # k /\ i # k + 1 => w.prev[a[i]] = m.prev[a[i]]
  /\ kind \in Tailed => w.prev[QHead] = IF k = n THEN a[n - 1] ELSE m.prev[QHead]

\* It is a chain again with x behind place k.
LEMMA ChainGrows ==
  ASSUME NEW kind, NEW m, NEW w, NEW a, NEW n, Chained(m, kind, a, n), NEW k \in 0..n, NEW x \in Elems,
         \A i \in 0..n : a[i] # x, Spliced(m, w, kind, a, n, k, x)
  PROVE  Chained(w, kind, Grown(a, n, k, x), n + 1)
<1> DEFINE b == Grown(a, n, k, x)
<1>1. /\ n \in Nat /\ a \in [0..n + 1 -> Cells \cup {QNull}] /\ a[0] = QHead /\ a[n + 1] = EndOf(kind)
      /\ \A i \in 1..n : a[i] \in Elems
      /\ \A i, j \in 0..n : i # j => a[i] # a[j]
      /\ x \in Cells /\ w \in Memories
  BY DEF Chained, IsChain, Cells, Spliced
<1>2. \A i \in 0..n + 2 : b[i] = IF i <= k THEN a[i] ELSE IF i = k + 1 THEN x ELSE a[i - 1]
  BY DEF Grown
<1>3. b \in [0..n + 1 + 1 -> Cells \cup {QNull}]
  <2>1. \A i \in 0..n + 2 : (i <= k => i \in 0..n + 1) /\ (~(i <= k) => i - 1 \in 0..n + 1)
    BY <1>1
  <2>2. n + 1 + 1 = n + 2
    BY <1>1
  <2> QED
    BY <1>1, <2>1, <2>2 DEF Grown
<1> HIDE DEF b
<1>4. \A i \in 0..n : b[IF i <= k THEN i ELSE i + 1] = a[i]
  <2> SUFFICES ASSUME NEW i \in 0..n
               PROVE  b[IF i <= k THEN i ELSE i + 1] = a[i]
    OBVIOUS
  <2>1. CASE i <= k
    BY <1>1, <1>2, <2>1
  <2>2. CASE ~(i <= k)
    <3>1. i + 1 \in 0..n + 2 /\ ~(i + 1 <= k) /\ i + 1 # k + 1 /\ i + 1 - 1 = i
      BY <1>1, <2>2
    <3> QED
      BY <1>2, <2>2, <3>1
  <2> QED
    BY <2>1, <2>2
<1>5. b[k + 1] = x
  <2>1. k + 1 \in 0..n + 2 /\ ~(k + 1 <= k)
    BY <1>1
  <2> QED
    BY <1>2, <2>1
<1>6. b[0] = QHead /\ b[n + 2] = EndOf(kind)
  <2>1. 0 \in 0..n + 2 /\ 0 <= k /\ n + 2 \in 0..n + 2 /\ ~(n + 2 <= k) /\ n + 2 # k + 1 /\ n + 2 - 1 = n + 1
    BY <1>1
  <2> QED
    BY <1>1, <1>2, <2>1
<1>7. \A i \in 0..n + 1 : i = k + 1 \/ (i <= k /\ i \in 0..n) \/ (~(i <= k) /\ i - 1 \in 0..n /\ i - 1 # k)
  BY <1>1
<1>8. ASSUME NEW i \in 0..n + 1, NEW j \in 0..n + 1, i < j
      PROVE  b[i] # b[j]
  <2>0. i \in 0..n + 2 /\ j \in 0..n + 2 /\ i # j
    BY <1>1, <1>8
  <2>1. CASE i = k + 1
    <3>1. ~(j <= k) /\ j # k + 1 /\ j - 1 \in 0..n
      BY <1>1, <1>8, <2>1
    <3> QED
      BY <1>2, <1>5, <2>0, <2>1, <3>1
  <2>2. CASE j = k + 1
    <3>1. i <= k /\ i \in 0..n
      BY <1>1, <1>8, <2>2
    <3> QED
      BY <1>2, <1>5, <2>0, <2>2, <3>1
  <2>3. CASE i # k + 1 /\ j # k + 1
    <3>1. CASE j <= k
      <4>1. i <= k /\ i \in 0..n /\ j \in 0..n
        BY <1>1, <1>8, <3>1
      <4> QED
        BY <1>1, <1>2, <2>0, <3>1, <4>1
    <3>2. CASE ~(j <= k) /\ i <= k
      <4>1. i \in 0..n /\ j - 1 \in 0..n /\ i # j - 1
        BY <1>1, <1>8, <2>3, <3>2
      <4> QED
        BY <1>1, <1>2, <2>0, <2>3, <3>2, <4>1
    <3>3. CASE ~(j <= k) /\ ~(i <= k)
      <4>1. i - 1 \in 0..n /\ j - 1 \in 0..n /\ i - 1 # j - 1
        BY <1>1, <1>8, <2>3, <3>3
      <4> QED
        BY <1>1, <1>2, <2>0, <2>3, <3>3, <4>1
    <3> QED
      BY <3>1, <3>2, <3>3
  <2> QED
    BY <2>1, <2>2, <2>3
<1>9. IsChain(kind, b, n + 1)
  <2>1. \A i \in 1..n + 1 : b[i] \in Elems
    <3> SUFFICES ASSUME NEW i \in 1..n + 1
                 PROVE  b[i] \in Elems
      OBVIOUS
    <3>0. i \in 0..n + 2
      BY <1>1
    <3>1. CASE i <= k
      <4>1. i \in 1..n
        BY <1>1, <3>1
      <4> QED
        BY <1>1, <1>2, <3>0, <3>1, <4>1
    <3>2. CASE i = k + 1
      BY <1>5, <3>2
    <3>3. CASE ~(i <= k) /\ i # k + 1
      <4>1. i - 1 \in 1..n
        BY <1>1, <3>3
      <4> QED
        BY <1>1, <1>2, <3>0, <3>3, <4>1
    <3> QED
      BY <3>1, <3>2, <3>3
  <2>2. \A i, j \in 0..n + 1 : i # j => b[i] # b[j]
    <3>1. \A i, j \in 0..n + 1 : i # j => i < j \/ j < i
      BY <1>1
    <3> QED
      BY <1>8, <3>1
  <2>3. n + 1 + 1 = n + 2 /\ n + 1 \in Nat
    BY <1>1
  <2> QED
    BY <1>3, <1>6, <2>1, <2>2, <2>3 DEF IsChain
<1>10. ASSUME NEW i \in 0..n + 1
       PROVE  w.next[b[i]] = b[i + 1]
  <2>0. i \in 0..n + 2 /\ i + 1 \in 0..n + 2 /\ i + 1 - 1 = i
    BY <1>1
  <2>1. CASE i = k + 1
    <3>1. ~(i + 1 <= k) /\ i + 1 # k + 1
      BY <1>1, <2>1
    <3>2. b[i + 1] = a[k + 1]
      BY <1>2, <2>0, <2>1, <3>1
    <3> QED
      BY <1>5, <2>1, <3>2 DEF Spliced
  <2>2. CASE i = k
    <3>1. b[i] = a[k] /\ b[i + 1] = x
      BY <1>2, <1>5, <2>0, <2>2
    <3> QED
      BY <3>1 DEF Spliced
  <2>3. CASE i < k
    <3>1. i \in 0..n /\ i <= k /\ i + 1 <= k /\ i # k
      BY <1>1, <2>3
    <3>2. b[i] = a[i] /\ b[i + 1] = a[i + 1]
      BY <1>2, <2>0, <3>1
    <3> QED
      BY <3>1, <3>2 DEF Spliced, Chained, Fields
  <2>4. CASE k + 1 < i
    <3> DEFINE e == i - 1
    <3>1. e \in 0..n /\ e # k /\ e + 1 = i /\ ~(i <= k) /\ i # k + 1 /\ ~(i + 1 <= k) /\ i + 1 # k + 1
      BY <1>1, <2>4
    <3>2. b[i] = a[e] /\ b[i + 1] = a[i]
      BY <1>2, <2>0, <3>1
    <3> HIDE DEF e
    <3>3. w.next[a[e]] = a[e + 1]
      BY <3>1 DEF Spliced, Chained, Fields
    <3> QED
      BY <3>1, <3>2, <3>3
  <2> QED
    BY <1>1, <2>1, <2>2, <2>3, <2>4
<1>11. ASSUME kind \in Doubly, NEW i \in 1..n + 1
       PROVE  w.prev[b[i]] = b[i - 1]
  <2> DEFINE e == i - 1
  <2>0. i \in 0..n + 2 /\ e \in 0..n + 2 /\ e \in 0..n /\ e + 1 = i
    BY <1>1
  <2>1. CASE i = k + 1
    <3>1. e = k /\ b[e] = a[k]
      BY <1>1, <1>2, <2>0, <2>1
    <3> QED
      BY <1>5, <1>11, <2>1, <3>1 DEF Spliced
  <2>2. CASE i = k + 2
    <3>1. ~(i <= k) /\ i # k + 1 /\ e = k + 1 /\ k < n
      BY <1>1, <2>2
    <3>2. b[i] = a[k + 1] /\ b[e] = x
      BY <1>2, <1>5, <2>0, <3>1
    <3> QED
      BY <1>11, <3>1, <3>2 DEF Spliced
  <2>3. CASE i <= k
    <3>1. i \in 1..n /\ i # k + 1 /\ e <= k
      BY <1>1, <2>3
    <3>2. b[i] = a[i] /\ b[e] = a[e]
      BY <1>2, <2>0, <2>3, <3>1
    <3> QED
      BY <1>11, <3>1, <3>2 DEF Spliced, Chained, Fields
  <2>4. CASE k + 2 < i
    <3>1. e \in 1..n /\ e # k + 1 /\ ~(i <= k) /\ i # k + 1 /\ ~(e <= k)
      BY <1>1, <2>0, <2>4
    <3>2. b[i] = a[e] /\ b[e] = a[e - 1]
      BY <1>2, <2>0, <3>1
    <3> HIDE DEF e
    <3>3. w.prev[a[e]] = a[e - 1]
      BY <1>11, <3>1 DEF Spliced, Chained, Fields
    <3> QED
      BY <3>2, <3>3 DEF e
  <2> QED
    BY <1>1, <2>1, <2>2, <2>3, <2>4
<1>12. ASSUME kind \in Tailed
       PROVE  w.prev[QHead] = b[n + 1]
  <2>1. n + 1 \in 0..n + 2 /\ ~(n + 1 <= k) /\ n + 1 - 1 = n
    BY <1>1
  <2>2. CASE k = n
    BY <1>5, <1>12, <2>2 DEF Spliced
  <2>3. CASE k # n
    <3>1. n + 1 # k + 1
      BY <1>1, <2>3
    <3>2. b[n + 1] = a[n]
      BY <1>1, <1>2, <2>1, <3>1
    <3> QED
      BY <1>12, <2>3, <3>2 DEF Spliced, Chained, Fields
  <2> QED
    BY <2>2, <2>3
<1>13. Fields(w, kind, b, n + 1)
  BY <1>10, <1>11, <1>12 DEF Fields
<1> QED
  BY <1>1, <1>9, <1>13 DEF Chained, b

\* It is a chain again without the element at place k.
LEMMA ChainShrinks ==
  ASSUME NEW kind, NEW m, NEW w, NEW a, NEW n, Chained(m, kind, a, n), NEW k \in 1..n,
         Unspliced(m, w, kind, a, n, k)
  PROVE  Chained(w, kind, Cut(a, n, k), n - 1)
<1> DEFINE b == Cut(a, n, k)
           l == n - 1
<1>1. /\ n \in Nat /\ a \in [0..n + 1 -> Cells \cup {QNull}] /\ a[0] = QHead /\ a[n + 1] = EndOf(kind)
      /\ \A i \in 1..n : a[i] \in Elems
      /\ \A i, j \in 0..n : i # j => a[i] # a[j]
      /\ w \in Memories
  BY DEF Chained, IsChain, Unspliced
<1>2. \A i \in 0..n : b[i] = IF i < k THEN a[i] ELSE a[i + 1]
  BY DEF Cut
<1>3. l \in Nat /\ l + 1 = n /\ k \in Nat /\ k # 0 /\ k <= n
  BY <1>1
<1>4. b \in [0..l + 1 -> Cells \cup {QNull}]
  <2>1. \A i \in 0..n : i \in 0..n + 1 /\ i + 1 \in 0..n + 1
    BY <1>1
  <2> QED
    BY <1>1, <1>3, <2>1 DEF Cut
<1> HIDE DEF b, l
<1>5. b[0] = QHead /\ b[l + 1] = EndOf(kind)
  <2>1. 0 \in 0..n /\ 0 < k /\ n \in 0..n /\ ~(n < k)
    BY <1>1
  <2> QED
    BY <1>1, <1>2, <1>3, <2>1
<1>6. IsChain(kind, b, l)
  <2>1. ASSUME NEW i \in 1..l
        PROVE  b[i] \in Elems
    <3>1. i \in 0..n /\ i \in 1..n /\ i + 1 \in 1..n
      BY <1>3
    <3> QED
      BY <1>1, <1>2, <3>1
  <2>2. ASSUME NEW i \in 0..l, NEW j \in 0..l, i # j
        PROVE  b[i] # b[j]
    <3>1. i \in 0..n /\ i + 1 \in 0..n /\ j \in 0..n /\ j + 1 \in 0..n /\ i + 1 # j + 1
      BY <1>3, <2>2
    <3>2. (i < k /\ ~(j < k) => i # j + 1) /\ (~(i < k) /\ j < k => i + 1 # j)
      BY <1>3
    <3> QED
      BY <1>1, <1>2, <2>2, <3>1, <3>2
  <2> QED
    BY <1>3, <1>4, <1>5, <2>1, <2>2 DEF IsChain
<1>7. ASSUME NEW i \in 0..l
      PROVE  w.next[b[i]] = b[i + 1]
  <2>0. i \in 0..n /\ i + 1 \in 0..n
    BY <1>3
  <2>1. CASE i = k - 1
    <3>1. i < k /\ ~(i + 1 < k) /\ i + 1 + 1 = k + 1
      BY <1>3, <2>1
    <3>2. b[i] = a[k - 1] /\ b[i + 1] = a[k + 1]
      BY <1>2, <2>0, <2>1, <3>1
    <3> QED
      BY <3>2 DEF Unspliced
  <2>2. CASE i < k - 1
    <3>1. i < k /\ i + 1 < k /\ i # k - 1 /\ i # k
      BY <1>3, <2>2
    <3>2. b[i] = a[i] /\ b[i + 1] = a[i + 1]
      BY <1>2, <2>0, <3>1
    <3> QED
      BY <2>0, <3>1, <3>2 DEF Unspliced, Chained, Fields
  <2>3. CASE k - 1 < i
    <3> DEFINE e == i + 1
    <3>1. ~(i < k) /\ ~(e < k) /\ e # k - 1 /\ e # k /\ e \in 0..n
      BY <1>3, <2>3
    <3>2. b[i] = a[e] /\ b[i + 1] = a[e + 1]
      BY <1>2, <2>0, <3>1
    <3> HIDE DEF e
    <3>3. w.next[a[e]] = a[e + 1]
      BY <3>1 DEF Unspliced, Chained, Fields
    <3> QED
      BY <3>2, <3>3
  <2> QED
    BY <1>3, <2>1, <2>2, <2>3
<1>8. ASSUME kind \in Doubly, NEW i \in 1..l
      PROVE  w.prev[b[i]] = b[i - 1]
  <2> DEFINE e == i - 1
             f == i + 1
  <2>0. i \in 0..n /\ e \in 0..n /\ e + 1 = i /\ f - 1 = i /\ f \in 1..n
    BY <1>3
  <2>1. CASE i = k
    <3>1. ~(i < k) /\ e < k /\ e = k - 1 /\ k < n
      BY <1>3, <2>1
    <3>2. b[i] = a[k + 1] /\ b[e] = a[k - 1]
      BY <1>2, <2>0, <2>1, <3>1
    <3> QED
      BY <1>8, <3>1, <3>2 DEF Unspliced
  <2>2. CASE i < k
    <3>1. e < k /\ i # k /\ i # k + 1 /\ i \in 1..n
      BY <1>3, <2>0, <2>2
    <3>2. b[i] = a[i] /\ b[e] = a[e]
      BY <1>2, <2>0, <2>2, <3>1
    <3> QED
      BY <1>8, <3>1, <3>2 DEF Unspliced, Chained, Fields
  <2>3. CASE k < i
    <3>1. ~(i < k) /\ ~(e < k) /\ f # k /\ f # k + 1
      BY <1>3, <2>0, <2>3
    <3>2. b[i] = a[f] /\ b[e] = a[e + 1]
      BY <1>2, <2>0, <3>1
    <3> HIDE DEF e, f
    <3>3. w.prev[a[f]] = a[f - 1]
      BY <1>8, <2>0, <3>1 DEF Unspliced, Chained, Fields
    <3> QED
      BY <2>0, <3>2, <3>3 DEF e
  <2> QED
    BY <1>3, <2>1, <2>2, <2>3
<1>9. ASSUME kind \in Tailed
      PROVE  w.prev[QHead] = b[l]
  <2>1. l \in 0..n /\ l = n - 1
    BY <1>3 DEF l
  <2>2. CASE k = n
    <3>1. l < k
      BY <1>3, <2>2
    <3> QED
      BY <1>2, <1>9, <2>1, <2>2, <3>1 DEF Unspliced
  <2>3. CASE k # n
    <3>1. ~(l < k)
      BY <1>3, <2>3
    <3>2. b[l] = a[n]
      BY <1>2, <1>3, <2>1, <3>1
    <3> QED
      BY <1>9, <2>3, <3>2 DEF Unspliced, Chained, Fields
  <2> QED
    BY <2>2, <2>3
<1>10. Fields(w, kind, b, l)
  BY <1>7, <1>8, <1>9 DEF Fields
<1> QED
  BY <1>1, <1>6, <1>10 DEF Chained, b, l

\* The chain after place k.
Rest(a, n, k) == [i \in 0..n - k + 1 |-> IF i = 0 THEN QHead ELSE a[i + k]]

\* The head of a tail queue is given another first element, or none.
LEMMA ChainBeheaded ==
  ASSUME NEW m, NEW w, NEW a, NEW n, Chained(m, "STAILQ", a, n), NEW k \in 1..n, w \in Memories,
         w.next[QHead] = a[k + 1], \A i \in k + 1..n : w.next[a[i]] = m.next[a[i]],
         w.prev[QHead] = IF k = n THEN QHead ELSE m.prev[QHead]
  PROVE  Chained(w, "STAILQ", Rest(a, n, k), n - k)
<1> DEFINE b == Rest(a, n, k)
           l == n - k
<1>1. /\ n \in Nat /\ a \in [0..n + 1 -> Cells \cup {QNull}] /\ a[0] = QHead /\ a[n + 1] = EndOf("STAILQ")
      /\ \A i \in 1..n : a[i] \in Elems
      /\ \A i, j \in 0..n : i # j => a[i] # a[j]
      /\ \A i \in 0..n : m.next[a[i]] = a[i + 1]
      /\ m.prev[QHead] = a[n]
  BY DEF Chained, IsChain, Fields, Tailed
<1>2. l \in Nat /\ l + k = n /\ k \in Nat /\ k # 0 /\ l + 1 + k = n + 1
  <2>1. n \in Nat
    BY <1>1
  <2>2. k \in Nat /\ k # 0 /\ k <= n
    BY <2>1
  <2> QED
    BY <2>1, <2>2
<1>3. \A i \in 0..l + 1 : b[i] = IF i = 0 THEN QHead ELSE a[i + k]
  BY DEF Rest
<1>4. b \in [0..l + 1 -> Cells \cup {QNull}]
  <2>1. \A i \in 0..l + 1 : i + k \in 0..n + 1
    BY <1>1, <1>2
  <2> QED
    BY <1>1, <2>1 DEF Rest, Cells
<1> HIDE DEF b, l
<1>5. b[0] = QHead /\ b[l + 1] = EndOf("STAILQ")
  <2>1. 0 \in 0..l + 1 /\ l + 1 \in 0..l + 1 /\ l + 1 # 0
    BY <1>2
  <2> QED
    BY <1>1, <1>2, <1>3, <2>1
<1>6. ASSUME NEW i \in 1..l
      PROVE  i + k \in 1..n /\ i + k \in k + 1..n /\ b[i] = a[i + k]
  <2>1. i + k \in 1..n /\ i + k \in k + 1..n /\ i \in 0..l + 1 /\ i # 0
    BY <1>1, <1>2
  <2> QED
    BY <1>3, <2>1
<1>7. IsChain("STAILQ", b, l)
  <2>1. \A i \in 1..l : b[i] \in Elems
    BY <1>1, <1>6
  <2>2. ASSUME NEW i \in 0..l, NEW j \in 0..l, i < j
        PROVE  b[i] # b[j]
    <3>1. j \in 1..l /\ j + k \in 0..n /\ 0 \in 0..n /\ j + k # 0
      BY <1>1, <1>2, <2>2
    <3>2. CASE i = 0
      BY <1>1, <1>5, <1>6, <3>1, <3>2
    <3>3. CASE i # 0
      <4>1. i \in 1..l /\ i + k \in 0..n /\ i + k # j + k
        BY <1>1, <1>2, <2>2, <3>3
      <4> QED
        BY <1>1, <1>6, <3>1, <4>1
    <3> QED
      BY <3>2, <3>3
  <2>3. \A i, j \in 0..l : i # j => i < j \/ j < i
    BY <1>2
  <2>4. \A i, j \in 0..l : i # j => b[i] # b[j]
    BY <2>2, <2>3
  <2> QED
    BY <1>2, <1>4, <1>5, <2>1, <2>4 DEF IsChain
<1>8. ASSUME NEW i \in 0..l
      PROVE  w.next[b[i]] = b[i + 1]
  <2>1. i + 1 \in 0..l + 1 /\ i + 1 # 0 /\ i + 1 + k = i + k + 1
    BY <1>2
  <2>2. b[i + 1] = a[i + k + 1]
    BY <1>3, <2>1
  <2>3. CASE i = 0
    <3>1. i + k + 1 = k + 1
      BY <1>2, <2>3
    <3> QED
      BY <1>5, <2>2, <2>3, <3>1
  <2>4. CASE i # 0
    <3> DEFINE e == i + k
    <3>1. e \in k + 1..n /\ e \in 0..n /\ b[i] = a[e] /\ b[i + 1] = a[e + 1]
      <4>1. i \in 1..l
        BY <1>2, <2>4
      <4>2. i + k \in 1..n /\ i + k \in k + 1..n /\ b[i] = a[i + k]
        BY <1>6, <4>1
      <4> QED
        BY <1>1, <2>2, <4>2
    <3> HIDE DEF e
    <3> QED
      BY <1>1, <3>1
  <2> QED
    BY <2>3, <2>4
<1>9. w.prev[QHead] = b[l]
  <2>1. CASE k = n
    <3>1. l = 0
      BY <1>2, <2>1
    <3> QED
      BY <1>5, <2>1, <3>1
  <2>2. CASE k # n
    <3>1. l \in 1..l
      BY <1>1, <1>2, <2>2
    <3>2. b[l] = a[n]
      BY <1>2, <1>6, <3>1
    <3> QED
      BY <1>1, <2>2, <3>2
  <2> QED
    BY <2>1, <2>2
<1>10. Fields(w, "STAILQ", b, l)
  BY <1>8, <1>9 DEF Fields, Doubly
<1> QED
  BY <1>7, <1>10 DEF Chained, b, l

-----------------------------------------------------------------------------
(* The macros, at cells l and q with l linked to q.                        *)

Between(m, kind, l, q) ==
  /\ m \in Memories /\ l \in Cells /\ q \in Elems \cup {EndOf(kind)} /\ m.next[l] = q
  /\ kind \in Doubly /\ q \in Elems => m.prev[q] = l
  /\ kind \in Tailed /\ q \notin Elems => m.prev[QHead] = l

\* What each macro leaves when x comes between l and q, and when the element e
\* between p and q goes.
PutBetween(m, w, kind, l, q, x) ==
  /\ w \in Memories
  /\ w.next[x] = q /\ w.next[l] = x /\ \A c \in Cells : c # x /\ c # l => w.next[c] = m.next[c]
  /\ kind \in Doubly =>
       /\ w.prev[x] = l
       /\ q \in Elems => w.prev[q] = x
       /\ \A c \in Elems : c # x /\ c # q => w.prev[c] = m.prev[c]
  /\ kind \in Tailed => w.prev[QHead] = IF q \in Elems THEN m.prev[QHead] ELSE x
TakenBetween(m, w, kind, p, e, q) ==
  /\ w \in Memories
  /\ w.next[p] = q /\ \A c \in Cells : c # p => w.next[c] = m.next[c]
  /\ kind \in Doubly =>
       /\ q \in Elems => w.prev[q] = p
       /\ \A c \in Elems : c # e /\ c # q => w.prev[c] = m.prev[c]
  /\ kind \in Tailed => w.prev[QHead] = IF q \in Elems THEN m.prev[QHead] ELSE p

\* A field is assigned, or two fields of different cells are.
Writes(f, c, v, g) == f \in [Cells -> QAddrs] /\ c \in Cells /\ v \in QAddrs /\ g = [f EXCEPT ![c] = v]
WritesTwo(f, c, v, d, u, g) ==
  /\ f \in [Cells -> QAddrs] /\ c \in Cells /\ v \in QAddrs /\ d \in Cells /\ u \in QAddrs /\ c # d
  /\ g = [f EXCEPT ![c] = v, ![d] = u]
WritesNext(m, c, v, w) == m \in Memories /\ c \in Cells /\ v \in QAddrs /\ w = [m EXCEPT !.next[c] = v]
WritesPrev(m, c, v, w) == m \in Memories /\ c \in Cells /\ v \in QAddrs /\ w = [m EXCEPT !.prev[c] = v]
WritesNexts(m, c, v, d, u, w) ==
  /\ m \in Memories /\ c \in Cells /\ v \in QAddrs /\ d \in Cells /\ u \in QAddrs /\ c # d
  /\ w = [m EXCEPT !.next[c] = v, !.next[d] = u]

\* What a field then holds.
LEMMA FieldSet ==
  ASSUME NEW f, NEW c, NEW v, NEW g, Writes(f, c, v, g)
  PROVE  g \in [Cells -> QAddrs] /\ g[c] = v /\ \A d \in Cells : d # c => g[d] = f[d]
BY DEF Writes
\* The same of two.
LEMMA FieldsSet ==
  ASSUME NEW f, NEW c, NEW v, NEW d, NEW u, NEW g, WritesTwo(f, c, v, d, u, g)
  PROVE  g \in [Cells -> QAddrs] /\ g[c] = v /\ g[d] = u /\ \A e \in Cells : e # c /\ e # d => g[e] = f[e]
BY DEF WritesTwo

\* A forward field of a memory is assigned.
LEMMA NextSet ==
  ASSUME NEW m, NEW c, NEW v, NEW w, WritesNext(m, c, v, w)
  PROVE  w \in Memories /\ w.prev = m.prev /\ w.next[c] = v /\ \A d \in Cells : d # c => w.next[d] = m.next[d]
<1>1. m.next \in [Cells -> QAddrs] /\ m.prev \in [Cells -> QAddrs] /\ c \in Cells /\ v \in QAddrs
  BY DEF Memories, WritesNext
<1>2. w.next = [m.next EXCEPT ![c] = v] /\ w.prev = m.prev /\ w = [next |-> w.next, prev |-> w.prev]
  BY DEF Memories, WritesNext
<1> QED
  BY <1>1, <1>2 DEF Memories
\* A backward one.
LEMMA PrevSet ==
  ASSUME NEW m, NEW c, NEW v, NEW w, WritesPrev(m, c, v, w)
  PROVE  w \in Memories /\ w.next = m.next /\ w.prev[c] = v /\ \A d \in Cells : d # c => w.prev[d] = m.prev[d]
<1>1. m.next \in [Cells -> QAddrs] /\ m.prev \in [Cells -> QAddrs] /\ c \in Cells /\ v \in QAddrs
  BY DEF Memories, WritesPrev
<1>2. w.prev = [m.prev EXCEPT ![c] = v] /\ w.next = m.next /\ w = [next |-> w.next, prev |-> w.prev]
  BY DEF Memories, WritesPrev
<1> QED
  BY <1>1, <1>2 DEF Memories
\* Two forward fields are.
LEMMA NextsSet ==
  ASSUME NEW m, NEW c, NEW v, NEW d, NEW u, NEW w, WritesNexts(m, c, v, d, u, w)
  PROVE  /\ w \in Memories /\ w.prev = m.prev /\ w.next[c] = v /\ w.next[d] = u
         /\ \A e \in Cells : e # c /\ e # d => w.next[e] = m.next[e]
<1> DEFINE w1 == [m EXCEPT !.next[c] = v]
<1>1. m \in Memories /\ c \in Cells /\ v \in QAddrs /\ d \in Cells /\ u \in QAddrs /\ c # d
  BY DEF WritesNexts
<1>2. w = [w1 EXCEPT !.next[d] = u]
  BY DEF WritesNexts
<1>3. WritesNext(m, c, v, w1)
  BY <1>1 DEF WritesNext
<1> HIDE DEF w1
<1>4. /\ w1 \in Memories /\ w1.prev = m.prev /\ w1.next[c] = v
      /\ \A e \in Cells : e # c => w1.next[e] = m.next[e]
  BY <1>3, NextSet
<1>5. WritesNext(w1, d, u, w)
  BY <1>1, <1>2, <1>4 DEF WritesNext
<1>6. /\ w \in Memories /\ w.prev = w1.prev /\ w.next[d] = u
      /\ \A e \in Cells : e # d => w.next[e] = w1.next[e]
  BY <1>5, NextSet
<1> QED
  BY <1>1, <1>4, <1>6

\* The memory of two fields.
LEMMA OfTwoFields ==
  ASSUME NEW f \in [Cells -> QAddrs], NEW g \in [Cells -> QAddrs], NEW w, w = [next |-> f, prev |-> g]
  PROVE  w \in Memories /\ w.next = f /\ w.prev = g
BY DEF Memories

\* The head, the elements and the end of a queue are told apart.
LEMMA QNames ==
  /\ Elems \subseteq Cells /\ QHead \in Cells /\ Cells \subseteq QAddrs /\ QNull \in QAddrs
  /\ QHead \notin Elems /\ QNull \notin Elems /\ QNull \notin Cells
  /\ \A kind : EndOf(kind) \in {QNull, QHead}
BY QueueAssumption DEF Cells, QAddrs, EndOf

\* SLIST_INSERT_AFTER and its uses, insertion after l in each list.
PutAfter(m, kind, l, x) ==
  CASE kind = "SLIST"   -> SLIST_INSERT_AFTER(m, l, x)
    [] kind = "STAILQ"  -> STAILQ_INSERT_AFTER(m, l, x)
    [] kind = "LIST"    -> LIST_INSERT_AFTER(m, l, x)
    [] kind = "TAILQ"   -> TAILQ_INSERT_AFTER(m, l, x)
    [] kind = "CIRCLEQ" -> CIRCLEQ_INSERT_AFTER(m, l, x)
    [] kind = "QUE"     -> insque(m, x, l)
\* It puts x between l and the cell that followed it.
LEMMA AfterPutsBetween ==
  ASSUME NEW kind \in QKinds, NEW m, NEW l, NEW q, Between(m, kind, l, q), NEW x \in Elems, x # l, x # q
  PROVE  PutBetween(m, PutAfter(m, kind, l, x), kind, l, q, x)
<1> DEFINE N == [m.next EXCEPT ![x] = q, ![l] = x]
           w == PutAfter(m, kind, l, x)
<1>1. /\ m = [next |-> m.next, prev |-> m.prev] /\ m.next \in [Cells -> QAddrs] /\ m.prev \in [Cells -> QAddrs]
      /\ m \in Memories /\ l \in Cells /\ x \in Cells /\ x \in QAddrs /\ l \in QAddrs /\ q \in QAddrs /\ m.next[l] = q
      /\ QHead \in Cells /\ q \in Elems \cup {QNull, QHead} /\ x # QHead
  BY QNames DEF Between, Memories
<1>2. N \in [Cells -> QAddrs] /\ N[x] = q /\ N[l] = x /\ \A c \in Cells : c # x /\ c # l => N[c] = m.next[c]
  <2>1. WritesTwo(m.next, x, q, l, x, N)
    BY <1>1 DEF WritesTwo
  <2> HIDE DEF N
  <2> QED
    BY <2>1, FieldsSet
<1>4. CASE kind = "SLIST"
  <2>1. w = [m EXCEPT !.next[x] = q, !.next[l] = x]
    BY <1>1, <1>4 DEF PutAfter, SLIST_INSERT_AFTER
  <2> HIDE DEF w, N
  <2>2. /\ w \in Memories /\ w.next[x] = q /\ w.next[l] = x
        /\ \A c \in Cells : c # x /\ c # l => w.next[c] = m.next[c]
    <3>1. WritesNexts(m, x, q, l, x, w)
      BY <1>1, <2>1 DEF WritesNexts
    <3> HIDE DEF w
    <3> QED
      BY <3>1, NextsSet
  <2> QED
    BY <1>4, <2>2 DEF PutBetween, Doubly, Tailed, w
<1>5. CASE kind = "STAILQ"
  <2> DEFINE v == SLIST_INSERT_AFTER(m, l, x)
  <2>1. w = IfLast(v, x)
    BY <1>5 DEF PutAfter, STAILQ_INSERT_AFTER
  <2>2. v = [m EXCEPT !.next[x] = q, !.next[l] = x]
    BY <1>1 DEF SLIST_INSERT_AFTER
  <2> HIDE DEF w, N, v
  <2>3. /\ v \in Memories /\ v.prev = m.prev /\ v.next[x] = q /\ v.next[l] = x
        /\ \A c \in Cells : c # x /\ c # l => v.next[c] = m.next[c]
    <3>1. WritesNexts(m, x, q, l, x, v)
      BY <1>1, <2>2 DEF WritesNexts
    <3> HIDE DEF v
    <3> QED
      BY <3>1, NextsSet
  <2>4. /\ w \in Memories /\ w.next = v.next
        /\ w.prev[QHead] = IF q = QNull THEN x ELSE m.prev[QHead]
    <3>1. CASE q = QNull
      <4>1. w = [v EXCEPT !.prev[QHead] = x]
        BY <2>1, <2>3, <3>1 DEF IfLast
      <4> QED
        <5>1. WritesPrev(v, QHead, x, w)
          BY <1>1, <2>3, <3>1, <4>1 DEF WritesPrev
        <5>2. w \in Memories /\ w.next = v.next /\ w.prev[QHead] = x
          BY <5>1, PrevSet
        <5> QED
          BY <1>1, <2>3, <3>1, <4>1, <5>2
    <3>2. CASE q # QNull
      BY <2>1, <2>3, <3>2 DEF IfLast
    <3> QED
      BY <3>1, <3>2
  <2>5. q \in Elems <=> q # QNull
    BY <1>1, <1>5, QNames DEF Between, EndOf
  <2> QED
    BY <1>5, <2>3, <2>4, <2>5 DEF PutBetween, Doubly, w
<1>6. CASE kind = "LIST"
  <2> DEFINE F == SetPrev(m.prev, q, x)
             P == [F EXCEPT ![x] = l]
  <2>1. w = [next |-> N, prev |-> P]
    BY <1>1, <1>6 DEF PutAfter, LIST_INSERT_AFTER
  <2>2. q \in Elems \/ q = QNull
    BY <1>6 DEF Between, EndOf
  <2>3. F \in [Cells -> QAddrs] /\ (q \in Elems => F[q] = x) /\ \A c \in Elems : c # q => F[c] = m.prev[c]
    BY <1>1, <2>2, QNames DEF SetPrev
  <2> HIDE DEF F
  <2>4. P \in [Cells -> QAddrs] /\ P[x] = l /\ \A c \in Cells : c # x => P[c] = F[c]
    <3>1. Writes(F, x, l, P)
      BY <1>1, <2>3 DEF Writes
    <3> HIDE DEF P
    <3> QED
      BY <3>1, FieldSet
  <2> HIDE DEF w, N, P
  <2>5. w \in Memories /\ w.next = N /\ w.prev = P
    BY <1>2, <2>1, <2>4, OfTwoFields
  <2> QED
    BY <1>2, <1>6, <2>3, <2>4, <2>5, QNames DEF PutBetween, Tailed, w
<1>7. CASE kind = "TAILQ"
  <2> DEFINE o == OrHead(q)
             P == [m.prev EXCEPT ![o] = x, ![x] = l]
  <2>1. w = [next |-> N, prev |-> P]
    BY <1>1, <1>7 DEF PutAfter, TAILQ_INSERT_AFTER
  <2>2. o \in Cells /\ o # x /\ o = IF q \in Elems THEN q ELSE QHead
    BY <1>1, <1>7, QNames DEF OrHead, Between, EndOf
  <2> HIDE DEF o
  <2>3. P \in [Cells -> QAddrs] /\ P[o] = x /\ P[x] = l /\ \A c \in Cells : c # o /\ c # x => P[c] = m.prev[c]
    <3>1. WritesTwo(m.prev, o, x, x, l, P)
      BY <1>1, <2>2 DEF WritesTwo
    <3> HIDE DEF P
    <3> QED
      BY <3>1, FieldsSet
  <2> HIDE DEF w, N, P
  <2>4. w \in Memories /\ w.next = N /\ w.prev = P
    BY <1>2, <2>1, <2>3, OfTwoFields
  <2>5. P[QHead] = IF q \in Elems THEN m.prev[QHead] ELSE x
    BY <1>1, <2>2, <2>3, QNames
  <2>6. \A c \in Elems : c # x /\ c # q => P[c] = m.prev[c]
    BY <1>1, <2>2, <2>3, QNames
  <2> QED
    BY <1>2, <2>2, <2>3, <2>4, <2>5, <2>6 DEF PutBetween, w
<1>8. CASE kind \in {"CIRCLEQ", "QUE"}
  <2> DEFINE P == [m.prev EXCEPT ![x] = l, ![q] = x]
  <2>1. w = [next |-> N, prev |-> P]
    BY <1>1, <1>8 DEF PutAfter, CIRCLEQ_INSERT_AFTER, insque
  <2>2. q \in Elems \/ q = QHead
    BY <1>8 DEF Between, EndOf
  <2>3. P \in [Cells -> QAddrs] /\ P[q] = x /\ P[x] = l /\ \A c \in Cells : c # q /\ c # x => P[c] = m.prev[c]
    <3>1. WritesTwo(m.prev, x, l, q, x, P)
      BY <1>1, <2>2, QNames DEF WritesTwo
    <3> HIDE DEF P
    <3> QED
      BY <3>1, FieldsSet
  <2> HIDE DEF w, N, P
  <2>4. w \in Memories /\ w.next = N /\ w.prev = P
    BY <1>2, <2>1, <2>3, OfTwoFields
  <2>5. P[QHead] = IF q \in Elems THEN m.prev[QHead] ELSE x
    BY <1>1, <2>2, <2>3, QNames
  <2>6. \A c \in Elems : c # x /\ c # q => P[c] = m.prev[c]
    BY <1>1, <2>2, <2>3, QNames
  <2> QED
    BY <1>2, <2>2, <2>3, <2>4, <2>5, <2>6 DEF PutBetween, w
<1> QED
  BY <1>4, <1>5, <1>6, <1>7, <1>8 DEF QKinds

\* Insertion before q, where a list has it; QHead stands for its end.
PutBefore(m, kind, q, x) ==
  CASE kind = "LIST"    -> LIST_INSERT_BEFORE(m, q, x)
    [] kind = "TAILQ"   -> TAILQ_INSERT_BEFORE(m, q, x)
    [] kind = "CIRCLEQ" -> CIRCLEQ_INSERT_BEFORE(m, q, x)
\* It puts x between q and the cell that q followed.
LEMMA BeforePutsBetween ==
  ASSUME NEW kind \in {"LIST", "TAILQ", "CIRCLEQ"}, NEW m, NEW l, NEW q, Between(m, kind, l, q),
         NEW x \in Elems, x # l, x # q, q \in Elems \/ kind = "CIRCLEQ"
  PROVE  PutBetween(m, PutBefore(m, kind, q, x), kind, l, q, x)
<1> DEFINE N == [m.next EXCEPT ![x] = q, ![l] = x]
           P == [m.prev EXCEPT ![x] = l, ![q] = x]
           w == PutBefore(m, kind, q, x)
<1>1. /\ m = [next |-> m.next, prev |-> m.prev] /\ m.next \in [Cells -> QAddrs] /\ m.prev \in [Cells -> QAddrs]
      /\ m \in Memories /\ l \in Cells /\ x \in Cells /\ x \in QAddrs /\ l \in QAddrs /\ q \in QAddrs /\ m.next[l] = q
      /\ QHead \in Cells /\ q \in Elems \cup {QHead} /\ x # QHead /\ q \in Cells /\ x # q /\ x # l
  BY QNames DEF Between, Memories, EndOf
<1>2. m.prev[q] = l
  BY <1>1, QNames DEF Between, Doubly, Tailed, EndOf
<1>3. N \in [Cells -> QAddrs] /\ N[x] = q /\ N[l] = x /\ \A c \in Cells : c # x /\ c # l => N[c] = m.next[c]
  <2>1. WritesTwo(m.next, x, q, l, x, N)
    BY <1>1 DEF WritesTwo
  <2> HIDE DEF N
  <2> QED
    BY <2>1, FieldsSet
<1>4. P \in [Cells -> QAddrs] /\ P[x] = l /\ P[q] = x /\ \A c \in Cells : c # x /\ c # q => P[c] = m.prev[c]
  <2>1. WritesTwo(m.prev, x, l, q, x, P)
    BY <1>1 DEF WritesTwo
  <2> HIDE DEF P
  <2> QED
    BY <2>1, FieldsSet
<1>5. w = [next |-> N, prev |-> P]
  BY <1>2 DEF PutBefore, LIST_INSERT_BEFORE, TAILQ_INSERT_BEFORE, CIRCLEQ_INSERT_BEFORE
<1> HIDE DEF w, N, P
<1>6. w \in Memories /\ w.next = N /\ w.prev = P
  BY <1>3, <1>4, <1>5, OfTwoFields
<1>7. kind \in Tailed => P[QHead] = IF q \in Elems THEN m.prev[QHead] ELSE x
  BY <1>1, <1>4, QNames
<1>8. \A c \in Elems : c # x /\ c # q => P[c] = m.prev[c]
  BY <1>4, QNames
<1> QED
  BY <1>3, <1>4, <1>6, <1>7, <1>8 DEF PutBetween, w

\* Insertion at the end.
PutLast(m, kind, x) ==
  CASE kind = "STAILQ"  -> STAILQ_INSERT_TAIL(m, x)
    [] kind = "TAILQ"   -> TAILQ_INSERT_TAIL(m, x)
    [] kind = "CIRCLEQ" -> CIRCLEQ_INSERT_TAIL(m, x)
\* It puts x between the last cell and the end.
LEMMA LastPutsBetween ==
  ASSUME NEW kind \in {"STAILQ", "TAILQ", "CIRCLEQ"}, NEW m, NEW l, Between(m, kind, l, EndOf(kind)),
         NEW x \in Elems, x # l
  PROVE  PutBetween(m, PutLast(m, kind, x), kind, l, EndOf(kind), x)
<1> DEFINE w == PutLast(m, kind, x)
<1>0. EndOf(kind) \notin Elems /\ x # EndOf(kind)
  BY QNames
<1>1. CASE kind = "CIRCLEQ"
  <2>1. w = PutBefore(m, kind, EndOf(kind), x)
    BY <1>1 DEF PutLast, PutBefore, CIRCLEQ_INSERT_TAIL, EndOf
  <2> QED
    BY <1>0, <1>1, <2>1, BeforePutsBetween
<1>2. CASE kind \in {"STAILQ", "TAILQ"}
  <2> DEFINE N == [m.next EXCEPT ![x] = QNull, ![l] = x]
  <2>1. /\ m = [next |-> m.next, prev |-> m.prev] /\ m.next \in [Cells -> QAddrs] /\ m.prev \in [Cells -> QAddrs]
        /\ m \in Memories /\ l \in Cells /\ x \in Cells /\ x \in QAddrs /\ l \in QAddrs
        /\ QHead \in Cells /\ x # QHead /\ EndOf(kind) = QNull /\ QNull \in QAddrs /\ m.prev[QHead] = l
    BY <1>0, <1>2, QNames DEF Between, Memories, EndOf, Tailed
  <2>2. N \in [Cells -> QAddrs] /\ N[x] = QNull /\ N[l] = x /\ \A c \in Cells : c # x /\ c # l => N[c] = m.next[c]
    <3>1. WritesTwo(m.next, x, QNull, l, x, N)
      BY <2>1 DEF WritesTwo
    <3> HIDE DEF N
    <3> QED
      BY <3>1, FieldsSet
  <2>3. CASE kind = "STAILQ"
    <3> DEFINE P == [m.prev EXCEPT ![QHead] = x]
    <3>1. w = [next |-> N, prev |-> P]
      BY <2>1, <2>3 DEF PutLast, STAILQ_INSERT_TAIL
    <3>2. P \in [Cells -> QAddrs] /\ P[QHead] = x
      <4>1. Writes(m.prev, QHead, x, P)
        BY <2>1 DEF Writes
      <4> HIDE DEF P
      <4> QED
        BY <4>1, FieldSet
    <3> HIDE DEF w, N, P
    <3>3. w \in Memories /\ w.next = N /\ w.prev = P
      BY <2>2, <3>1, <3>2, OfTwoFields
    <3> QED
      BY <1>0, <2>1, <2>2, <2>3, <3>2, <3>3 DEF PutBetween, w, Doubly
  <2>4. CASE kind = "TAILQ"
    <3> DEFINE P == [m.prev EXCEPT ![x] = l, ![QHead] = x]
    <3>1. w = [next |-> N, prev |-> P]
      BY <2>1, <2>4 DEF PutLast, TAILQ_INSERT_TAIL
    <3>2. P \in [Cells -> QAddrs] /\ P[x] = l /\ P[QHead] = x /\ \A c \in Cells : c # x /\ c # QHead => P[c] = m.prev[c]
      <4>1. WritesTwo(m.prev, x, l, QHead, x, P)
        BY <2>1 DEF WritesTwo
      <4> HIDE DEF P
      <4> QED
        BY <4>1, FieldsSet
    <3> HIDE DEF w, N, P
    <3>3. w \in Memories /\ w.next = N /\ w.prev = P
      BY <2>2, <3>1, <3>2, OfTwoFields
    <3>4. \A c \in Elems : c # x => P[c] = m.prev[c]
      BY <3>2, QNames
    <3> QED
      BY <1>0, <2>1, <2>2, <3>2, <3>3, <3>4 DEF PutBetween, w
  <2> QED
    BY <1>2, <2>3, <2>4
<1> QED
  BY <1>1, <1>2

-----------------------------------------------------------------------------
(* Places of a chain.                                                      *)

\* Each two neighbours of a chain are linked as its kind of list links them.
LEMMA BetweenNeighbours ==
  ASSUME NEW kind, NEW m, NEW a, NEW n, Chained(m, kind, a, n), NEW k \in 0..n
  PROVE  /\ Between(m, kind, a[k], a[k + 1]) /\ (a[k + 1] \in Elems <=> k < n)
         /\ n \in Nat /\ (k < n => k + 1 \in 1..n) /\ (~(k < n) => k = n)
         /\ \A i \in 1..n : i # k + 1 => a[i] # a[k + 1]
<1>1. /\ n \in Nat /\ a \in [0..n + 1 -> Cells \cup {QNull}] /\ a[0] = QHead /\ a[n + 1] = EndOf(kind)
      /\ \A i \in 1..n : a[i] \in Elems
      /\ \A i, j \in 0..n : i # j => a[i] # a[j]
      /\ m \in Memories
      /\ \A i \in 0..n : m.next[a[i]] = a[i + 1]
      /\ kind \in Doubly => \A i \in 1..n : m.prev[a[i]] = a[i - 1]
      /\ kind \in Tailed => m.prev[QHead] = a[n]
  BY DEF Chained, IsChain, Fields
<1>2. k = 0 \/ k \in 1..n
  BY <1>1
<1>3. (k < n => k + 1 \in 1..n /\ k + 1 - 1 = k) /\ (~(k < n) => k = n)
  BY <1>1
<1>4. EndOf(kind) \notin Elems
  BY QNames
<1>5. a[k] \in Cells
  BY <1>1, <1>2, QNames
<1>6. a[k + 1] \in Elems <=> k < n
  BY <1>1, <1>3, <1>4
<1>7. k < n => a[k + 1] \in Elems
  BY <1>6
<1>8. ~(k < n) => a[k + 1] = EndOf(kind) /\ a[k] = a[n]
  BY <1>1, <1>3
<1>9. Between(m, kind, a[k], a[k + 1])
  <2>1. kind \in Doubly /\ a[k + 1] \in Elems => m.prev[a[k + 1]] = a[k]
    BY <1>1, <1>3, <1>6
  <2>2. kind \in Tailed /\ a[k + 1] \notin Elems => m.prev[QHead] = a[k]
    BY <1>1, <1>7, <1>8
  <2>3. a[k + 1] \in Elems \cup {EndOf(kind)} /\ m.next[a[k]] = a[k + 1] /\ m \in Memories
    BY <1>1, <1>7, <1>8
  <2> QED
    BY <1>5, <2>1, <2>2, <2>3 DEF Between
<1>10. \A i \in 1..n : i # k + 1 => a[i] # a[k + 1]
  <2>1. \A i \in 1..n : i \in 0..n
    BY <1>1
  <2> QED
    BY <1>1, <1>3, <1>4, <1>8, <2>1
<1> QED
  BY <1>1, <1>3, <1>6, <1>9, <1>10

\* What comes between two neighbours of a chain is spliced in.
LEMMA PutIsSpliced ==
  ASSUME NEW kind, NEW m, NEW w, NEW a, NEW n, Chained(m, kind, a, n), NEW k \in 0..n, NEW x \in Elems,
         \A i \in 0..n : a[i] # x, PutBetween(m, w, kind, a[k], a[k + 1], x)
  PROVE  Spliced(m, w, kind, a, n, k, x)
<1>1. /\ n \in Nat /\ a[0] = QHead /\ \A i \in 1..n : a[i] \in Elems
      /\ \A i, j \in 0..n : i # j => a[i] # a[j]
  BY DEF Chained, IsChain
<1>2. \A i \in 0..n : i = 0 \/ i \in 1..n
  BY <1>1
<1>3. \A i \in 0..n : a[i] \in Cells
  BY <1>1, <1>2, QNames
<1>4. /\ (a[k + 1] \in Elems <=> k < n) /\ (~(k < n) <=> k = n)
      /\ \A i \in 1..n : i # k + 1 => a[i] # a[k + 1]
  BY <1>1, BetweenNeighbours
<1> DEFINE q == a[k + 1]
<1>5. \A i \in 0..n : i # k => w.next[a[i]] = m.next[a[i]]
  BY <1>1, <1>3 DEF PutBetween
<1>6. ASSUME kind \in Doubly
      PROVE  /\ w.prev[x] = a[k] /\ (k < n => w.prev[q] = x)
             /\ \A i \in 1..n : i # k + 1 => w.prev[a[i]] = m.prev[a[i]]
  <2>1. \A i \in 1..n : i \in 0..n
    BY <1>1
  <2>2. /\ w.prev[x] = a[k] /\ (q \in Elems => w.prev[q] = x)
        /\ \A c \in Elems : c # x /\ c # q => w.prev[c] = m.prev[c]
    BY <1>6 DEF PutBetween
  <2> QED
    BY <1>1, <1>4, <2>1, <2>2
<1>7. kind \in Tailed => w.prev[QHead] = IF k = n THEN x ELSE m.prev[QHead]
  BY <1>4 DEF PutBetween
<1>8. w \in Memories /\ w.next[x] = a[k + 1] /\ w.next[a[k]] = x
  BY DEF PutBetween
<1> QED
  BY <1>5, <1>6, <1>7, <1>8 DEF Spliced

\* An element taken from between its neighbours is unspliced.
LEMMA TakenIsUnspliced ==
  ASSUME NEW kind, NEW m, NEW w, NEW a, NEW n, Chained(m, kind, a, n), NEW k \in 1..n,
         TakenBetween(m, w, kind, a[k - 1], a[k], a[k + 1])
  PROVE  Unspliced(m, w, kind, a, n, k)
<1>1. /\ n \in Nat /\ a[0] = QHead /\ \A i \in 1..n : a[i] \in Elems
      /\ \A i, j \in 0..n : i # j => a[i] # a[j]
  BY DEF Chained, IsChain
<1>2. \A i \in 0..n : i = 0 \/ i \in 1..n
  BY <1>1
<1>3. \A i \in 0..n : a[i] \in Cells
  BY <1>1, <1>2, QNames
<1>4. k \in 0..n /\ k - 1 \in 0..n /\ \A i \in 1..n : i \in 0..n
  BY <1>1
<1>5. /\ (a[k + 1] \in Elems <=> k < n) /\ (~(k < n) <=> k = n)
      /\ \A i \in 1..n : i # k + 1 => a[i] # a[k + 1]
  BY <1>1, <1>4, BetweenNeighbours
<1> DEFINE q == a[k + 1]
           p == a[k - 1]
<1>6. \A i \in 0..n : i # k - 1 /\ i # k => w.next[a[i]] = m.next[a[i]]
  BY <1>1, <1>3, <1>4 DEF TakenBetween
<1>7. ASSUME kind \in Doubly
      PROVE  /\ k < n => w.prev[q] = p
             /\ \A i \in 1..n : i # k /\ i # k + 1 => w.prev[a[i]] = m.prev[a[i]]
  <2>1. /\ q \in Elems => w.prev[q] = p
        /\ \A c \in Elems : c # a[k] /\ c # q => w.prev[c] = m.prev[c]
    BY <1>7 DEF TakenBetween
  <2> QED
    BY <1>1, <1>4, <1>5, <2>1
<1>8. kind \in Tailed => w.prev[QHead] = IF k = n THEN p ELSE m.prev[QHead]
  BY <1>5 DEF TakenBetween
<1>9. k = n => p = a[n - 1]
  OBVIOUS
<1>10. w \in Memories /\ w.next[p] = q
  BY DEF TakenBetween
<1> QED
  BY <1>6, <1>7, <1>8, <1>9, <1>10 DEF Unspliced

-----------------------------------------------------------------------------
(* Chains of sequences.                                                    *)

ChainOf(kind, s) ==
  [i \in 0..Len(s) + 1 |-> IF i = 0 THEN QHead ELSE IF i <= Len(s) THEN s[i] ELSE EndOf(kind)]
Holds(m, kind, s) == s \in Seq(Elems) /\ Chained(m, kind, ChainOf(kind, s), Len(s))

\* The chain of a sequence by its places.
LEMMA ChainPlaces ==
  ASSUME NEW kind, NEW s \in Seq(Elems)
  PROVE  LET a == ChainOf(kind, s)
             n == Len(s)
         IN  /\ n \in Nat /\ a[0] = QHead /\ a[n + 1] = EndOf(kind) /\ \A i \in 1..n : a[i] = s[i] /\ s[i] \in Elems
             /\ \A i \in 0..n + 1 : a[i] = IF i = 0 THEN QHead ELSE IF i <= n THEN s[i] ELSE EndOf(kind)
<1> DEFINE n == Len(s)
           a == ChainOf(kind, s)
<1>1. n \in Nat /\ \A i \in 1..n : s[i] \in Elems
  BY LenProperties
<1>2. \A i \in 0..n + 1 : a[i] = IF i = 0 THEN QHead ELSE IF i <= n THEN s[i] ELSE EndOf(kind)
  BY DEF ChainOf
<1> HIDE DEF n, a
<1>3. 0 \in 0..n + 1 /\ n + 1 \in 0..n + 1 /\ n + 1 # 0 /\ ~(n + 1 <= n)
  BY <1>1
<1>4. \A i \in 1..n : i \in 0..n + 1 /\ i # 0 /\ i <= n
  BY <1>1
<1> QED
  BY <1>1, <1>2, <1>3, <1>4 DEF n, a

\* An element put in at place k of the queue.
LEMMA QueueGrows ==
  ASSUME NEW kind, NEW m, NEW w, NEW s, Holds(m, kind, s), NEW k \in 0..Len(s), NEW x \in Elems, x \notin ToSet(s),
         PutBetween(m, w, kind, ChainOf(kind, s)[k], ChainOf(kind, s)[k + 1], x), NEW u, IsGrown(Elems, u, s, k, x)
  PROVE  Holds(w, kind, u)
<1> DEFINE a == ChainOf(kind, s)
           n == Len(s)
           b == ChainOf(kind, u)
           g == Grown(a, n, k, x)
<1>1. s \in Seq(Elems) /\ Chained(m, kind, a, n) /\ u \in Seq(Elems)
  BY DEF Holds, IsGrown
<1>2. /\ n \in Nat /\ a[0] = QHead /\ a[n + 1] = EndOf(kind) /\ \A i \in 1..n : a[i] = s[i] /\ s[i] \in Elems
  BY <1>1, ChainPlaces
<1>3. \A i \in 0..n : a[i] # x
  <2>1. \A i \in 1..n : s[i] # x
    BY DEF ToSet
  <2>2. \A i \in 0..n : i = 0 \/ i \in 1..n
    BY <1>2
  <2> HIDE DEF a, n
  <2> QED
    BY <1>2, <2>1, <2>2, QNames
<1>4. Chained(w, kind, g, n + 1)
  <2>1. Spliced(m, w, kind, a, n, k, x)
    BY <1>1, <1>3, PutIsSpliced
  <2> HIDE DEF a, n
  <2> QED
    BY <1>1, <1>3, <2>1, ChainGrows DEF n
<1>5. /\ Len(u) = n + 1
      /\ \A i \in 0..n + 2 : b[i] = IF i = 0 THEN QHead ELSE IF i <= n + 1 THEN u[i] ELSE EndOf(kind)
      /\ b = [i \in 0..n + 2 |-> b[i]]
  <2>1. Len(u) = n + 1 /\ n + 1 + 1 = n + 2
    BY <1>2 DEF IsGrown
  <2> QED
    BY <2>1 DEF ChainOf
<1>6. \A i \in 0..n + 2 : g[i] = IF i <= k THEN a[i] ELSE IF i = k + 1 THEN x ELSE a[i - 1]
  BY DEF Grown
<1>7. g = [i \in 0..n + 2 |-> g[i]]
  BY DEF Grown
<1>8. \A i \in 1..n + 1 : u[i] = IF i <= k THEN s[i] ELSE IF i = k + 1 THEN x ELSE s[i - 1]
  BY DEF IsGrown
<1>9. k \in 0..n
  OBVIOUS
<1> HIDE DEF a, b, g, n
<1>10. ASSUME NEW i \in 0..n + 2
       PROVE  g[i] = b[i]
  <2>1. CASE i = 0
    <3>1. i <= k
      BY <1>2, <1>9, <2>1
    <3> QED
      BY <1>2, <1>5, <1>6, <2>1, <3>1
  <2>2. CASE i = n + 2
    <3>1. ~(i <= k) /\ i # k + 1 /\ i # 0 /\ ~(i <= n + 1) /\ i - 1 = n + 1
      BY <1>2, <1>9, <2>2
    <3> QED
      BY <1>2, <1>5, <1>6, <3>1
  <2>3. CASE i \in 1..n + 1
    <3>1. i # 0 /\ i <= n + 1
      BY <1>2, <2>3
    <3>2. b[i] = u[i]
      BY <1>5, <3>1
    <3>3. CASE i <= k
      <4>1. i \in 1..n
        BY <1>2, <1>9, <2>3, <3>3
      <4> QED
        BY <1>2, <1>6, <1>8, <2>3, <3>2, <3>3, <4>1
    <3>4. CASE i = k + 1
      <4>1. ~(i <= k)
        BY <1>2, <1>9, <3>4
      <4> QED
        BY <1>6, <1>8, <2>3, <3>2, <3>4, <4>1
    <3>5. CASE ~(i <= k) /\ i # k + 1
      <4>1. i - 1 \in 1..n
        BY <1>2, <1>9, <2>3, <3>5
      <4> QED
        BY <1>2, <1>6, <1>8, <2>3, <3>2, <3>5, <4>1
    <3> QED
      BY <3>3, <3>4, <3>5
  <2> QED
    BY <1>2, <2>1, <2>2, <2>3
<1>11. g = b
  BY <1>5, <1>7, <1>10
<1> QED
  BY <1>1, <1>4, <1>5, <1>11 DEF Holds, b

\* The element at place k is taken out of the queue.
LEMMA QueueShrinks ==
  ASSUME NEW kind, NEW m, NEW w, NEW s, Holds(m, kind, s), NEW k \in 1..Len(s), NEW u \in Seq(Elems),
         TakenBetween(m, w, kind, ChainOf(kind, s)[k - 1], ChainOf(kind, s)[k], ChainOf(kind, s)[k + 1]), Without(s, k, u)
  PROVE  Holds(w, kind, u)
<1> DEFINE a == ChainOf(kind, s)
           n == Len(s)
           l == Len(u)
           b == ChainOf(kind, u)
           g == Cut(a, n, k)
<1>1. s \in Seq(Elems) /\ Chained(m, kind, a, n)
  BY DEF Holds
<1>2. /\ n \in Nat /\ a[0] = QHead /\ a[n + 1] = EndOf(kind) /\ \A i \in 1..n : a[i] = s[i] /\ s[i] \in Elems
  BY <1>1, ChainPlaces
<1>3. Chained(w, kind, g, n - 1)
  <2>1. Unspliced(m, w, kind, a, n, k)
    BY <1>1, TakenIsUnspliced
  <2> HIDE DEF a, n
  <2> QED
    BY <1>1, <2>1, ChainShrinks DEF n
<1>4. l \in Nat /\ n = l + 1 /\ n - 1 = l
  BY <1>2, LenProperties DEF Without
<1>5. /\ \A i \in 0..l + 1 : b[i] = IF i = 0 THEN QHead ELSE IF i <= l THEN u[i] ELSE EndOf(kind)
      /\ b = [i \in 0..l + 1 |-> b[i]]
  BY DEF ChainOf
<1>6. (\A i \in 0..n : g[i] = IF i < k THEN a[i] ELSE a[i + 1]) /\ g = [i \in 0..n |-> g[i]]
  BY DEF Cut
<1>7. \A i \in 1..l : u[i] = IF i < k THEN s[i] ELSE s[i + 1]
  BY DEF Without
<1>8. k \in 1..n
  OBVIOUS
<1> HIDE DEF a, b, g, n, l
<1>9. ASSUME NEW i \in 0..n
      PROVE  g[i] = b[i]
  <2>0. i \in 0..l + 1
    BY <1>4
  <2>1. CASE i = 0
    <3>1. i < k
      BY <1>2, <1>8, <2>1
    <3> QED
      BY <1>2, <1>5, <1>6, <2>0, <2>1, <3>1
  <2>2. CASE i = n
    <3>1. ~(i < k) /\ i # 0 /\ ~(i <= l)
      BY <1>2, <1>4, <1>8, <2>2
    <3> QED
      BY <1>2, <1>5, <1>6, <2>0, <2>2, <3>1
  <2>3. CASE i \in 1..l
    <3>1. i # 0 /\ i <= l /\ i \in 1..n /\ i + 1 \in 1..n
      BY <1>4, <2>3
    <3> QED
      BY <1>2, <1>5, <1>6, <1>7, <2>0, <2>3, <3>1
  <2> QED
    BY <1>4, <2>1, <2>2, <2>3
<1>10. g = b
  <2>1. b = [i \in 0..n |-> b[i]]
    BY <1>4, <1>5
  <2> QED
    BY <1>6, <1>9, <2>1
<1>11. Chained(w, kind, b, l)
  BY <1>3, <1>4, <1>10
<1> QED
  BY <1>11 DEF Holds, b, l

-----------------------------------------------------------------------------
(* Removals.                                                               *)

\* The element e is removed; a singly-linked list looks for its predecessor.
TakeOut(m, kind, e) ==
  CASE kind = "SLIST"   -> SLIST_REMOVE(m, e)
    [] kind = "STAILQ"  -> STAILQ_REMOVE(m, e)
    [] kind = "LIST"    -> LIST_REMOVE(m, e)
    [] kind = "TAILQ"   -> TAILQ_REMOVE(m, e)
    [] kind = "CIRCLEQ" -> CIRCLEQ_REMOVE(m, e)
    [] kind = "QUE"     -> remque(m, e)
Finds(m, p, e) == (m.next[QHead] = e <=> p = QHead) /\ (p # QHead => Before(m, e) = p)
\* Removal links the neighbours of the element with each other.
LEMMA RemovalTakes ==
  ASSUME NEW kind \in QKinds, NEW m, NEW p, NEW e \in Elems, NEW q, Between(m, kind, p, e), Between(m, kind, e, q),
         p # e, q # e, kind \in {"SLIST", "STAILQ"} => Finds(m, p, e)
  PROVE  TakenBetween(m, TakeOut(m, kind, e), kind, p, e, q)
<1> DEFINE N == [m.next EXCEPT ![p] = q]
           w == TakeOut(m, kind, e)
<1>1. /\ m.next \in [Cells -> QAddrs] /\ m.prev \in [Cells -> QAddrs] /\ m \in Memories
      /\ p \in Cells /\ e \in Cells /\ p \in QAddrs /\ q \in QAddrs /\ QNull \in QAddrs /\ m.next[p] = e /\ m.next[e] = q
      /\ QHead \in Cells /\ q \in Elems \cup {QNull, QHead} /\ e # QHead /\ p # e /\ q # e
  BY QNames DEF Between, Memories
<1>2. N \in [Cells -> QAddrs] /\ N[p] = q /\ \A c \in Cells : c # p => N[c] = m.next[c]
  <2>1. Writes(m.next, p, q, N)
    BY <1>1 DEF Writes
  <2> HIDE DEF N
  <2> QED
    BY <2>1, FieldSet
<1>3. kind \in Doubly => m.prev[e] = p
  BY DEF Between
<1>4. ASSUME kind \in {"SLIST", "STAILQ"}
      PROVE  SLIST_REMOVE(m, e) = [m EXCEPT !.next[p] = q]
  <2>1. CASE p = QHead
    <3>1. m.next[QHead] = e
      BY <1>1, <2>1
    <3>2. SLIST_REMOVE(m, e) = SLIST_REMOVE_HEAD(m)
      BY <3>1 DEF SLIST_REMOVE
    <3> QED
      BY <1>1, <2>1, <3>1, <3>2 DEF SLIST_REMOVE_HEAD
  <2>2. CASE p # QHead
    <3>1. m.next[QHead] # e /\ Before(m, e) = p
      BY <1>4, <2>2 DEF Finds
    <3> QED
      BY <1>1, <3>1 DEF SLIST_REMOVE
  <2> QED
    BY <2>1, <2>2
<1>5. CASE kind = "SLIST"
  <2>1. w = [m EXCEPT !.next[p] = q]
    BY <1>4, <1>5 DEF TakeOut
  <2> HIDE DEF w, N
  <2>2. w \in Memories /\ w.next[p] = q /\ \A c \in Cells : c # p => w.next[c] = m.next[c]
    <3>1. WritesNext(m, p, q, w)
      BY <1>1, <2>1 DEF WritesNext
    <3> HIDE DEF w
    <3> QED
      BY <3>1, NextSet
  <2> QED
    BY <1>5, <2>2 DEF TakenBetween, Doubly, Tailed, w
<1>6. CASE kind = "STAILQ"
  <2> DEFINE v == SLIST_REMOVE(m, e)
  <2>1. v = [m EXCEPT !.next[p] = q]
    BY <1>4, <1>6
  <2>2. w = IfLast(v, p)
    <3>1. w = STAILQ_REMOVE(m, e)
      BY <1>6 DEF TakeOut
    <3>2. CASE p = QHead
      <4>1. m.next[QHead] = e
        BY <1>1, <3>2
      <4>2. v = SLIST_REMOVE_HEAD(m)
        BY <4>1 DEF SLIST_REMOVE
      <4> HIDE DEF v, w
      <4> QED
        BY <3>1, <3>2, <4>1, <4>2 DEF STAILQ_REMOVE, STAILQ_REMOVE_HEAD
    <3>3. CASE p # QHead
      <4>1. m.next[QHead] # e /\ Before(m, e) = p
        BY <1>6, <3>3 DEF Finds
      <4> QED
        BY <3>1, <4>1 DEF STAILQ_REMOVE
    <3> QED
      BY <3>2, <3>3
  <2> HIDE DEF w, N, v
  <2>3. v \in Memories /\ v.prev = m.prev /\ v.next[p] = q /\ \A c \in Cells : c # p => v.next[c] = m.next[c]
    <3>1. WritesNext(m, p, q, v)
      BY <1>1, <2>1 DEF WritesNext
    <3> HIDE DEF v
    <3> QED
      BY <3>1, NextSet
  <2>4. /\ w \in Memories /\ w.next = v.next
        /\ w.prev[QHead] = IF q = QNull THEN p ELSE m.prev[QHead]
    <3>1. CASE q = QNull
      <4>1. w = [v EXCEPT !.prev[QHead] = p]
        BY <2>2, <2>3, <3>1 DEF IfLast
      <4> QED
        <5>1. WritesPrev(v, QHead, p, w)
          BY <1>1, <2>3, <3>1, <4>1 DEF WritesPrev
        <5>2. w \in Memories /\ w.next = v.next /\ w.prev[QHead] = p
          BY <5>1, PrevSet
        <5> QED
          BY <1>1, <2>3, <3>1, <4>1, <5>2
    <3>2. CASE q # QNull
      BY <2>2, <2>3, <3>2 DEF IfLast
    <3> QED
      BY <3>1, <3>2
  <2>5. q \in Elems <=> q # QNull
    BY <1>1, <1>6, QNames DEF Between, EndOf
  <2> QED
    BY <1>6, <2>3, <2>4, <2>5 DEF TakenBetween, Doubly, w
<1>7. CASE kind = "LIST"
  <2> DEFINE P == SetPrev(m.prev, q, p)
  <2>1. m.prev[e] = p
    BY <1>3, <1>7 DEF Doubly
  <2>2. w = [next |-> N, prev |-> P]
    BY <1>1, <1>7, <2>1 DEF TakeOut, LIST_REMOVE
  <2>3. q \in Elems \/ q = QNull
    BY <1>7 DEF Between, EndOf
  <2>4. P \in [Cells -> QAddrs] /\ (q \in Elems => P[q] = p) /\ \A c \in Elems : c # q => P[c] = m.prev[c]
    BY <1>1, <2>3, QNames DEF SetPrev
  <2> HIDE DEF w, N, P
  <2>5. w \in Memories /\ w.next = N /\ w.prev = P
    BY <1>2, <2>2, <2>4, OfTwoFields
  <2> QED
    BY <1>2, <1>7, <2>4, <2>5 DEF TakenBetween, Tailed, w
<1>8. CASE kind = "TAILQ"
  <2> DEFINE o == OrHead(q)
             P == [m.prev EXCEPT ![o] = p]
  <2>1. m.prev[e] = p
    BY <1>3, <1>8 DEF Doubly
  <2>2. w = [next |-> N, prev |-> P]
    BY <1>1, <1>8, <2>1 DEF TakeOut, TAILQ_REMOVE
  <2>3. o \in Cells /\ o = IF q \in Elems THEN q ELSE QHead
    BY <1>1, <1>8, QNames DEF OrHead, Between, EndOf
  <2> HIDE DEF o
  <2>4. P \in [Cells -> QAddrs] /\ P[o] = p /\ \A c \in Cells : c # o => P[c] = m.prev[c]
    <3>1. Writes(m.prev, o, p, P)
      BY <1>1, <2>3 DEF Writes
    <3> HIDE DEF P
    <3> QED
      BY <3>1, FieldSet
  <2> HIDE DEF w, N, P
  <2>5. w \in Memories /\ w.next = N /\ w.prev = P
    BY <1>2, <2>2, <2>4, OfTwoFields
  <2>6. P[QHead] = IF q \in Elems THEN m.prev[QHead] ELSE p
    BY <1>1, <2>3, <2>4, QNames
  <2>7. \A c \in Elems : c # q => P[c] = m.prev[c]
    BY <1>1, <2>3, <2>4, QNames
  <2> QED
    BY <1>2, <2>3, <2>4, <2>5, <2>6, <2>7 DEF TakenBetween, w
<1>9. CASE kind = "CIRCLEQ"
  <2> DEFINE P == [m.prev EXCEPT ![q] = p]
  <2>1. m.prev[e] = p
    BY <1>3, <1>9 DEF Doubly
  <2>2. w = [next |-> N, prev |-> P]
    BY <1>1, <1>9, <2>1 DEF TakeOut, CIRCLEQ_REMOVE
  <2>3. q \in Cells /\ (q \notin Elems => q = QHead)
    BY <1>9, QNames DEF Between, EndOf
  <2>4. P \in [Cells -> QAddrs] /\ P[q] = p /\ \A c \in Cells : c # q => P[c] = m.prev[c]
    <3>1. Writes(m.prev, q, p, P)
      BY <1>1, <2>3 DEF Writes
    <3> HIDE DEF P
    <3> QED
      BY <3>1, FieldSet
  <2> HIDE DEF w, N, P
  <2>5. w \in Memories /\ w.next = N /\ w.prev = P
    BY <1>2, <2>2, <2>4, OfTwoFields
  <2>6. P[QHead] = IF q \in Elems THEN m.prev[QHead] ELSE p
    BY <1>1, <2>3, <2>4, QNames
  <2>7. \A c \in Elems : c # q => P[c] = m.prev[c]
    BY <1>1, <2>3, <2>4, QNames
  <2> QED
    BY <1>2, <2>4, <2>5, <2>6, <2>7 DEF TakenBetween, w
<1>10. CASE kind = "QUE"
  <2> DEFINE P == [m.prev EXCEPT ![q] = p, ![e] = QNull]
  <2>1. m.prev[e] = p
    BY <1>3, <1>10 DEF Doubly
  <2>2. w = [next |-> N, prev |-> P]
    BY <1>1, <1>10, <2>1 DEF TakeOut, remque
  <2>3. q \in Cells /\ (q \notin Elems => q = QHead)
    BY <1>10, QNames DEF Between, EndOf
  <2>4. P \in [Cells -> QAddrs] /\ P[q] = p /\ \A c \in Cells : c # q /\ c # e => P[c] = m.prev[c]
    <3>1. WritesTwo(m.prev, q, p, e, QNull, P)
      BY <1>1, <2>3 DEF WritesTwo
    <3> HIDE DEF P
    <3> QED
      BY <3>1, FieldsSet
  <2> HIDE DEF w, N, P
  <2>5. w \in Memories /\ w.next = N /\ w.prev = P
    <3>1. P \in [Cells -> QAddrs]
      BY <2>4
    <3> QED
      BY <1>2, <2>2, <3>1, OfTwoFields
  <2>6. P[QHead] = IF q \in Elems THEN m.prev[QHead] ELSE p
    BY <1>1, <2>3, <2>4, QNames
  <2>7. \A c \in Elems : c # e /\ c # q => P[c] = m.prev[c]
    BY <1>1, <2>3, <2>4, QNames
  <2> QED
    BY <1>2, <2>4, <2>5, <2>6, <2>7 DEF TakenBetween, w
<1> QED
  BY <1>5, <1>6, <1>7, <1>8, <1>9, <1>10 DEF QKinds

-----------------------------------------------------------------------------
(* Walks.                                                                  *)

\* A walk along links that lead through the cells of s to its end meets s.
LEMMA WalkMeets ==
  ASSUME NEW link, NEW end, NEW s, NEW r, Leads(Cells, QAddrs, link, r, s, end, Cardinality(Cells)), link[QHead] = r[1]
  PROVE  Walk(link, end) = s
<1> DEFINE N == Cardinality(Cells)
           Plain(f) == f = [n \in Nat |->
                             [c \in Cells \cup {QNull, Garbage} |->
                               IF n = 0 \/ c = end \/ c \notin Cells THEN << >>
                               ELSE <<c>> \o f[n - 1][link[c]]]]
           from == CHOOSE f : Plain(f)
<1>1. \A f : Met(f, Cells, QAddrs, link, end, {}) <=> Plain(f)
  <2> SUFFICES ASSUME NEW f
               PROVE  Met(f, Cells, QAddrs, link, end, {}) <=> Plain(f)
    OBVIOUS
  <2> DEFINE one == [n \in Nat |->
                      [c \in QAddrs |->
                        IF n = 0 \/ c = end \/ c \notin Cells THEN << >>
                        ELSE IF c \in {} THEN <<c>> ELSE <<c>> \o f[n - 1][link[c]]]]
             two == [n \in Nat |->
                      [c \in Cells \cup {QNull, Garbage} |->
                        IF n = 0 \/ c = end \/ c \notin Cells THEN << >>
                        ELSE <<c>> \o f[n - 1][link[c]]]]
  <2>1. one = two
    <3> SUFFICES ASSUME NEW n \in Nat
                 PROVE  [c \in QAddrs |->
                          IF n = 0 \/ c = end \/ c \notin Cells THEN << >>
                          ELSE IF c \in {} THEN <<c>> ELSE <<c>> \o f[n - 1][link[c]]]
                        = [c \in Cells \cup {QNull, Garbage} |->
                            IF n = 0 \/ c = end \/ c \notin Cells THEN << >>
                            ELSE <<c>> \o f[n - 1][link[c]]]
      BY Zenon
    <3> QED
      BY DEF QAddrs
  <2> HIDE DEF one, two
  <2>2. Met(f, Cells, QAddrs, link, end, {}) <=> f = one
    BY DEF Met, one
  <2>3. Plain(f) <=> f = two
    BY DEF two
  <2> QED
    BY <2>1, <2>2, <2>3
<1>2. \E f : Met(f, Cells, QAddrs, link, end, {})
  BY MetIsSequence DEF Leads
<1>3. Walk(link, end) = from[N][link[QHead]]
  BY DEF Walk
<1> HIDE DEF Plain, N
<1>4. Plain(from)
  <2>1. \E f : Plain(f)
    BY <1>1, <1>2
  <2> QED
    BY <2>1
<1> HIDE DEF from
<1>5. Met(from, Cells, QAddrs, link, end, {})
  BY <1>1, <1>4
<1>6. from[N][r[1]] = s
  BY <1>5, MetThrough DEF N
<1> QED
  BY <1>3, <1>6

\* What is on a queue fits into the number of steps a walk takes.
LEMMA QueueFits ==
  ASSUME NEW kind, NEW m, NEW s, Holds(m, kind, s)
  PROVE  Len(s) <= Cardinality(Cells) /\ Cardinality(Cells) \in Nat
<1> DEFINE n == Len(s)
           a == ChainOf(kind, s)
<1>1. n \in Nat /\ s \in Seq(Elems) /\ \A i \in 1..n : a[i] = s[i] /\ s[i] \in Elems
  BY ChainPlaces DEF Holds
<1>2. IsFiniteSet(Cells)
  <2>1. IsFiniteSet(Elems)
    BY QueueAssumption
  <2> QED
    BY <2>1, FS_AddElement DEF Cells
<1>3. \A i, j \in 1..n : i # j => s[i] # s[j]
  <2>1. \A i, j \in 0..n : i # j => a[i] # a[j]
    BY DEF Holds, Chained, IsChain
  <2>2. \A i \in 1..n : i \in 0..n
    BY <1>1
  <2> HIDE DEF n, a
  <2> QED
    BY <1>1, <2>1, <2>2
<1> DEFINE f == [i \in 1..n |-> s[i]]
<1> HIDE DEF n, a
<1>4. f \in Injection(1..n, Cells)
  BY <1>1, <1>3, QNames DEF Injection, IsInjective
<1>5. Cardinality(1..n) <= Cardinality(Cells)
  BY <1>2, <1>4, FS_Injection
<1>6. Cardinality(1..n) = n
  <2>1. Cardinality(1..n) = IF 1 > n THEN 0 ELSE n - 1 + 1
    BY <1>1, FS_Interval
  <2> QED
    BY <1>1, <2>1
<1> QED
  BY <1>2, <1>5, <1>6, FS_CardinalityType DEF n

\* A walk forward meets the queue.
LEMMA ForwardMeets ==
  ASSUME NEW kind, NEW m, NEW s, Holds(m, kind, s)
  PROVE  Walk(m.next, EndOf(kind)) = s
<1> DEFINE n == Len(s)
           a == ChainOf(kind, s)
<1>1. /\ n \in Nat /\ s \in Seq(Elems) /\ \A i \in 1..n : a[i] = s[i] /\ s[i] \in Elems
      /\ a[0] = QHead /\ a[n + 1] = EndOf(kind)
  BY ChainPlaces DEF Holds
<1>2. m.next \in [Cells -> QAddrs] /\ \A i \in 0..n : m.next[a[i]] = a[i + 1]
  BY DEF Holds, Chained, Fields, Memories
<1>3. n <= Cardinality(Cells) /\ Cardinality(Cells) \in Nat
  BY QueueFits
<1>4. s \in Seq(Cells)
  BY <1>1, QNames
<1>n. n = Len(s)
  OBVIOUS
<1> HIDE DEF n, a
<1>5. 0 \in 0..n /\ 0 + 1 = 1 /\ \A i \in 1..n : i \in 0..n
  BY <1>1
<1>6. Cells \subseteq QAddrs /\ EndOf(kind) \in QAddrs /\ EndOf(kind) \notin Elems
  BY QNames
<1>7. \A i \in 1..n : a[i] = s[i] /\ s[i] # EndOf(kind) /\ m.next[s[i]] = a[i + 1]
  BY <1>1, <1>2, <1>5, <1>6
<1>8. Leads(Cells, QAddrs, m.next, a, s, EndOf(kind), Cardinality(Cells))
  BY <1>1, <1>2, <1>3, <1>4, <1>6, <1>7, <1>n DEF Leads
<1>9. m.next[QHead] = a[1]
  BY <1>1, <1>2, <1>5
<1> QED
  BY <1>8, <1>9, WalkMeets

\* A walk backward, along links that lead through the chain in reverse, meets
\* the reverse of the queue.
LEMMA BackwardMeets ==
  ASSUME NEW kind, NEW m, NEW s, Holds(m, kind, s), NEW link \in [Cells -> QAddrs], NEW end \in QAddrs \ Elems,
         \A i \in 2..Len(s) : link[s[i]] = s[i - 1], Len(s) # 0 => link[s[1]] = end,
         link[QHead] = IF Len(s) = 0 THEN end ELSE s[Len(s)]
  PROVE  Walk(link, end) = Reverse(s)
<1> DEFINE n == Len(s)
           z == Reverse(s)
           r == [i \in 1..n + 1 |-> IF i = n + 1 THEN end ELSE s[n + 1 - i]]
<1>1. n \in Nat /\ s \in Seq(Elems) /\ \A i \in 1..n : s[i] \in Elems
  BY ChainPlaces DEF Holds
<1>2. n <= Cardinality(Cells) /\ Cardinality(Cells) \in Nat
  BY QueueFits
<1>3. Len(z) = n /\ z \in Seq(Cells) /\ \A i \in 1..n : z[i] = s[n + 1 - i] /\ n + 1 - i \in 1..n
  <2>1. z = [i \in 1..n |-> s[n - i + 1]]
    BY DEF Reverse
  <2> HIDE DEF n, z
  <2>2. \A i \in 1..n : n - i + 1 = n + 1 - i /\ n - i + 1 \in 1..n
    BY <1>1
  <2>3. z \in [1..n -> Cells]
    BY <1>1, <2>1, <2>2, QNames
  <2>4. z \in Seq(Cells) /\ Len(z) = n
    BY <1>1, <2>3, SeqDef, LenProperties
  <2> QED
    BY <2>1, <2>2, <2>4
<1>4. r[n + 1] = end /\ \A i \in 1..n : r[i] = s[n + 1 - i]
  <2>1. n + 1 \in 1..n + 1 /\ \A i \in 1..n : i \in 1..n + 1 /\ i # n + 1
    BY <1>1
  <2> QED
    BY <2>1
<1>5. /\ \A i \in 2..n : link[s[i]] = s[i - 1]
      /\ n # 0 => link[s[1]] = end
      /\ link[QHead] = IF n = 0 THEN end ELSE s[n]
  OBVIOUS
<1> HIDE DEF n, z, r
<1>6. ASSUME NEW i \in 1..n
      PROVE  r[i] = z[i] /\ z[i] # end /\ link[z[i]] = r[i + 1]
  <2>1. r[i] = z[i] /\ z[i] = s[n + 1 - i] /\ z[i] \in Elems
    BY <1>1, <1>3, <1>4
  <2>2. CASE i = n
    <3>1. n + 1 - i = 1 /\ n # 0
      BY <1>1, <2>2
    <3> QED
      BY <1>4, <1>5, <2>1, <2>2, <3>1
  <2>3. CASE i # n
    <3> DEFINE k == n + 1 - i
    <3>1. k \in 2..n /\ i + 1 \in 1..n /\ n + 1 - (i + 1) = k - 1
      BY <1>1, <2>3
    <3> HIDE DEF k
    <3>2. r[i + 1] = s[k - 1]
      BY <1>4, <3>1
    <3> QED
      BY <1>5, <2>1, <3>1, <3>2 DEF k
  <2> QED
    BY <2>2, <2>3
<1>7. link[QHead] = r[1]
  <2>1. CASE n = 0
    BY <1>4, <1>5, <2>1
  <2>2. CASE n # 0
    <3>1. 1 \in 1..n /\ n + 1 - 1 = n
      BY <1>1, <2>2
    <3> QED
      BY <1>4, <1>5, <2>2, <3>1
  <2> QED
    BY <2>1, <2>2
<1>8. Leads(Cells, QAddrs, link, r, z, end, Cardinality(Cells))
  <2>1. Cells \subseteq QAddrs
    BY QNames
  <2> QED
    BY <1>2, <1>3, <1>4, <1>6, <2>1 DEF Leads
<1> QED
  BY <1>7, <1>8, WalkMeets DEF z

\* So every traversal of a queue meets it.
LEMMA AllTraversalsMeet ==
  ASSUME qkind \in QKinds, Holds(links, qkind, queue)
  PROVE  TraversalsMeetQueue
<1> DEFINE n == Len(queue)
           a == ChainOf(qkind, queue)
           m == links
<1>1. /\ n \in Nat /\ queue \in Seq(Elems) /\ \A i \in 1..n : a[i] = queue[i] /\ queue[i] \in Elems
      /\ a[0] = QHead /\ a[n + 1] = EndOf(qkind)
  BY ChainPlaces DEF Holds
<1>2. /\ m.next \in [Cells -> QAddrs] /\ m.prev \in [Cells -> QAddrs]
      /\ \A i \in 0..n : m.next[a[i]] = a[i + 1]
      /\ qkind \in Doubly => \A i \in 1..n : m.prev[a[i]] = a[i - 1]
      /\ qkind \in Tailed => m.prev[QHead] = a[n]
  BY DEF Holds, Chained, Fields, Memories
<1>3. Walk(links.next, EndOf(qkind)) = queue
  BY ForwardMeets
<1>4. n # 0 => n \in 1..n /\ 1 \in 1..n
  BY <1>1
<1>n. n = Len(queue)
  OBVIOUS
<1>5. CASE qkind = "SLIST" \/ qkind = "LIST"
  BY <1>3, <1>5 DEF TraversalsMeetQueue, SLIST_FOREACH, LIST_FOREACH, EndOf
<1>6. CASE qkind = "STAILQ"
  <2>1. Walk(m.next, QNull) = queue
    BY <1>3, <1>6 DEF EndOf
  <2>2. STAILQ_LAST(m) = IF queue = << >> THEN QNull ELSE Last(queue)
    <3>0. 0 \in 0..n /\ 0 + 1 = 1 /\ a[n + 1] = QNull
      BY <1>1, <1>6 DEF EndOf
    <3>1. CASE n = 0
      <4>1. queue = << >>
        BY <1>1, <1>n, <3>1, EmptySeq
      <4>2. m.next[QHead] = QNull
        <5> HIDE DEF n, a
        <5> QED
          BY <1>1, <1>2, <3>0, <3>1
      <4> QED
        BY <4>1, <4>2 DEF STAILQ_LAST
    <3>2. CASE n # 0
      <4>1. queue # << >>
        BY <1>n, <3>2, EmptySeq
      <4>2. m.next[QHead] # QNull /\ m.prev[QHead] = queue[n]
        <5>1. qkind \in Tailed
          BY <1>6 DEF Tailed
        <5> HIDE DEF n, a
        <5> QED
          BY <1>1, <1>2, <1>4, <3>0, <3>2, <5>1, QNames
      <4> QED
        BY <4>1, <4>2 DEF STAILQ_LAST, Last
    <3> QED
      BY <3>1, <3>2
  <2> QED
    BY <1>6, <2>1, <2>2 DEF TraversalsMeetQueue, STAILQ_FOREACH
<1>7. CASE qkind = "TAILQ"
  <2> DEFINE back == [c \in Cells |-> TAILQ_PREV(m, c)]
  <2>1. Walk(m.next, QNull) = queue
    BY <1>3, <1>7 DEF EndOf
  <2>2. /\ \A i \in 0..n : m.next[a[i]] = a[i + 1]
        /\ \A i \in 1..n : m.prev[a[i]] = a[i - 1]
        /\ m.prev[QHead] = a[n] /\ a[n + 1] = QNull
    BY <1>1, <1>2, <1>7 DEF Doubly, Tailed, EndOf
  <2>3. back \in [Cells -> QAddrs]
    BY <1>2, QNames DEF TAILQ_PREV, QAddrs
  <2>4. \A i \in 0..n : a[i] \in Cells
    <3>1. \A i \in 0..n : i = 0 \/ i \in 1..n
      BY <1>1
    <3> HIDE DEF n, a
    <3> QED
      BY <1>1, <3>1, QNames
  <2>5. ASSUME NEW c \in Cells, NEW d \in 0..n, NEW e \in 0..n, m.prev[c] = a[d], m.prev[a[d]] = a[e]
        PROVE  back[c] = a[e + 1]
    <3>1. m.prev[c] \in Cells /\ m.prev[m.prev[c]] \in Cells
      BY <2>4, <2>5
    <3>2. back[c] = m.next[m.prev[m.prev[c]]]
      BY <3>1 DEF TAILQ_PREV
    <3> HIDE DEF back, n, a
    <3> QED
      BY <2>2, <2>5, <3>2
  <2> HIDE DEF back, n, a
  <2>6. \A i \in 2..n : back[queue[i]] = queue[i - 1]
    <3> SUFFICES ASSUME NEW i \in 2..n
                 PROVE  back[queue[i]] = queue[i - 1]
      OBVIOUS
    <3> DEFINE d == i - 1
               e == i - 2
    <3>1. d \in 0..n /\ e \in 0..n /\ d \in 1..n /\ i \in 1..n /\ d - 1 = e /\ e + 1 = d
      BY <1>1
    <3>2. m.prev[a[i]] = a[d]
      BY <2>2, <3>1
    <3> HIDE DEF d, e
    <3>3. m.prev[a[d]] = a[e] /\ a[i] \in Cells
      BY <1>1, <2>2, <3>1, QNames
    <3>4. back[a[i]] = a[d]
      BY <2>5, <3>1, <3>2, <3>3
    <3> QED
      BY <1>1, <3>1, <3>4 DEF d
  <2>7. n # 0 => back[queue[1]] = QNull
    <3> SUFFICES ASSUME n # 0
                 PROVE  back[queue[1]] = QNull
      OBVIOUS
    <3>1. 1 \in 1..n /\ 1 - 1 = 0 /\ 0 \in 0..n /\ n \in 0..n
      BY <1>1
    <3>2. m.prev[a[1]] = a[0] /\ m.prev[a[0]] = a[n] /\ a[1] \in Cells /\ a[1] = queue[1]
      BY <1>1, <2>2, <3>1, QNames
    <3>3. back[a[1]] = a[n + 1]
      BY <2>5, <3>1, <3>2
    <3> QED
      BY <2>2, <3>2, <3>3
  <2>8. back[QHead] = IF n = 0 THEN QNull ELSE queue[n]
    <3>1. CASE n = 0
      <4>1. 0 \in 0..n /\ 0 + 1 = n + 1
        BY <1>1, <3>1
      <4>2. m.prev[QHead] = a[0] /\ m.prev[a[0]] = a[0]
        BY <1>1, <2>2, <3>1
      <4>3. back[QHead] = a[0 + 1]
        BY <2>5, <4>1, <4>2, QNames
      <4> QED
        BY <2>2, <3>1, <4>1, <4>3
    <3>2. CASE n # 0
      <4> DEFINE e == n - 1
      <4>1. n \in 1..n /\ n \in 0..n /\ e \in 0..n /\ e + 1 = n
        BY <1>1, <3>2
      <4>2. m.prev[QHead] = a[n] /\ m.prev[a[n]] = a[e]
        BY <2>2, <4>1
      <4> HIDE DEF e
      <4>3. back[QHead] = a[n]
        BY <2>5, <4>1, <4>2, QNames
      <4> QED
        BY <1>1, <3>2, <4>1, <4>3
    <3> QED
      BY <3>1, <3>2
  <2>9. Walk(back, QNull) = Reverse(queue)
    <3>1. QNull \in QAddrs \ Elems
      BY QNames
    <3> QED
      BY <1>n, <2>3, <2>6, <2>7, <2>8, <3>1, BackwardMeets
  <2> QED
    BY <1>7, <2>1, <2>9 DEF TraversalsMeetQueue, TAILQ_FOREACH, TAILQ_FOREACH_REVERSE, back
<1>8. CASE qkind \in {"CIRCLEQ", "QUE"}
  <2>1. Walk(m.next, QHead) = queue
    BY <1>3, <1>8 DEF EndOf
  <2>2. /\ \A i \in 1..n : m.prev[a[i]] = a[i - 1]
        /\ m.prev[QHead] = a[n]
    BY <1>2, <1>8 DEF Doubly, Tailed
  <2> HIDE DEF n, a
  <2>3. \A i \in 2..n : m.prev[queue[i]] = queue[i - 1]
    <3>1. \A i \in 2..n : i \in 1..n /\ i - 1 \in 1..n
      BY <1>1
    <3> QED
      BY <1>1, <2>2, <3>1
  <2>4. n # 0 => m.prev[queue[1]] = QHead
    <3>1. 1 - 1 = 0
      OBVIOUS
    <3> QED
      BY <1>1, <1>4, <2>2, <3>1
  <2>5. m.prev[QHead] = IF n = 0 THEN QHead ELSE queue[n]
    BY <1>1, <1>4, <2>2
  <2>6. QHead \in QAddrs \ Elems
    BY QNames
  <2>7. Walk(m.prev, QHead) = Reverse(queue)
    BY <1>2, <1>n, <2>3, <2>4, <2>5, <2>6, BackwardMeets
  <2> QED
    BY <1>8, <2>1, <2>7 DEF TraversalsMeetQueue, CIRCLEQ_FOREACH, CIRCLEQ_FOREACH_REVERSE
<1> QED
  BY <1>5, <1>6, <1>7, <1>8 DEF QKinds

-----------------------------------------------------------------------------
(* The calls.                                                              *)

QInv == qkind \in QKinds /\ Holds(links, qkind, queue)

\* Where an element is on the queue.
LEMMA PlaceOnQueue ==
  ASSUME NEW e \in OnList
  PROVE  Place(e) \in 1..Len(queue) /\ queue[Place(e)] = e
<1>1. \E i \in 1..Len(queue) : queue[i] = e
  BY DEF OnList, ToSet
<1> QED
  BY <1>1 DEF Place

\* The chain of the queue: its places, which are linked as the list's kind
\* links them, and are where it is searched for the predecessor of an element.
LEMMA QueueChain ==
  ASSUME QInv
  PROVE  LET a == ChainOf(qkind, queue)
             n == Len(queue)
         IN  /\ n \in Nat /\ queue \in Seq(Elems) /\ a[0] = QHead /\ a[n + 1] = EndOf(qkind)
             /\ \A i \in 1..n : a[i] = queue[i] /\ queue[i] \in Elems
             /\ \A k \in 0..n : Between(links, qkind, a[k], a[k + 1]) /\ a[k] \in Cells
             /\ \A i, j \in 0..n : i # j => a[i] # a[j]
<1> DEFINE a == ChainOf(qkind, queue)
           n == Len(queue)
<1>1. queue \in Seq(Elems) /\ Chained(links, qkind, a, n)
  BY DEF QInv, Holds
<1>2. \A k \in 0..n : Between(links, qkind, a[k], a[k + 1])
  BY <1>1, BetweenNeighbours
<1>3. \A k \in 0..n : a[k] \in Cells
  BY <1>2 DEF Between
<1> QED
  BY <1>1, <1>2, <1>3, ChainPlaces DEF Chained, IsChain

\* An element that is on no list is put in behind place k.
LEMMA QueuePutIn ==
  ASSUME QInv, NEW e \in Elems, e \notin OnList, NEW k \in 0..Len(queue), NEW u, IsGrown(Elems, u, queue, k, e),
         NEW w, PutBetween(links, w, qkind, ChainOf(qkind, queue)[k], ChainOf(qkind, queue)[k + 1], e)
  PROVE  Holds(w, qkind, u)
BY QueueGrows DEF QInv, OnList

\* The element at place k is not its neighbours, which are linked.
LEMMA QueueTakenOut ==
  ASSUME QInv, NEW k \in 1..Len(queue), NEW u \in Seq(Elems), Without(queue, k, u)
  PROVE  Holds(TakeOut(links, qkind, queue[k]), qkind, u)
<1> DEFINE a == ChainOf(qkind, queue)
           n == Len(queue)
           e == queue[k]
           p == a[k - 1]
           q == a[k + 1]
           m == links
<1>1. /\ n \in Nat /\ queue \in Seq(Elems) /\ a[0] = QHead /\ a[n + 1] = EndOf(qkind)
      /\ \A i \in 1..n : a[i] = queue[i] /\ queue[i] \in Elems
      /\ \A i \in 0..n : Between(links, qkind, a[i], a[i + 1]) /\ a[i] \in Cells
      /\ \A i, j \in 0..n : i # j => a[i] # a[j]
  BY QueueChain
<1>2. k - 1 \in 0..n /\ k \in 0..n /\ k - 1 + 1 = k /\ k \in 1..n /\ k - 1 # k /\ (k < n => k + 1 \in 0..n /\ k + 1 # k)
      /\ (~(k < n) => k = n) /\ k \in Nat
  BY <1>1
<1> HIDE DEF a, n
<1>3. a[k] = e /\ e \in Elems
  BY <1>1, <1>2
<1>4. Between(m, qkind, p, e)
  <2> DEFINE j == k - 1
  <2>1. Between(m, qkind, a[j], a[j + 1])
    <3> HIDE DEF j
    <3> QED
      BY <1>1, <1>2 DEF j
  <2> QED
    BY <1>2, <1>3, <2>1
<1>5. Between(m, qkind, e, q) /\ p # e
  BY <1>1, <1>2, <1>3
<1>6. q # e
  <2>1. CASE k < n
    BY <1>1, <1>2, <1>3, <2>1
  <2>2. CASE ~(k < n)
    BY <1>1, <1>2, <1>3, <2>2, QNames
  <2> QED
    BY <2>1, <2>2
<1>7. \A i \in 0..n : m.next[a[i]] = a[i + 1]
  BY <1>1 DEF Between
<1>8. \A i \in 0..n : m.next[a[i]] = e => i = k - 1
  <2> SUFFICES ASSUME NEW i \in 0..n, m.next[a[i]] = e
               PROVE  i = k - 1
    OBVIOUS
  <2>1. a[i + 1] = a[k]
    BY <1>3, <1>7
  <2>2. CASE i = n
    BY <1>1, <1>3, <2>1, <2>2, QNames
  <2>3. CASE i # n
    <3>1. i + 1 \in 0..n
      BY <1>1, <2>3
    <3>2. i + 1 = k
      BY <1>1, <1>2, <2>1, <3>1
    <3> QED
      BY <1>1, <3>2
  <2> QED
    BY <2>2, <2>3
<1>9. ASSUME qkind \in {"SLIST", "STAILQ"}
      PROVE  Finds(m, p, e)
  <2>1. SLIST_FOREACH(m) = queue
    <3>1. Walk(m.next, EndOf(qkind)) = queue
      BY ForwardMeets DEF QInv
    <3> QED
      BY <1>9, <3>1 DEF SLIST_FOREACH, EndOf
  <2>2. ToSet(queue) = {queue[i] : i \in 1..n}
    BY DEF ToSet, n
  <2>3. \A c \in {QHead} \cup ToSet(SLIST_FOREACH(m)) : \E i \in 0..n : c = a[i]
    <3>1. 0 \in 0..n /\ \A i \in 1..n : i \in 0..n
      BY <1>1
    <3> QED
      BY <1>1, <2>1, <2>2, <3>1
  <2>4. p \in {QHead} \cup ToSet(SLIST_FOREACH(m))
    <3>1. CASE k = 1
      BY <1>1, <3>1
    <3>2. CASE k # 1
      <4>1. k - 1 \in 1..n
        BY <1>1, <1>2, <3>2
      <4>2. p = queue[k - 1]
        BY <1>1, <4>1
      <4> QED
        BY <2>1, <2>2, <4>1, <4>2
    <3> QED
      BY <3>1, <3>2
  <2>5. m.next[p] = e
    BY <1>4 DEF Between
  <2>6. \A c \in {QHead} \cup ToSet(SLIST_FOREACH(m)) : m.next[c] = e => c = p
    BY <1>8, <2>3
  <2>7. Before(m, e) = p
    <3> DEFINE S == {QHead} \cup ToSet(SLIST_FOREACH(m))
    <3>1. Before(m, e) = CHOOSE c \in S : m.next[c] = e
      BY DEF Before
    <3> HIDE DEF S, p
    <3> QED
      BY <2>4, <2>5, <2>6, <3>1 DEF S
  <2>8. m.next[QHead] = e <=> p = QHead
    BY <2>5, <2>6
  <2> QED
    BY <2>7, <2>8 DEF Finds
<1> DEFINE w == TakeOut(m, qkind, e)
<1>10. TakenBetween(m, w, qkind, p, e, q)
  <2>1. qkind \in QKinds
    BY DEF QInv
  <2> HIDE DEF p, q, e, w
  <2> QED
    BY <1>3, <1>4, <1>5, <1>6, <1>9, <2>1, RemovalTakes DEF w
<1> HIDE DEF w
<1> QED
  BY <1>3, <1>10, QueueShrinks DEF QInv, a, w

\* QInsertHead, QInsertTail, QInsertAfter and QInsertBefore each put it in at
\* the place queue(3) says.
LEMMA QueueInserts ==
  ASSUME QInv, NEW e \in Elems
  PROVE  /\ QInsertHead(e) => QInv'
         /\ QInsertTail(e) => QInv'
         /\ \A l \in Elems : QInsertAfter(l, e) => QInv'
         /\ \A l \in Elems : QInsertBefore(l, e) => QInv'
<1> DEFINE a == ChainOf(qkind, queue)
           n == Len(queue)
           m == links
<1>1. /\ n \in Nat /\ queue \in Seq(Elems) /\ a[0] = QHead /\ a[n + 1] = EndOf(qkind)
      /\ \A i \in 1..n : a[i] = queue[i] /\ queue[i] \in Elems
      /\ \A i \in 0..n : Between(links, qkind, a[i], a[i + 1]) /\ a[i] \in Cells
      /\ \A i, j \in 0..n : i # j => a[i] # a[j]
  BY QueueChain
<1>2. qkind \in QKinds
  BY DEF QInv
<1>3. e \notin OnList => \A i \in 0..n + 1 : a[i] # e
  <2>1. e \notin OnList => \A i \in 1..n : queue[i] # e
    BY DEF OnList, ToSet
  <2>2. \A i \in 0..n + 1 : i = 0 \/ i = n + 1 \/ i \in 1..n
    BY <1>1
  <2> HIDE DEF a, n
  <2> QED
    BY <1>1, <2>1, <2>2, QNames
<1>4. \A k \in 0..n : k \in 0..n + 1 /\ k + 1 \in 0..n + 1
  BY <1>1
<1>5. ASSUME NEW k \in 0..n, e \notin OnList, qkind' = qkind,
             PutBetween(m, links', qkind, a[k], a[k + 1], e), IsGrown(Elems, queue', queue, k, e)
      PROVE  QInv'
  <2>1. Holds(links', qkind, queue')
    BY <1>5, QueuePutIn
  <2> QED
    BY <1>2, <1>5, <2>1 DEF QInv
<1>6. ASSUME QInsertHead(e)
      PROVE  QInv'
  <2>1. e \notin OnList /\ qkind' = qkind /\ queue' = <<e>> \o queue
    BY <1>6 DEF QInsertHead
  <2>2. links' = PutAfter(m, qkind, a[0], e)
    BY <1>1, <1>2, <1>6 DEF QInsertHead, PutAfter, QKinds, SLIST_INSERT_HEAD, STAILQ_INSERT_HEAD,
                            LIST_INSERT_HEAD, TAILQ_INSERT_HEAD, CIRCLEQ_INSERT_HEAD
  <2>3. 0 \in 0..n /\ 0 + 1 = 1 /\ 1 \in 0..n + 1 /\ 0 \in 0..n + 1
    BY <1>1
  <2>4. IsGrown(Elems, queue', queue, 0, e)
    BY <1>1, <2>1, PutIn
  <2> HIDE DEF a, n, m
  <2>5. Between(m, qkind, a[0], a[1]) /\ e # a[0] /\ e # a[1]
    BY <1>1, <1>3, <2>1, <2>3 DEF m
  <2>6. PutBetween(m, links', qkind, a[0], a[0 + 1], e)
    BY <1>2, <2>2, <2>3, <2>5, AfterPutsBetween
  <2> QED
    BY <1>5, <2>1, <2>3, <2>4, <2>6
<1>7. ASSUME QInsertTail(e)
      PROVE  QInv'
  <2>1. e \notin OnList /\ qkind' = qkind /\ queue' = Append(queue, e) /\ qkind \in {"STAILQ", "TAILQ", "CIRCLEQ"}
    BY <1>7 DEF QInsertTail
  <2>2. links' = PutLast(m, qkind, e)
    BY <1>7, <2>1 DEF QInsertTail, PutLast
  <2>3. n \in 0..n /\ n \in 0..n + 1
    BY <1>1
  <2>4. IsGrown(Elems, queue', queue, n, e)
    BY <1>1, <2>1, PutIn
  <2> HIDE DEF a, n, m
  <2>5. Between(m, qkind, a[n], EndOf(qkind)) /\ e # a[n]
    BY <1>1, <1>3, <2>1, <2>3 DEF m
  <2>6. PutBetween(m, links', qkind, a[n], a[n + 1], e)
    BY <1>1, <2>1, <2>2, <2>5, LastPutsBetween
  <2> QED
    BY <1>5, <2>1, <2>3, <2>4, <2>6
<1>8. ASSUME NEW l \in Elems, QInsertAfter(l, e)
      PROVE  QInv'
  <2> DEFINE k == Place(l)
  <2>1. l \in OnList /\ e \notin OnList /\ qkind' = qkind /\ queue' = InsertAt(queue, k + 1, e)
    BY <1>8 DEF QInsertAfter
  <2>2. k \in 1..n /\ queue[k] = l
    BY <2>1, PlaceOnQueue
  <2>3. links' = PutAfter(m, qkind, l, e)
    BY <1>2, <1>8 DEF QInsertAfter, PutAfter, QKinds
  <2> HIDE DEF k
  <2>4. k \in 0..n /\ a[k] = l
    BY <1>1, <2>2
  <2>5. IsGrown(Elems, queue', queue, k, e)
    BY <1>1, <2>1, <2>4, PutIn
  <2> HIDE DEF a, n, m
  <2>6. Between(m, qkind, l, a[k + 1]) /\ e # l /\ e # a[k + 1]
    BY <1>1, <1>3, <1>4, <2>1, <2>4 DEF m
  <2>7. PutBetween(m, links', qkind, a[k], a[k + 1], e)
    BY <1>2, <2>3, <2>4, <2>6, AfterPutsBetween
  <2> QED
    BY <1>5, <2>1, <2>4, <2>5, <2>7
<1>9. ASSUME NEW l \in Elems, QInsertBefore(l, e)
      PROVE  QInv'
  <2> DEFINE k == Place(l) - 1
  <2>1. /\ l \in OnList /\ e \notin OnList /\ qkind' = qkind /\ queue' = InsertAt(queue, Place(l), e)
        /\ qkind \in {"LIST", "TAILQ", "CIRCLEQ"}
    BY <1>9 DEF QInsertBefore
  <2>2. Place(l) \in 1..n /\ queue[Place(l)] = l
    BY <2>1, PlaceOnQueue
  <2>3. links' = PutBefore(m, qkind, l, e)
    BY <1>9, <2>1 DEF QInsertBefore, PutBefore
  <2>4. k \in 0..n /\ k + 1 = Place(l) /\ k + 1 \in 1..n
    BY <1>1, <2>2
  <2> HIDE DEF k
  <2>5. a[k + 1] = l /\ queue' = InsertAt(queue, k + 1, e)
    BY <1>1, <2>1, <2>2, <2>4
  <2>6. IsGrown(Elems, queue', queue, k, e)
    BY <1>1, <2>4, <2>5, PutIn
  <2> HIDE DEF a, n, m
  <2>7. Between(m, qkind, a[k], l) /\ e # a[k] /\ e # l
    BY <1>1, <1>3, <1>4, <2>1, <2>4, <2>5 DEF m
  <2>8. PutBetween(m, links', qkind, a[k], a[k + 1], e)
    BY <2>1, <2>3, <2>5, <2>7, BeforePutsBetween
  <2> QED
    BY <1>5, <2>1, <2>4, <2>6, <2>8
<1> QED
  BY <1>6, <1>7, <1>8, <1>9

\* QRemove and QRemoveHead take out what queue(3) says.
LEMMA QueueRemoves ==
  ASSUME QInv
  PROVE  (\A e \in Elems : QRemove(e) => QInv') /\ (QRemoveHead => QInv')
<1>1. queue \in Seq(Elems) /\ qkind \in QKinds /\ Len(queue) \in Nat
  BY LenProperties DEF QInv, Holds
<1>2. ASSUME NEW e \in Elems, QRemove(e)
      PROVE  QInv'
  <2> DEFINE k == Place(e)
  <2>1. e \in OnList /\ qkind' = qkind /\ queue' = RemoveAt(queue, k)
    BY <1>2 DEF QRemove
  <2>2. k \in 1..Len(queue) /\ queue[k] = e
    BY <2>1, PlaceOnQueue
  <2>3. links' = TakeOut(links, qkind, e)
    BY <1>1, <1>2 DEF QRemove, TakeOut, QKinds
  <2> HIDE DEF k
  <2>4. queue' \in Seq(Elems) /\ Without(queue, k, queue')
    BY <1>1, <2>1, <2>2, RemoveAtIs
  <2>5. Holds(links', qkind, queue')
    BY <2>2, <2>3, <2>4, QueueTakenOut
  <2> QED
    BY <1>1, <2>1, <2>5 DEF QInv
<1>3. ASSUME QRemoveHead
      PROVE  QInv'
  <2> DEFINE a == ChainOf(qkind, queue)
             n == Len(queue)
  <2>1. queue # << >> /\ qkind \in {"SLIST", "STAILQ"} /\ qkind' = qkind /\ queue' = Tail(queue)
    BY <1>3 DEF QRemoveHead
  <2>2. 1 \in 1..n /\ 0 \in 0..n /\ 0 + 1 = 1
    BY <1>1, <2>1, EmptySeq
  <2>3. queue' \in Seq(Elems) /\ Without(queue, 1, queue')
    <3>1. /\ Tail(queue) \in Seq(Elems) /\ Len(Tail(queue)) = Len(queue) - 1
          /\ \A i \in 1..Len(Tail(queue)) : Tail(queue)[i] = queue[i + 1]
      BY <1>1, <2>1, HeadTailProperties
    <3> DEFINE u == Tail(queue)
    <3> HIDE DEF u
    <3>2. Len(queue) = Len(u) + 1 /\ \A i \in 1..Len(u) : ~(i < 1)
      BY <1>1, <3>1 DEF u
    <3>3. Without(queue, 1, u)
      BY <2>2, <3>1, <3>2 DEF Without, u
    <3> QED
      BY <2>1, <3>1, <3>3 DEF u
  <2>4. links.next[QHead] = queue[1]
    <3>1. a[0] = QHead /\ a[1] = queue[1] /\ Between(links, qkind, a[0], a[0 + 1])
      BY <2>2, QueueChain
    <3> QED
      BY <2>2, <3>1 DEF Between
  <2>5. links' = TakeOut(links, qkind, queue[1])
    BY <1>3, <2>1, <2>4 DEF QRemoveHead, TakeOut, SLIST_REMOVE, STAILQ_REMOVE
  <2>6. Holds(links', qkind, queue')
    BY <2>2, <2>3, <2>5, QueueTakenOut
  <2> QED
    BY <1>1, <2>1, <2>6 DEF QInv
<1> QED
  BY <1>2, <1>3

\* QRemoveUntil leaves what is behind the element.
LEMMA QueueRemovesUntil ==
  ASSUME QInv, NEW e \in Elems, QRemoveUntil(e)
  PROVE  QInv'
<1> DEFINE a == ChainOf(qkind, queue)
           n == Len(queue)
           k == Place(e)
           w == STAILQ_REMOVE_HEAD_UNTIL(links, e)
           v == [links EXCEPT !.next[QHead] = links.next[e]]
           u == SubSeq(queue, k + 1, n)
           q == a[k + 1]
<1>1. /\ n \in Nat /\ queue \in Seq(Elems) /\ a[0] = QHead /\ a[n + 1] = EndOf(qkind)
      /\ \A i \in 1..n : a[i] = queue[i] /\ queue[i] \in Elems
      /\ \A i \in 0..n : Between(links, qkind, a[i], a[i + 1]) /\ a[i] \in Cells
      /\ \A i, j \in 0..n : i # j => a[i] # a[j]
  BY QueueChain
<1>2. e \in OnList /\ qkind = "STAILQ" /\ qkind' = qkind /\ links' = w /\ queue' = u
  BY DEF QRemoveUntil
<1>3. k \in 1..n /\ a[k] = e
  BY <1>1, <1>2, PlaceOnQueue
<1>4. Chained(links, "STAILQ", a, n) /\ links \in Memories
  BY <1>2 DEF QInv, Holds, Chained
<1>5. w = IfLast(v, QHead)
  BY DEF STAILQ_REMOVE_HEAD_UNTIL
<1> HIDE DEF k, w, u, n
<1>6. /\ links.next[e] = q /\ q \in QAddrs /\ (q = QNull <=> k = n) /\ k \in 0..n /\ k \in Nat
  <2>1. k \in 0..n /\ k \in Nat /\ (k # n => k + 1 \in 1..n)
    BY <1>1, <1>3
  <2> HIDE DEF a
  <2>2. links.next[e] = q
    BY <1>1, <1>3, <2>1 DEF Between
  <2>3. k # n => q \in Elems
    BY <1>1, <2>1
  <2>4. k = n => q = QNull
    BY <1>1, <1>2 DEF EndOf
  <2> QED
    BY <2>1, <2>2, <2>3, <2>4, QNames
<1> HIDE DEF a
<1>7. /\ v \in Memories /\ v.prev = links.prev /\ v.next[QHead] = q
      /\ \A c \in Cells : c # QHead => v.next[c] = links.next[c]
  <2> DEFINE x == links.next[e]
  <2>1. v = [links EXCEPT !.next[QHead] = x]
    OBVIOUS
  <2>2. x = q
    BY <1>6
  <2> HIDE DEF v, x, q
  <2>3. v = [links EXCEPT !.next[QHead] = q]
    BY <2>1, <2>2
  <2> QED
    <3>1. WritesNext(links, QHead, q, v)
      BY <1>4, <1>6, <2>3, QNames DEF WritesNext
    <3> HIDE DEF v
    <3> QED
      BY <3>1, NextSet
<1> HIDE DEF v, q
<1>8. /\ w \in Memories /\ w.next = v.next
      /\ w.prev[QHead] = IF k = n THEN QHead ELSE links.prev[QHead]
  <2>1. CASE k = n
    <3>1. w = [v EXCEPT !.prev[QHead] = QHead]
      BY <1>5, <1>6, <1>7, <2>1 DEF IfLast
    <3>2. QHead \in Cells /\ QHead \in QAddrs
      BY QNames
    <3> QED
      <4>1. WritesPrev(v, QHead, QHead, w)
        BY <1>7, <2>1, <3>1, <3>2 DEF WritesPrev
      <4>2. w \in Memories /\ w.next = v.next /\ w.prev[QHead] = QHead
        BY <4>1, PrevSet
      <4> QED
        BY <1>7, <2>1, <3>1, <3>2, <4>2
  <2>2. CASE k # n
    BY <1>5, <1>6, <1>7, <2>2 DEF IfLast
  <2> QED
    BY <2>1, <2>2
<1> DEFINE b == Rest(a, n, k)
           l == n - k
<1>9. Chained(w, "STAILQ", b, l)
  <2>1. \A i \in k + 1..n : i \in 1..n /\ i \in 0..n
    BY <1>1, <1>6
  <2>2. \A i \in k + 1..n : a[i] \in Cells /\ a[i] # QHead
    BY <1>1, <2>1, QNames
  <2>3. \A i \in k + 1..n : w.next[a[i]] = links.next[a[i]]
    BY <1>7, <1>8, <2>2
  <2>4. w.next[QHead] = a[k + 1]
    BY <1>7, <1>8 DEF q
  <2> QED
    BY <1>3, <1>4, <1>8, <2>3, <2>4, ChainBeheaded
<1>10. u \in Seq(Elems) /\ Len(u) = l /\ \A i \in 1..l : u[i] = queue[i + k]
  <2>1. n = Len(queue) /\ k + 1 \in Int /\ n \in Int /\ k \in Int /\ k + 1 \in 1..n + 1
    BY <1>1, <1>3, <1>6 DEF n
  <2>2. \A i \in k + 1..n : queue[i] \in Elems
    <3>1. \A i \in k + 1..n : i \in 1..n
      BY <1>1, <1>6
    <3> QED
      BY <1>1, <3>1
  <2>3. /\ u \in Seq(Elems) /\ Len(u) = IF k + 1 <= n THEN n - (k + 1) + 1 ELSE 0
        /\ \A i \in 1..n - (k + 1) + 1 : u[i] = queue[k + 1 + i - 1]
    BY <2>1, <2>2, SubSeqProperties DEF u
  <2>4. n - (k + 1) + 1 = l /\ (~(k + 1 <= n) => l = 0) /\ \A i \in 1..l : k + 1 + i - 1 = i + k
    BY <1>1, <1>3, <1>6
  <2> HIDE DEF l
  <2> QED
    BY <2>3, <2>4
<1>11. b = ChainOf("STAILQ", u)
  <2>1. l \in Nat /\ l + k + 1 = n + 1
    BY <1>1, <1>3, <1>6
  <2>2. b = [i \in 0..l + 1 |-> IF i = 0 THEN QHead ELSE a[i + k]]
    BY DEF Rest
  <2>3. ChainOf("STAILQ", u) = [i \in 0..l + 1 |-> IF i = 0 THEN QHead ELSE IF i <= l THEN u[i] ELSE EndOf("STAILQ")]
    BY <1>10 DEF ChainOf
  <2>4. l + k = n
    BY <1>1, <1>6
  <2> HIDE DEF l, b
  <2>5. ASSUME NEW i \in 0..l + 1, i # 0
        PROVE  a[i + k] = IF i <= l THEN u[i] ELSE EndOf("STAILQ")
    <3>1. CASE i <= l
      <4>1. i \in 1..l /\ i + k \in 1..n
        BY <1>1, <1>3, <1>6, <2>1, <2>4, <2>5, <3>1
      <4> QED
        BY <1>1, <1>10, <3>1, <4>1
    <3>2. CASE ~(i <= l)
      <4>1. i + k = n + 1
        BY <1>6, <2>1, <2>5, <3>2
      <4> QED
        BY <1>1, <1>2, <3>2, <4>1
    <3> QED
      BY <3>1, <3>2
  <2> QED
    BY <2>2, <2>3, <2>5
<1>12. Holds(links', qkind', queue')
  BY <1>2, <1>9, <1>10, <1>11 DEF Holds
<1> QED
  BY <1>2, <1>12 DEF QInv, QKinds

\* The queue starts as the empty chain of its kind.
LEMMA QueueStarts == QueueInit => QInv
<1> SUFFICES ASSUME QueueInit
             PROVE  QInv
  OBVIOUS
<1> DEFINE a == ChainOf(qkind, queue)
           G == [c \in Cells |-> Garbage]
<1>1. /\ qkind \in QKinds /\ queue \in Seq(Elems) /\ Len(queue) = 0
      /\ links = CASE qkind = "SLIST"  -> SLIST_INIT
                   [] qkind = "STAILQ" -> STAILQ_INIT
                   [] qkind = "LIST"   -> LIST_INIT
                   [] qkind = "TAILQ"  -> TAILQ_INIT
                   [] OTHER            -> CIRCLEQ_INIT
  BY EmptySeq DEF QueueInit
<1>2. G \in [Cells -> QAddrs] /\ Garbage \in QAddrs
  BY DEF QAddrs
<1>3. ASSUME NEW v \in QAddrs
      PROVE  [G EXCEPT ![QHead] = v] \in [Cells -> QAddrs] /\ [G EXCEPT ![QHead] = v][QHead] = v
  <2> DEFINE H == [G EXCEPT ![QHead] = v]
  <2>1. Writes(G, QHead, v, H)
    BY <1>2, QNames DEF Writes
  <2> HIDE DEF H
  <2>2. H \in [Cells -> QAddrs] /\ H[QHead] = v
    BY <2>1, FieldSet
  <2> QED
    BY <2>2 DEF H
<1>4. /\ links \in Memories /\ links.next[QHead] = EndOf(qkind)
      /\ qkind \in Tailed => links.prev[QHead] = QHead
  <2>1. QHead \in QAddrs /\ QNull \in QAddrs
    BY QNames
  <2>2. CASE qkind \in {"SLIST", "LIST"}
    <3>1. links = [next |-> [G EXCEPT ![QHead] = QNull], prev |-> G]
      BY <1>1, <2>2 DEF SLIST_INIT, LIST_INIT, Blank
    <3> QED
      BY <1>2, <1>3, <2>1, <2>2, <3>1 DEF Memories, EndOf, Tailed
  <2>3. CASE qkind \in {"STAILQ", "TAILQ"}
    <3>1. links = [next |-> [G EXCEPT ![QHead] = QNull], prev |-> [G EXCEPT ![QHead] = QHead]]
      BY <1>1, <2>3 DEF STAILQ_INIT, TAILQ_INIT, Blank
    <3> QED
      BY <1>3, <2>1, <2>3, <3>1 DEF Memories, EndOf
  <2>4. CASE qkind \in {"CIRCLEQ", "QUE"}
    <3>1. links = [next |-> [G EXCEPT ![QHead] = QHead], prev |-> [G EXCEPT ![QHead] = QHead]]
      BY <1>1, <2>4 DEF CIRCLEQ_INIT, Blank
    <3> QED
      BY <1>3, <2>1, <2>4, <3>1 DEF Memories, EndOf
  <2> QED
    BY <1>1, <2>2, <2>3, <2>4 DEF QKinds
<1>5. a = [i \in 0..0 + 1 |-> IF i = 0 THEN QHead ELSE IF i <= 0 THEN queue[i] ELSE EndOf(qkind)]
  BY <1>1 DEF ChainOf
<1> HIDE DEF a, G
<1>6. a \in [0..0 + 1 -> Cells \cup {QNull}] /\ a[0] = QHead /\ a[0 + 1] = EndOf(qkind)
  <2>1. \A i \in 0..0 + 1 : i = 0 \/ ~(i <= 0)
    OBVIOUS
  <2>2. EndOf(qkind) \in Cells \cup {QNull} /\ QHead \in Cells
    BY QNames
  <2> QED
    BY <1>5, <2>1, <2>2
<1>7. IsChain(qkind, a, 0)
  BY <1>6 DEF IsChain
<1>8. Fields(links, qkind, a, 0)
  BY <1>4, <1>6 DEF Fields
<1> QED
  BY <1>1, <1>4, <1>7, <1>8 DEF QInv, Holds, Chained, a

\* Whatever was called, the memory is the chain of what should be on the queue.
LEMMA QInvHolds == QueueSpec => []QInv
<1>1. QInv /\ [QueueNext]_queueVars => QInv'
  <2> SUFFICES ASSUME QInv, [QueueNext]_queueVars
               PROVE  QInv'
    OBVIOUS
  <2>1. CASE UNCHANGED queueVars
    BY <2>1 DEF queueVars, QInv
  <2>2. ASSUME NEW e \in Elems, QInsertHead(e) \/ QInsertTail(e) \/ QRemove(e) \/ QRemoveUntil(e)
        PROVE  QInv'
    BY <2>2, QueueInserts, QueueRemoves, QueueRemovesUntil
  <2>3. ASSUME NEW e \in Elems, NEW l \in Elems, QInsertAfter(l, e) \/ QInsertBefore(l, e)
        PROVE  QInv'
    BY <2>3, QueueInserts
  <2>4. CASE QRemoveHead
    BY <2>4, QueueRemoves
  <2> QED
    BY <2>1, <2>2, <2>3, <2>4 DEF QueueNext
<1> QED
  BY <1>1, QueueStarts, PTL DEF QueueSpec

\* After any calls a traversal of any of the six lists, forward or backward,
\* meets exactly the elements on it, in order, and the tail pointer of a STAILQ
\* finds the last.
THEOREM TraversalsMeetTheQueue == QueueSpec => []TraversalsMeetQueue
<1>1. QInv => TraversalsMeetQueue
  BY AllTraversalsMeet DEF QInv
<1> QED
  BY <1>1, QInvHolds, PTL
=============================================================================
