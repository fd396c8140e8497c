------------------------ MODULE WinDirMonitorProofs ------------------------
(***************************************************************************)
(* What holds of the directory monitor for Windows, for any directories,   *)
(* completion keys and changes: every key is deleted once, and never while *)
(* the kernel or the work thread may still use it, and the changes of a    *)
(* directory reach the program in order.                                   *)
(*                                                                         *)
(* A change passes the buffer the kernel keeps for its handle, the         *)
(* completion port, the work thread and the events of the object, in this  *)
(* order.  The invariant WinInv says that of two changes of a handle the   *)
(* one further on is the older, and of every key which of the kernel, the  *)
(* port and the work thread has it.                                        *)
(***************************************************************************)
EXTENDS WinDirMonitor, NatRecursion, FiniteSetTheorems, SequenceTheorems

Changes == WHandles \X Nat
DirMaps == UNION {[D -> WHandles] : D \in SUBSET WinDirs}
KeyStates == {"none", "reading", "queued", "work", "deleted"}
Holders == {"user", "async", "work"}
Impls == [refs : SUBSET Holders, run : BOOLEAN, events : Seq(Changes), dirs : DirMaps]
Completions == [key : WHandles \cup {WNull}, changes : Seq(Changes)]
Works == [pc : {"loop", "push", "rearm", "release", "thrown", "ended"},
          key : WHandles \cup {WNull}, changes : Seq(Changes)]
Asyncs == [asked : Nat, queue : Nat, pc : {"idle", "pop", "post"}, ev : Changes \cup {<<>>}]
WinLogs == [changes : Nat, pushed : Seq(Changes), got : Seq(Changes), overflowed : SUBSET WHandles]
WinTyped ==
  /\ wimpl \in Impls
  /\ wkeys \in [WHandles -> KeyStates] /\ wopen \subseteq WHandles
  /\ wbuf \in [WHandles -> Seq(Changes)] /\ wport \in Seq(Completions)
  /\ wwork \in Works /\ wasync \in Asyncs /\ wlog \in WinLogs

DirHandles == {wimpl.dirs[d] : d \in DOMAIN wimpl.dirs}

\* The keys whose completion waits in the port are those that say so, once each.
InPort(keys, port) ==
  /\ \A n \in DOMAIN port : port[n].key # WNull => keys[port[n].key] = "queued"
  /\ \A m, n \in DOMAIN port : port[m].key = port[n].key /\ port[m].key # WNull => m = n
  /\ \A h \in WHandles : keys[h] = "queued" => \E n \in DOMAIN port : port[n].key = h
\* The work thread has the key that says so.
InWork == \A h \in WHandles : wkeys[h] = "work" <=> wwork.key = h
WorkRight ==
  /\ wwork.key # WNull <=> wwork.pc \in {"push", "rearm"}
  /\ wwork.pc = "push" <=> wwork.changes # <<>>

\* A directory has a handle of its own, open as long as the object lives.
DirsRight ==
  /\ \A d, e \in DOMAIN wimpl.dirs : wimpl.dirs[d] = wimpl.dirs[e] => d = e
  /\ \A h \in WHandles : wkeys[h] = "none" => h \notin wopen /\ h \notin DirHandles
  /\ \A h \in WHandles : wkeys[h] = "reading" => h \in wopen
  /\ IF Free(wimpl) THEN wopen \cap DirHandles = {} ELSE DirHandles \subseteq wopen
\* What ends the watch of a directory is an overflow.
EndsByOverflow ==
  /\ \A h \in WHandles : wkeys[h] = "deleted" /\ h \in DirHandles /\ ~Free(wimpl) /\ wwork.pc # "thrown"
       => h \in wlog.overflowed
  /\ \A n \in DOMAIN wport : wport[n].changes = <<>> /\ wport[n].key \in DirHandles /\ ~Free(wimpl)
       => wport[n].key \in wlog.overflowed
RefsRight ==
  /\ "user" \in wimpl.refs \/ ~wimpl.run
  /\ wasync.pc = "pop" => "async" \in wimpl.refs
  /\ wasync.pc # "post" => wasync.ev = <<>>

\* Changes keep their order: those pushed, those the work thread has, those in
\* the port, those the kernel has.
Rising(s) == \A i, j \in DOMAIN s : i < j /\ s[i][1] = s[j][1] => s[i][2] < s[j][2]
Before(s, t) == \A i \in DOMAIN s, j \in DOMAIN t : s[i][1] = t[j][1] => s[i][2] < t[j][2]
UpTo(s, n) == \A i \in DOMAIN s : s[i][2] <= n
OfHandle(s, h) == \A i \in DOMAIN s : s[i][1] = h
Batch(s, h, pushed, n) == OfHandle(s, h) /\ Rising(s) /\ Before(pushed, s) /\ UpTo(s, n)
Buffered == \A h \in WHandles : Batch(wbuf[h], h, wlog.pushed, wlog.changes)
AllBefore(s) == \A h \in WHandles : Before(s, wbuf[h])
Flowing ==
  /\ Rising(wlog.pushed) /\ UpTo(wlog.pushed, wlog.changes)
  /\ Buffered
  /\ Batch(wwork.changes, wwork.key, wlog.pushed, wlog.changes) /\ AllBefore(wwork.changes)
  /\ \A n \in DOMAIN wport : Batch(wport[n].changes, wport[n].key, wlog.pushed, wlog.changes) /\ AllBefore(wport[n].changes)

\* What was delivered, then what is held, are the changes pushed before those
\* that still wait.
Held(e) == IF e = <<>> THEN <<>> ELSE <<e>>
Delivered(events, pushed, got, held) ==
  \E k \in Nat :
    /\ Len(pushed) = k + Len(events) /\ Len(got) + Len(held) = k
    /\ \A i \in 1..Len(events) : events[i] = pushed[k + i]
    /\ ToSet(got) \cup ToSet(held) = {pushed[i] : i \in 1..k}

WinInv ==
  /\ WinTyped /\ InPort(wkeys, wport) /\ InWork /\ WorkRight /\ DirsRight
  /\ EndsByOverflow /\ RefsRight /\ Flowing
  /\ Delivered(wimpl.events, wlog.pushed, wlog.got, Held(wasync.ev))

-----------------------------------------------------------------------------
(* Delivery.                                                               *)

\* An element more at the end is an element more in the set.
LEMMA SetOfAppend ==
  ASSUME NEW S, NEW s \in Seq(S), NEW e \in S
  PROVE  ToSet(Append(s, e)) = ToSet(s) \cup {e}
<1> DEFINE t == Append(s, e)
<1>1. /\ t \in Seq(S) /\ Len(t) = Len(s) + 1 /\ Len(s) \in Nat
      /\ \A i \in 1..Len(s) : t[i] = s[i]
      /\ t[Len(s) + 1] = e
  BY AppendProperties
<1>2. DOMAIN s = 1..Len(s) /\ DOMAIN t = 1..Len(s) + 1
  BY <1>1, LenProperties
<1> HIDE DEF t
<1>3. ASSUME NEW i \in 1..Len(s) + 1
      PROVE  t[i] \in ToSet(s) \cup {e}
  <2>1. CASE i = Len(s) + 1
    BY <1>1, <2>1
  <2>2. CASE i # Len(s) + 1
    <3>1. i \in 1..Len(s)
      BY <1>1, <2>2
    <3> QED
      BY <1>1, <1>2, <3>1 DEF ToSet
  <2> QED
    BY <2>1, <2>2
<1>4. ASSUME NEW i \in 1..Len(s)
      PROVE  s[i] \in ToSet(t)
  <2>1. i \in 1..Len(s) + 1 /\ t[i] = s[i]
    BY <1>1
  <2> QED
    BY <1>2, <2>1 DEF ToSet
<1>5. e \in ToSet(t)
  <2>1. Len(s) + 1 \in 1..Len(s) + 1
    BY <1>1
  <2> QED
    BY <1>1, <1>2, <2>1 DEF ToSet
<1>6. ToSet(t) \subseteq ToSet(s) \cup {e}
  BY <1>2, <1>3 DEF ToSet
<1>7. ToSet(s) \subseteq ToSet(t)
  BY <1>2, <1>4 DEF ToSet
<1> QED
  BY <1>5, <1>6, <1>7 DEF t

\* No element, and one.
LEMMA SetOfHeld ==
  /\ Held(<<>>) = <<>> /\ Len(<<>>) = 0 /\ ToSet(<<>>) = {}
  /\ \A e \in Changes : Held(e) = <<e>> /\ Len(<<e>>) = 1 /\ ToSet(<<e>>) = {e}
<1>1. ASSUME NEW e \in Changes
      PROVE  Held(e) = <<e>> /\ Len(<<e>>) = 1 /\ ToSet(<<e>>) = {e}
  <2>1. e # <<>>
    <3>1. DOMAIN e = 1..2 /\ DOMAIN <<>> = {}
      BY DEF Changes
    <3> QED
      BY <3>1
  <2>2. DOMAIN <<e>> = 1..1 /\ <<e>>[1] = e
    OBVIOUS
  <2>3. ToSet(<<e>>) = {e}
    BY <2>2 DEF ToSet
  <2> QED
    BY <2>1, <2>3 DEF Held
<1>2. Held(<<>>) = <<>> /\ Len(<<>>) = 0 /\ ToSet(<<>>) = {}
  BY DEF Held, ToSet
<1> QED
  BY <1>1, <1>2

\* The first waiting change is the next one pushed.
LEMMA Popping ==
  ASSUME NEW events \in Seq(Changes), NEW pushed \in Seq(Changes), events # <<>>,
         NEW k \in Nat, Len(pushed) = k + Len(events),
         \A i \in 1..Len(events) : events[i] = pushed[k + i]
  PROVE  /\ Len(pushed) = k + 1 + Len(Tail(events)) /\ Head(events) = pushed[k + 1]
         /\ \A i \in 1..Len(Tail(events)) : Tail(events)[i] = pushed[k + 1 + i]
         /\ {pushed[i] : i \in 1..k + 1} = {pushed[i] : i \in 1..k} \cup {Head(events)}
<1>1. /\ Tail(events) \in Seq(Changes) /\ Len(Tail(events)) = Len(events) - 1
      /\ \A i \in 1..Len(Tail(events)) : Tail(events)[i] = events[i + 1]
      /\ Len(events) \in Nat /\ Len(events) # 0
  BY HeadTailProperties, LenProperties, EmptySeq
<1>2. Head(events) = pushed[k + 1]
  <2>1. 1 \in 1..Len(events) /\ Head(events) = events[1]
    BY <1>1
  <2> QED
    BY <2>1
<1>3. ASSUME NEW i \in 1..Len(Tail(events))
      PROVE  Tail(events)[i] = pushed[k + 1 + i]
  <2>1. i + 1 \in 1..Len(events) /\ k + (i + 1) = k + 1 + i
    BY <1>1
  <2>2. Tail(events)[i] = events[i + 1] /\ events[i + 1] = pushed[k + (i + 1)]
    BY <1>1, <2>1
  <2> QED
    BY <2>1, <2>2
<1>4. \A i : i \in 1..k + 1 <=> i \in 1..k \/ i = k + 1
  OBVIOUS
<1>5. {pushed[i] : i \in 1..k + 1} = {pushed[i] : i \in 1..k} \cup {pushed[k + 1]}
  BY <1>4
<1>6. Len(pushed) = k + 1 + Len(Tail(events))
  BY <1>1
<1> QED
  BY <1>2, <1>3, <1>5, <1>6

\* A synchronous call delivers the first waiting change.
LEMMA PopToGot ==
  ASSUME NEW events \in Seq(Changes), NEW pushed \in Seq(Changes), NEW got \in Seq(Changes),
         NEW held \in Seq(Changes), events # <<>>, Delivered(events, pushed, got, held)
  PROVE  Delivered(Tail(events), pushed, Append(got, Head(events)), held)
<1>1. PICK k \in Nat :
        /\ Len(pushed) = k + Len(events) /\ Len(got) + Len(held) = k
        /\ \A i \in 1..Len(events) : events[i] = pushed[k + i]
        /\ ToSet(got) \cup ToSet(held) = {pushed[i] : i \in 1..k}
  BY DEF Delivered
<1> DEFINE t == Tail(events)
           h == Head(events)
           g == Append(got, h)
<1>2. h \in Changes
  BY HeadTailProperties
<1>3. /\ Len(pushed) = k + 1 + Len(t) /\ h = pushed[k + 1]
      /\ \A i \in 1..Len(t) : t[i] = pushed[k + 1 + i]
      /\ {pushed[i] : i \in 1..k + 1} = {pushed[i] : i \in 1..k} \cup {h}
  BY <1>1, Popping
<1> HIDE DEF h, t
<1>4. ToSet(g) = ToSet(got) \cup {h}
  BY <1>2, SetOfAppend
<1>5. Len(g) + Len(held) = k + 1 /\ k + 1 \in Nat
  <2>1. Len(g) = Len(got) + 1 /\ Len(got) \in Nat /\ Len(held) \in Nat
    BY <1>2, AppendProperties, LenProperties
  <2> DEFINE a == Len(got)
             b == Len(held)
             c == Len(g)
  <2>2. c = a + 1 /\ a \in Nat /\ b \in Nat /\ a + b = k
    BY <1>1, <2>1
  <2> HIDE DEF a, b, c
  <2>3. c + b = k + 1
    BY <2>2
  <2> QED
    BY <2>3 DEF a, b, c
<1> HIDE DEF g
<1>6. ToSet(g) \cup ToSet(held) = {pushed[i] : i \in 1..k + 1}
  BY <1>1, <1>3, <1>4
<1>7. Delivered(t, pushed, g, held)
  BY <1>3, <1>5, <1>6 DEF Delivered
<1> QED
  BY <1>7 DEF g, t, h

\* An operation takes the first waiting change.
LEMMA PopToHeld ==
  ASSUME NEW events \in Seq(Changes), NEW pushed \in Seq(Changes), NEW got \in Seq(Changes),
         events # <<>>, Delivered(events, pushed, got, <<>>)
  PROVE  Delivered(Tail(events), pushed, got, <<Head(events)>>)
<1>1. PICK k \in Nat :
        /\ Len(pushed) = k + Len(events) /\ Len(got) + Len(<<>>) = k
        /\ \A i \in 1..Len(events) : events[i] = pushed[k + i]
        /\ ToSet(got) \cup ToSet(<<>>) = {pushed[i] : i \in 1..k}
  BY DEF Delivered
<1> DEFINE t == Tail(events)
           h == Head(events)
           x == <<h>>
<1>2. h \in Changes
  BY HeadTailProperties
<1>3. /\ Len(pushed) = k + 1 + Len(t) /\ h = pushed[k + 1]
      /\ \A i \in 1..Len(t) : t[i] = pushed[k + 1 + i]
      /\ {pushed[i] : i \in 1..k + 1} = {pushed[i] : i \in 1..k} \cup {h}
  BY <1>1, Popping
<1> HIDE DEF h, t
<1>4. Len(x) = 1 /\ ToSet(x) = {h} /\ Len(<<>>) = 0 /\ ToSet(<<>>) = {}
  BY <1>2, SetOfHeld
<1>5. Len(got) \in Nat
  BY LenProperties
<1> HIDE DEF x
<1>6. Len(got) + Len(x) = k + 1 /\ k + 1 \in Nat
  BY <1>1, <1>4, <1>5
<1>7. ToSet(got) \cup ToSet(x) = {pushed[i] : i \in 1..k + 1}
  BY <1>1, <1>3, <1>4
<1>8. Delivered(t, pushed, got, x)
  BY <1>3, <1>6, <1>7 DEF Delivered
<1> QED
  BY <1>8 DEF x, t, h

\* The handler of an operation gets the change the operation holds.
LEMMA HeldToGot ==
  ASSUME NEW events, NEW pushed, NEW got \in Seq(Changes),
         NEW e \in Changes, Delivered(events, pushed, got, <<e>>)
  PROVE  Delivered(events, pushed, Append(got, e), <<>>)
<1>1. PICK k \in Nat :
        /\ Len(pushed) = k + Len(events) /\ Len(got) + Len(<<e>>) = k
        /\ \A i \in 1..Len(events) : events[i] = pushed[k + i]
        /\ ToSet(got) \cup ToSet(<<e>>) = {pushed[i] : i \in 1..k}
  BY DEF Delivered
<1> DEFINE g == Append(got, e)
<1>2. ToSet(g) = ToSet(got) \cup {e}
  BY SetOfAppend
<1>3. Len(g) = Len(got) + 1 /\ Len(got) \in Nat
  BY AppendProperties, LenProperties
<1>4. Len(<<e>>) = 1 /\ ToSet(<<e>>) = {e} /\ Len(<<>>) = 0 /\ ToSet(<<>>) = {}
  BY SetOfHeld
<1> HIDE DEF g
<1>5. Len(g) + Len(<<>>) = k
  BY <1>1, <1>3, <1>4
<1>6. ToSet(g) \cup ToSet(<<>>) = {pushed[i] : i \in 1..k}
  BY <1>1, <1>2, <1>4
<1>7. Delivered(events, pushed, g, <<>>)
  BY <1>1, <1>5, <1>6 DEF Delivered
<1> QED
  BY <1>7 DEF g

\* A change pushed waits behind the others.
LEMMA PushWaits ==
  ASSUME NEW events \in Seq(Changes), NEW pushed \in Seq(Changes), NEW got, NEW held,
         NEW e \in Changes, Delivered(events, pushed, got, held)
  PROVE  Delivered(Append(events, e), Append(pushed, e), got, held)
<1>1. PICK k \in Nat :
        /\ Len(pushed) = k + Len(events) /\ Len(got) + Len(held) = k
        /\ \A i \in 1..Len(events) : events[i] = pushed[k + i]
        /\ ToSet(got) \cup ToSet(held) = {pushed[i] : i \in 1..k}
  BY DEF Delivered
<1> DEFINE v == Append(events, e)
           p == Append(pushed, e)
<1>2. /\ Len(v) = Len(events) + 1 /\ Len(events) \in Nat
      /\ \A i \in 1..Len(events) : v[i] = events[i]
      /\ v[Len(events) + 1] = e
  BY AppendProperties, LenProperties
<1>3. /\ Len(p) = Len(pushed) + 1 /\ Len(pushed) \in Nat
      /\ \A i \in 1..Len(pushed) : p[i] = pushed[i]
      /\ p[Len(pushed) + 1] = e
  BY AppendProperties, LenProperties
<1> HIDE DEF v, p
<1>4. Len(p) = k + Len(v)
  BY <1>1, <1>2, <1>3
<1>5. ASSUME NEW i \in 1..Len(v)
      PROVE  v[i] = p[k + i]
  <2>1. CASE i = Len(events) + 1
    <3>1. k + i = Len(pushed) + 1
      BY <1>1, <1>2, <2>1
    <3> QED
      BY <1>2, <1>3, <2>1, <3>1
  <2>2. CASE i # Len(events) + 1
    <3>1. i \in 1..Len(events) /\ k + i \in 1..Len(pushed)
      BY <1>1, <1>2, <2>2
    <3> QED
      BY <1>1, <1>2, <1>3, <3>1
  <2> QED
    BY <2>1, <2>2
<1>6. {p[i] : i \in 1..k} = {pushed[i] : i \in 1..k}
  <2>1. \A i \in 1..k : p[i] = pushed[i]
    <3>1. \A i \in 1..k : i \in 1..Len(pushed)
      BY <1>1, <1>2
    <3> QED
      BY <1>3, <3>1
  <2> QED
    BY <2>1
<1>7. Delivered(v, p, got, held)
  BY <1>1, <1>4, <1>5, <1>6 DEF Delivered
<1> QED
  BY <1>7 DEF v, p

-----------------------------------------------------------------------------
(* The order of changes.                                                   *)

After(e, s) == \A i \in DOMAIN s : s[i][1] = e[1] => s[i][2] < e[2]
Ahead(e, s) == \A i \in DOMAIN s : s[i][1] = e[1] => e[2] < s[i][2]

\* A change more at the end.
LEMMA AppendOrder ==
  ASSUME NEW s \in Seq(Changes), NEW e \in Changes
  PROVE  LET t == Append(s, e)
         IN  /\ Rising(s) /\ After(e, s) => Rising(t)
             /\ \A u : Before(s, u) /\ Ahead(e, u) => Before(t, u)
             /\ \A u : Before(u, s) /\ After(e, u) => Before(u, t)
             /\ \A n : UpTo(s, n) /\ e[2] <= n => UpTo(t, n)
             /\ \A h : OfHandle(s, h) /\ e[1] = h => OfHandle(t, h)
<1> DEFINE t == Append(s, e)
           m == Len(s) + 1
<1>1. /\ DOMAIN t = 1..m /\ DOMAIN s = 1..Len(s) /\ Len(s) \in Nat
      /\ \A i \in 1..Len(s) : t[i] = s[i]
      /\ t[m] = e
  BY AppendProperties, LenProperties
<1>2. ASSUME NEW i \in DOMAIN t
      PROVE  (i \in DOMAIN s /\ t[i] = s[i] /\ i < m) \/ (i = m /\ t[i] = e)
  <2> HIDE DEF t
  <2>1. CASE i = m
    BY <1>1, <2>1
  <2>2. CASE i # m
    <3>1. i \in 1..Len(s) /\ i < m
      BY <1>1, <2>2
    <3> HIDE DEF m
    <3>2. t[i] = s[i] /\ i \in DOMAIN s
      BY <1>1, <3>1, Zenon
    <3> QED
      BY <3>1, <3>2
  <2> QED
    BY <2>1, <2>2
<1> HIDE DEF t
<1>3. Rising(s) /\ After(e, s) => Rising(t)
  <2> SUFFICES ASSUME Rising(s), After(e, s), NEW i \in DOMAIN t, NEW j \in DOMAIN t, i < j, t[i][1] = t[j][1]
               PROVE  t[i][2] < t[j][2]
    BY DEF Rising
  <2>1. i \in DOMAIN s /\ t[i] = s[i]
    <3>1. i \in 1..m /\ j \in 1..m /\ m \in Nat
      BY <1>1
    <3>2. i # m
      BY <3>1
    <3> QED
      BY <1>2, <3>2
  <2>2. CASE j = m /\ t[j] = e
    BY <2>1, <2>2 DEF After
  <2>3. CASE j \in DOMAIN s /\ t[j] = s[j]
    BY <2>1, <2>3 DEF Rising
  <2> QED
    BY <1>2, <2>2, <2>3
<1>4. \A u : Before(s, u) /\ Ahead(e, u) => Before(t, u)
  BY <1>2 DEF Before, Ahead
<1>5. \A u : Before(u, s) /\ After(e, u) => Before(u, t)
  BY <1>2 DEF Before, After
<1>6. \A n : UpTo(s, n) /\ e[2] <= n => UpTo(t, n)
  BY <1>2 DEF UpTo
<1>7. \A h : OfHandle(s, h) /\ e[1] = h => OfHandle(t, h)
  BY <1>2 DEF OfHandle
<1> QED
  BY <1>3, <1>4, <1>5, <1>6, <1>7 DEF t

\* The first change, and the rest.
LEMMA TailOrder ==
  ASSUME NEW s \in Seq(Changes), s # <<>>
  PROVE  LET t == Tail(s)
             e == Head(s)
         IN  /\ Rising(s) => Rising(t) /\ Ahead(e, t)
             /\ \A u : Before(s, u) => Before(t, u) /\ Ahead(e, u)
             /\ \A u : Before(u, s) => Before(u, t) /\ After(e, u)
             /\ \A n : UpTo(s, n) => UpTo(t, n) /\ e[2] <= n
             /\ \A h : OfHandle(s, h) => OfHandle(t, h) /\ e[1] = h
<1> DEFINE t == Tail(s)
           e == Head(s)
<1>1. /\ Len(t) = Len(s) - 1 /\ \A i \in 1..Len(t) : t[i] = s[i + 1]
      /\ Len(s) \in Nat /\ Len(s) # 0 /\ DOMAIN s = 1..Len(s) /\ DOMAIN t = 1..Len(t)
  BY HeadTailProperties, LenProperties, EmptySeq
<1>2. 1 \in DOMAIN s /\ e = s[1]
  BY <1>1
<1>3. ASSUME NEW i \in DOMAIN t
      PROVE  i \in Int /\ 1 < i + 1 /\ i + 1 \in DOMAIN s /\ t[i] = s[i + 1]
  <2> HIDE DEF t
  <2> QED
    BY <1>1
<1> HIDE DEF t, e
<1>4. ASSUME Rising(s)
      PROVE  Rising(t) /\ Ahead(e, t)
  <2>1. ASSUME NEW i \in DOMAIN t, NEW j \in DOMAIN t, i < j, t[i][1] = t[j][1]
        PROVE  t[i][2] < t[j][2]
    <3>1. i + 1 < j + 1
      BY <1>3, <2>1
    <3> QED
      BY <1>3, <1>4, <2>1, <3>1 DEF Rising
  <2>2. ASSUME NEW i \in DOMAIN t, t[i][1] = e[1]
        PROVE  e[2] < t[i][2]
    BY <1>2, <1>3, <1>4, <2>2 DEF Rising
  <2> QED
    BY <2>1, <2>2 DEF Rising, Ahead
<1>5. \A u : Before(s, u) => Before(t, u) /\ Ahead(e, u)
  BY <1>2, <1>3 DEF Before, Ahead
<1>6. \A u : Before(u, s) => Before(u, t) /\ After(e, u)
  BY <1>2, <1>3 DEF Before, After
<1>7. \A n : UpTo(s, n) => UpTo(t, n) /\ e[2] <= n
  BY <1>2, <1>3 DEF UpTo
<1>8. \A h : OfHandle(s, h) => OfHandle(t, h) /\ e[1] = h
  BY <1>2, <1>3 DEF OfHandle
<1> QED
  BY <1>4, <1>5, <1>6, <1>7, <1>8 DEF t, e

\* No change is in every order.
LEMMA NoChanges ==
  ASSUME NEW h, NEW n, NEW pushed
  PROVE  Batch(<<>>, h, pushed, n) /\ AllBefore(<<>>) /\ \A u : Before(u, <<>>)
BY DEF Batch, OfHandle, Rising, Before, UpTo, AllBefore

-----------------------------------------------------------------------------
(* The port.                                                               *)

\* The port with one completion more.
PostedIn(keys, port, c) ==
  LET after == [keys EXCEPT ![c.key] = "queued"]
      q == Append(port, c)
  IN  /\ IF c.key = WNull THEN InPort(keys, q) ELSE after \in [WHandles -> KeyStates] /\ InPort(after, q)
      /\ q \in Seq(Completions)
      /\ \A n \in DOMAIN q : (n \in DOMAIN port /\ q[n] = port[n]) \/ q[n] = c

\* A completion posted.
LEMMA Posted ==
  ASSUME NEW keys \in [WHandles -> KeyStates], NEW port \in Seq(Completions), InPort(keys, port),
         NEW c \in Completions, c.key # WNull => keys[c.key] # "queued"
  PROVE  PostedIn(keys, port, c)
<1> DEFINE k == c.key
           after == IF k = WNull THEN keys ELSE [keys EXCEPT ![k] = "queued"]
           q == Append(port, c)
           m == Len(port) + 1
<1>0. k \in WHandles \cup {WNull} /\ WNull \notin WHandles
  BY HandlesAssumption DEF Completions, WHandles, WNull
<1>1. /\ q \in Seq(Completions) /\ DOMAIN q = 1..m /\ DOMAIN port = 1..Len(port) /\ Len(port) \in Nat
      /\ \A i \in 1..Len(port) : q[i] = port[i]
      /\ q[m] = c
  BY AppendProperties, LenProperties
<1>2. /\ after \in [WHandles -> KeyStates]
      /\ \A h \in WHandles : after[h] = IF h = k THEN "queued" ELSE keys[h]
  BY <1>0 DEF KeyStates
<1> HIDE DEF q, after
<1>3. ASSUME NEW n \in DOMAIN q
      PROVE  (n \in DOMAIN port /\ q[n] = port[n]) \/ (n = m /\ q[n] = c)
  <2>1. CASE n = m
    BY <1>1, <2>1
  <2>2. CASE n # m
    <3>1. n \in 1..Len(port)
      BY <1>1, <2>2
    <3>2. q[n] = port[n] /\ n \in DOMAIN port
      BY <1>1, <3>1, Zenon
    <3> QED
      BY <3>2
  <2> QED
    BY <2>1, <2>2
<1>4. m \in DOMAIN q /\ m \notin DOMAIN port /\ \A n \in DOMAIN port : n \in DOMAIN q /\ q[n] = port[n]
  BY <1>1
<1>5. \A n \in DOMAIN port : port[n] \in Completions /\ port[n].key \in WHandles \cup {WNull}
  <2>1. \A n \in DOMAIN port : port[n] \in Completions
    BY <1>1, ElementOfSeq
  <2> QED
    BY <2>1 DEF Completions
<1>6. \A n \in DOMAIN port : port[n].key # WNull => keys[port[n].key] = "queued" /\ port[n].key # k
  BY <1>0 DEF InPort
<1> HIDE DEF m
<1>7. \A n \in DOMAIN q : q[n].key # WNull => after[q[n].key] = "queued"
  BY <1>0, <1>2, <1>3, <1>5, <1>6 DEF k
<1>8. ASSUME NEW a \in DOMAIN q, NEW b \in DOMAIN q, q[a].key = q[b].key, q[a].key # WNull
      PROVE  a = b
  <2>1. CASE a \in DOMAIN port /\ b \in DOMAIN port /\ q[a] = port[a] /\ q[b] = port[b]
    BY <1>8, <2>1 DEF InPort
  <2>2. CASE a = m /\ q[a] = c /\ b \in DOMAIN port /\ q[b] = port[b]
    BY <1>6, <1>8, <2>2 DEF k
  <2>3. CASE b = m /\ q[b] = c /\ a \in DOMAIN port /\ q[a] = port[a]
    BY <1>6, <1>8, <2>3 DEF k
  <2>4. CASE a = m /\ b = m
    BY <2>4
  <2> QED
    BY <1>3, <2>1, <2>2, <2>3, <2>4
<1>9. ASSUME NEW h \in WHandles, after[h] = "queued"
      PROVE  \E n \in DOMAIN q : q[n].key = h
  <2>1. CASE h = k
    BY <1>1, <1>4, <2>1 DEF k
  <2>2. CASE h # k
    <3>1. keys[h] = "queued"
      BY <1>2, <1>9, <2>2
    <3>2. PICK n \in DOMAIN port : port[n].key = h
      BY <3>1 DEF InPort
    <3> QED
      BY <1>4, <3>2
  <2> QED
    BY <2>1, <2>2
<1>10. InPort(after, q)
  BY <1>7, <1>8, <1>9 DEF InPort
<1>11. \A n \in DOMAIN q : (n \in DOMAIN port /\ q[n] = port[n]) \/ q[n] = c
  BY <1>3
<1>12. /\ k = WNull => after = keys
       /\ k # WNull => after = [keys EXCEPT ![k] = "queued"]
  BY DEF after
<1>13. IF k = WNull THEN InPort(keys, q)
       ELSE [keys EXCEPT ![k] = "queued"] \in [WHandles -> KeyStates] /\ InPort([keys EXCEPT ![k] = "queued"], q)
  BY <1>2, <1>10, <1>12
<1> QED
  BY <1>1, <1>11, <1>13 DEF q, k, PostedIn

\* The port without its first completion, whose key is in state s now.
TakenFrom(keys, port, s) ==
  LET c == Head(port)
      after == [keys EXCEPT ![c.key] = s]
      q == Tail(port)
  IN  /\ IF c.key = WNull THEN InPort(keys, q) ELSE after \in [WHandles -> KeyStates] /\ InPort(after, q)
      /\ q \in Seq(Completions)
      /\ c \in Completions /\ 1 \in DOMAIN port /\ c = port[1]
      /\ c.key # WNull => c.key \in WHandles /\ keys[c.key] = "queued"
      /\ \A n \in DOMAIN q : n + 1 \in DOMAIN port /\ n + 1 # 1 /\ q[n] = port[n + 1]

\* A completion taken.
LEMMA Taken ==
  ASSUME NEW keys \in [WHandles -> KeyStates], NEW port \in Seq(Completions), InPort(keys, port),
         port # <<>>, NEW s \in KeyStates, s # "queued"
  PROVE  TakenFrom(keys, port, s)
<1> DEFINE c == Head(port)
           k == c.key
           after == IF k = WNull THEN keys ELSE [keys EXCEPT ![k] = s]
           q == Tail(port)
<1>1. /\ q \in Seq(Completions) /\ Len(q) = Len(port) - 1 /\ \A i \in 1..Len(q) : q[i] = port[i + 1]
      /\ Len(port) \in Nat /\ Len(port) # 0 /\ DOMAIN port = 1..Len(port) /\ DOMAIN q = 1..Len(q)
  BY HeadTailProperties, LenProperties, EmptySeq
<1>2. 1 \in DOMAIN port /\ c = port[1] /\ c \in Completions
  BY <1>1
<1>3. k \in WHandles \cup {WNull} /\ WNull \notin WHandles
  BY <1>2, HandlesAssumption DEF Completions, WHandles, WNull
<1>4. /\ after \in [WHandles -> KeyStates]
      /\ \A h \in WHandles : after[h] = IF h = k THEN s ELSE keys[h]
  BY <1>3
<1> HIDE DEF q, after
<1>5. \A n \in DOMAIN q : n \in Nat /\ n + 1 \in DOMAIN port /\ n + 1 # 1 /\ q[n] = port[n + 1]
  BY <1>1
<1>6. \A n \in DOMAIN port : port[n].key \in WHandles \cup {WNull}
  <2>1. \A n \in DOMAIN port : port[n] \in Completions
    BY <1>1, ElementOfSeq
  <2> QED
    BY <2>1 DEF Completions
<1> HIDE DEF c
<1>7. ASSUME NEW n \in DOMAIN q, q[n].key # WNull
      PROVE  after[q[n].key] = "queued"
  <2>1. q[n] = port[n + 1] /\ n + 1 \in DOMAIN port /\ n + 1 # 1
    BY <1>5
  <2>2. q[n].key \in WHandles /\ keys[q[n].key] = "queued"
    BY <1>6, <1>7, <2>1 DEF InPort
  <2>3. q[n].key # k
    BY <1>2, <1>7, <2>1 DEF InPort
  <2> QED
    BY <1>4, <2>2, <2>3
<1>8. ASSUME NEW a \in DOMAIN q, NEW b \in DOMAIN q, q[a].key = q[b].key, q[a].key # WNull
      PROVE  a = b
  <2>1. a + 1 = b + 1
    BY <1>5, <1>8 DEF InPort
  <2> QED
    BY <1>5, <2>1
<1>9. ASSUME NEW h \in WHandles, after[h] = "queued"
      PROVE  \E n \in DOMAIN q : q[n].key = h
  <2>1. h # k /\ keys[h] = "queued"
    BY <1>4, <1>9
  <2>2. PICK n \in DOMAIN port : port[n].key = h
    BY <2>1 DEF InPort
  <2>3. n # 1
    BY <1>2, <2>1, <2>2
  <2>4. n - 1 \in DOMAIN q /\ (n - 1) + 1 = n
    BY <1>1, <2>3
  <2> QED
    BY <1>5, <2>2, <2>4
<1>10. InPort(after, q)
  BY <1>7, <1>8, <1>9 DEF InPort
<1>11. k # WNull => k \in WHandles /\ keys[k] = "queued"
  BY <1>2, <1>3 DEF InPort
<1>12. /\ k = WNull => after = keys
       /\ k # WNull => after = [keys EXCEPT ![k] = s]
  BY DEF after
<1>13. IF k = WNull THEN InPort(keys, q)
       ELSE [keys EXCEPT ![k] = s] \in [WHandles -> KeyStates] /\ InPort([keys EXCEPT ![k] = s], q)
  BY <1>4, <1>10, <1>12
<1> QED
  BY <1>1, <1>2, <1>5, <1>11, <1>13 DEF c, q, TakenFrom

\* A key changes its state and is not in the port before or after.
LEMMA KeyMoves ==
  ASSUME NEW keys \in [WHandles -> KeyStates], NEW port \in Seq(Completions), InPort(keys, port),
         NEW h \in WHandles, NEW s \in KeyStates, keys[h] # "queued", s # "queued"
  PROVE  /\ [keys EXCEPT ![h] = s] \in [WHandles -> KeyStates]
         /\ InPort([keys EXCEPT ![h] = s], port)
         /\ \A g \in WHandles : [keys EXCEPT ![h] = s][g] = IF g = h THEN s ELSE keys[g]
<1> DEFINE k == [keys EXCEPT ![h] = s]
<1>1. k \in [WHandles -> KeyStates] /\ \A g \in WHandles : k[g] = IF g = h THEN s ELSE keys[g]
  OBVIOUS
<1>2. \A n \in DOMAIN port : port[n].key \in WHandles \cup {WNull}
  <2>1. \A n \in DOMAIN port : port[n] \in Completions
    BY ElementOfSeq, LenProperties
  <2> QED
    BY <2>1 DEF Completions
<1> HIDE DEF k
<1>3. InPort(k, port)
  BY <1>1, <1>2 DEF InPort
<1> QED
  BY <1>1, <1>3 DEF k

\* SetToSeq lists a finite set.
LEMMA SeqOfSet ==
  ASSUME NEW S, IsFiniteSet(S)
  PROVE  LET q == SetToSeq(S)
         IN  /\ q \in Seq(S) /\ \A m, n \in DOMAIN q : q[m] = q[n] => m = n
             /\ \A x \in S : \E n \in DOMAIN q : q[n] = x
<1> DEFINE k == Cardinality(S)
           q == SetToSeq(S)
<1>1. k \in Nat /\ ExistsBijection(1..k, S)
  BY FS_CardinalityType
<1>2. \E f \in [1..k -> S] : IsInjective(f)
  BY <1>1 DEF ExistsBijection, Bijection, Injection
<1>3. q \in [1..k -> S] /\ IsInjective(q)
  BY <1>2 DEF SetToSeq
<1>4. IsFiniteSet(1..k) /\ Cardinality(1..k) = k
  <2> HIDE DEF k
  <2> QED
    BY <1>1, FS_Interval
<1>5. q \in Injection(1..k, S)
  BY <1>3 DEF Injection
<1> HIDE DEF q
<1>6. q \in Surjection(1..k, S)
  <2> HIDE DEF k
  <2> QED
    BY <1>4, <1>5, FS_Injection DEF k
<1>7. q \in Seq(S)
  <2> HIDE DEF k
  <2> QED
    BY <1>1, <1>3, SeqDef
<1>8. DOMAIN q = 1..k
  BY <1>3
<1>9. \A m, n \in DOMAIN q : q[m] = q[n] => m = n
  BY <1>3 DEF IsInjective
<1>10. \A x \in S : \E n \in DOMAIN q : q[n] = x
  BY <1>6, <1>8 DEF Surjection
<1> QED
  BY <1>7, <1>9, <1>10 DEF q

\* What the port has came from the port or is an empty completion.
FromPort(hs) ==
  \A n \in DOMAIN wport' : \/ \E m \in DOMAIN wport : wport'[n] = wport[m]
                           \/ wport'[n].changes = <<>> /\ wport'[n].key \in hs

\* Closing handles completes the reads that were pending on them.
LEMMA Closed ==
  ASSUME WinTyped, InPort(wkeys, wport), NEW hs \in SUBSET WHandles, CloseHandles(hs)
  PROVE  /\ wopen' = wopen \ hs
         /\ wkeys' \in [WHandles -> KeyStates]
         /\ \A h \in WHandles : wkeys'[h] = IF h \in hs /\ wkeys[h] = "reading" THEN "queued" ELSE wkeys[h]
         /\ wport' \in Seq(Completions) /\ InPort(wkeys', wport') /\ FromPort(hs)
<1> DEFINE ended == {h \in hs : wkeys[h] = "reading"}
           E == {[key |-> h, changes |-> <<>>] : h \in ended}
           q == SetToSeq(E)
<1>1. wopen' = wopen \ hs /\ wport' = wport \o q /\ wkeys' = [h \in WHandles |-> IF h \in ended THEN "queued" ELSE wkeys[h]]
  BY DEF CloseHandles
<1>2. /\ wkeys' \in [WHandles -> KeyStates]
      /\ \A h \in WHandles : wkeys'[h] = IF h \in ended THEN "queued" ELSE wkeys[h]
  BY <1>1 DEF WinTyped, KeyStates
<1>3. ended \subseteq WHandles /\ WNull \notin ended /\ \A h \in ended : wkeys[h] # "queued"
  <2>1. WNull \notin WHandles
    BY HandlesAssumption DEF WHandles, WNull
  <2>2. \A h \in ended : h \in hs /\ wkeys[h] = "reading"
    OBVIOUS
  <2> HIDE DEF ended
  <2>3. ended \subseteq WHandles /\ \A h \in ended : wkeys[h] # "queued"
    BY <2>2
  <2> QED
    BY <2>1, <2>3
<1>4. IsFiniteSet(ended)
  <2>1. IsFiniteSet(WHandles)
    BY HandlesAssumption, FS_Interval DEF WHandles
  <2> HIDE DEF ended
  <2> QED
    BY <1>3, <2>1, FS_Subset
<1> HIDE DEF ended
<1>5. \A e \in E : e \in Completions /\ e.key \in ended /\ e.changes = <<>>
  <2> SUFFICES ASSUME NEW h \in ended
               PROVE  [key |-> h, changes |-> <<>>] \in Completions
    OBVIOUS
  <2>1. <<>> \in Seq(Changes) /\ h \in WHandles
    BY <1>3, EmptySeq
  <2> QED
    BY <2>1 DEF Completions
<1>6. \A h \in ended : \E e \in E : e.key = h
  <2>1. \A h \in ended : [key |-> h, changes |-> <<>>] \in E /\ [key |-> h, changes |-> <<>>].key = h
    OBVIOUS
  <2> HIDE DEF E
  <2> QED
    BY <2>1
<1>7. \A e, f \in E : e.key = f.key => e = f
  OBVIOUS
<1>8. IsFiniteSet(E)
  <2> DEFINE f == [h \in ended |-> [key |-> h, changes |-> <<>>]]
  <2>1. f \in Surjection(ended, E)
    BY DEF Surjection
  <2> HIDE DEF f, E
  <2> QED
    BY <1>4, <2>1, FS_Surjection
<1> HIDE DEF E
<1>9. /\ q \in Seq(E) /\ \A m, n \in DOMAIN q : q[m] = q[n] => m = n
      /\ \A x \in E : \E n \in DOMAIN q : q[n] = x
  BY <1>8, SeqOfSet
<1> HIDE DEF q
<1>10. q \in Seq(Completions) /\ DOMAIN q = 1..Len(q) /\ Len(q) \in Nat /\ \A n \in DOMAIN q : q[n] \in E
  <2>1. DOMAIN q = 1..Len(q) /\ Len(q) \in Nat
    BY <1>9, LenProperties
  <2>2. \A n \in DOMAIN q : q[n] \in E
    BY <1>9, <2>1, ElementOfSeq
  <2>3. E \subseteq Completions
    BY <1>5
  <2>4. q \in Seq(Completions)
    BY <1>9, <2>3, SeqMonotonic
  <2> QED
    BY <2>1, <2>2, <2>4
<1> DEFINE p == wport \o q
           a == Len(wport)
           b == Len(q)
<1>11. /\ wport \in Seq(Completions) /\ DOMAIN wport = 1..a /\ a \in Nat /\ b \in Nat
       /\ p \in Seq(Completions) /\ Len(p) = a + b /\ DOMAIN p = 1..(a + b)
       /\ \A i \in 1..(a + b) : p[i] = IF i <= a THEN wport[i] ELSE q[i - a]
  <2>1. wport \in Seq(Completions)
    BY DEF WinTyped
  <2> QED
    BY <1>10, <2>1, ConcatProperties, LenProperties
<1>12. \A n \in DOMAIN wport : wport[n].key \in WHandles \cup {WNull}
  <2>1. \A n \in DOMAIN wport : wport[n] \in Completions
    BY <1>11, ElementOfSeq
  <2> QED
    BY <2>1 DEF Completions
<1> HIDE DEF p, a, b
<1>13. ASSUME NEW n \in DOMAIN p
       PROVE  n \in Int /\ \/ n \in DOMAIN wport /\ p[n] = wport[n]
                           \/ n - a \in DOMAIN q /\ p[n] = q[n - a]
  <2>1. CASE n <= a
    BY <1>11, <2>1
  <2>2. CASE ~(n <= a)
    <3>1. n - a \in DOMAIN q
      BY <1>10, <1>11, <2>2 DEF b
    <3> QED
      BY <1>11, <2>2, <3>1
  <2> QED
    BY <2>1, <2>2
<1>14. \A n \in DOMAIN wport : n \in DOMAIN p /\ p[n] = wport[n]
  BY <1>11
<1>15. \A n \in DOMAIN q : n + a \in DOMAIN p /\ p[n + a] = q[n]
  <2>1. ASSUME NEW n \in DOMAIN q
        PROVE  n + a \in DOMAIN p /\ p[n + a] = q[n]
    <3>1. n \in 1..b /\ n \in Int
      BY <1>10 DEF b
    <3>2. n + a \in 1..(a + b) /\ ~(n + a <= a) /\ n + a - a = n
      BY <1>11, <3>1
    <3> DEFINE i == n + a
    <3>3. i \in 1..(a + b) /\ ~(i <= a) /\ i - a = n
      <4>1. a \in Nat /\ b \in Nat /\ n \in 1..b /\ n \in Int
        BY <1>11, <3>1
      <4> QED
        BY <4>1
    <3> HIDE DEF i
    <3>4. p[i] = q[i - a] /\ i \in DOMAIN p
      BY <1>11, <3>3
    <3>5. p[i] = q[n] /\ i \in DOMAIN p
      BY <3>3, <3>4
    <3> QED
      BY <3>5 DEF i
  <2> QED
    BY <2>1
<1>16. \A n \in DOMAIN wport : wport[n].key # WNull => wkeys[wport[n].key] = "queued" /\ wport[n].key \notin ended
  BY <1>3 DEF InPort
<1>17. \A n \in DOMAIN q : q[n].key \in ended /\ q[n].key # WNull /\ q[n].changes = <<>>
  BY <1>3, <1>5, <1>10
<1>18. \A n \in DOMAIN p : p[n].key # WNull => wkeys'[p[n].key] = "queued"
  BY <1>2, <1>3, <1>12, <1>13, <1>16, <1>17
<1>19. ASSUME NEW m \in DOMAIN p, NEW n \in DOMAIN p, p[m].key = p[n].key, p[m].key # WNull
       PROVE  m = n
  <2>1. CASE m \in DOMAIN wport /\ p[m] = wport[m] /\ n \in DOMAIN wport /\ p[n] = wport[n]
    BY <1>19, <2>1 DEF InPort
  <2>2. CASE m - a \in DOMAIN q /\ p[m] = q[m - a] /\ n - a \in DOMAIN q /\ p[n] = q[n - a]
    <3>1. q[m - a] = q[n - a]
      BY <1>7, <1>10, <1>19, <2>2
    <3>2. m - a = n - a
      BY <1>9, <2>2, <3>1
    <3> QED
      BY <1>11, <1>13, <3>2
  <2>3. CASE m \in DOMAIN wport /\ p[m] = wport[m] /\ n - a \in DOMAIN q /\ p[n] = q[n - a]
    BY <1>16, <1>17, <1>19, <2>3
  <2>4. CASE n \in DOMAIN wport /\ p[n] = wport[n] /\ m - a \in DOMAIN q /\ p[m] = q[m - a]
    BY <1>16, <1>17, <1>19, <2>4
  <2> QED
    BY <1>13, <2>1, <2>2, <2>3, <2>4
<1>20. ASSUME NEW h \in WHandles, wkeys'[h] = "queued"
       PROVE  \E n \in DOMAIN p : p[n].key = h
  <2>1. CASE h \in ended
    <3>1. PICK e \in E : e.key = h
      BY <1>6, <2>1
    <3>2. PICK n \in DOMAIN q : q[n] = e
      BY <1>9
    <3> QED
      BY <1>15, <3>1, <3>2
  <2>2. CASE h \notin ended
    <3>1. wkeys[h] = "queued"
      BY <1>2, <1>20, <2>2
    <3>2. PICK n \in DOMAIN wport : wport[n].key = h
      BY <3>1 DEF InPort
    <3> QED
      BY <1>14, <3>2
  <2> QED
    BY <2>1, <2>2
<1>21. InPort(wkeys', p)
  BY <1>18, <1>19, <1>20 DEF InPort
<1>22. ASSUME NEW n \in DOMAIN p
       PROVE  \/ \E m \in DOMAIN wport : p[n] = wport[m]
              \/ p[n].changes = <<>> /\ p[n].key \in hs
  <2>1. ended \subseteq hs
    BY DEF ended
  <2> QED
    BY <1>13, <1>17, <2>1
<1>23. wport' = p
  BY <1>1 DEF p
<1>24. InPort(wkeys', wport') /\ wport' \in Seq(Completions) /\ FromPort(hs)
  BY <1>11, <1>21, <1>22, <1>23 DEF FromPort
<1> QED
  BY <1>1, <1>2, <1>24 DEF ended

-----------------------------------------------------------------------------
(* Steps that move no change.                                              *)

\* The work thread and the buffers keep their changes, and the port loses
\* completions or gets empty ones.
SameFlow ==
  /\ wlog'.pushed = wlog.pushed /\ wlog'.changes = wlog.changes /\ wbuf' = wbuf
  /\ wwork'.changes = wwork.changes /\ wwork'.key = wwork.key
  /\ \A n \in DOMAIN wport' : wport'[n].changes = <<>> \/ \E m \in DOMAIN wport : wport'[n] = wport[m]

\* Such a step keeps the order of changes.
LEMMA FlowKept ==
  ASSUME Flowing, SameFlow
  PROVE  Flowing'
<1>1. /\ Rising(wlog.pushed)' /\ UpTo(wlog.pushed, wlog.changes)' /\ Buffered'
      /\ Batch(wwork.changes, wwork.key, wlog.pushed, wlog.changes)' /\ AllBefore(wwork.changes)'
  BY DEF Flowing, SameFlow, Rising, UpTo, Buffered, Batch, OfHandle, Before, AllBefore
<1>2. ASSUME NEW n \in DOMAIN wport'
      PROVE  Batch(wport'[n].changes, wport'[n].key, wlog'.pushed, wlog'.changes)
             /\ \A h \in WHandles : Before(wport'[n].changes, wbuf'[h])
  <2>1. CASE wport'[n].changes = <<>>
    BY <2>1, NoChanges DEF SameFlow, AllBefore
  <2>2. CASE \E m \in DOMAIN wport : wport'[n] = wport[m]
    BY <2>2 DEF Flowing, SameFlow, AllBefore
  <2> QED
    BY <2>1, <2>2 DEF SameFlow
<1> QED
  BY <1>1, <1>2 DEF Flowing, AllBefore

\* The handles' directories, whoever holds the object.
DirHandlesOf(i) == {i.dirs[d] : d \in DOMAIN i.dirs}

\* Giving up a reference keeps everything in place.
LEMMA ReleaseKeeps ==
  ASSUME WinTyped, InPort(wkeys, wport), InWork, DirsRight, EndsByOverflow,
         NEW i \in Impls, i.refs = wimpl.refs, i.dirs = wimpl.dirs,
         NEW r \in Holders, Release(i, r),
         wwork'.key = wwork.key, wwork.pc # "thrown", wlog'.overflowed = wlog.overflowed
  PROVE  /\ wimpl' \in Impls /\ wimpl'.refs = wimpl.refs \ {r} /\ wimpl'.run = i.run
         /\ wimpl'.events = i.events /\ wimpl'.dirs = wimpl.dirs
         /\ wkeys' \in [WHandles -> KeyStates] /\ wopen' \subseteq WHandles /\ wport' \in Seq(Completions)
         /\ InPort(wkeys', wport') /\ InWork' /\ DirsRight' /\ EndsByOverflow'
         /\ \A n \in DOMAIN wport' : wport'[n].changes = <<>> \/ \E m \in DOMAIN wport : wport'[n] = wport[m]
<1>1. /\ i.refs \in SUBSET Holders /\ i.run \in BOOLEAN /\ i.events \in Seq(Changes) /\ i.dirs \in DirMaps
  BY DEF Impls
<1> DEFINE x == i.refs \ {r}
<1>2. wimpl' = [i EXCEPT !.refs = x] /\ x \in SUBSET Holders
  BY <1>1 DEF Release
<1> HIDE DEF x
<1>3. /\ wimpl' \in Impls /\ wimpl'.refs = x /\ wimpl'.run = i.run
      /\ wimpl'.events = i.events /\ wimpl'.dirs = wimpl.dirs
  BY <1>1, <1>2 DEF Impls
<1>4. DirHandles' = DirHandles /\ DirHandlesOf(i) = DirHandles
  BY <1>3 DEF DirHandles, DirHandlesOf
<1>5. DirHandles \in SUBSET WHandles
  BY <1>1 DEF DirHandles, DirMaps
<1>6. wport \in Seq(Completions) /\ wkeys \in [WHandles -> KeyStates] /\ wopen \subseteq WHandles
  BY DEF WinTyped
<1>7. CASE i.refs = {r}
  <2>1. CloseHandles(DirHandles)
    BY <1>4, <1>7 DEF Release, DirHandlesOf
  <2>2. /\ wopen' = wopen \ DirHandles
        /\ wkeys' \in [WHandles -> KeyStates]
        /\ \A h \in WHandles : wkeys'[h] = IF h \in DirHandles /\ wkeys[h] = "reading" THEN "queued" ELSE wkeys[h]
        /\ wport' \in Seq(Completions) /\ InPort(wkeys', wport') /\ FromPort(DirHandles)
    BY <1>5, <2>1, Closed
  <2>3. Free(wimpl)' /\ Free(wimpl')
    BY <1>3, <1>7 DEF Free, x
  <2>4. InWork'
    BY <2>2 DEF InWork
  <2>5. DirsRight'
    BY <1>3, <1>4, <2>2, <2>3 DEF DirsRight
  <2>6. EndsByOverflow'
    BY <2>3 DEF EndsByOverflow
  <2> QED
    BY <1>3, <1>6, <2>2, <2>4, <2>5, <2>6 DEF FromPort, x
<1>8. CASE i.refs # {r}
  <2>1. wopen' = wopen /\ wport' = wport /\ wkeys' = wkeys
    BY <1>8 DEF Release
  <2>2. Free(wimpl)' <=> Free(wimpl)
    BY <1>3, <1>8 DEF Free, x
  <2>3. DirsRight'
    BY <1>3, <1>4, <2>1, <2>2 DEF DirsRight
  <2>4. EndsByOverflow'
    BY <1>4, <2>1, <2>2 DEF EndsByOverflow
  <2>5. InWork' /\ InPort(wkeys', wport')
    BY <2>1 DEF InWork
  <2> QED
    BY <1>3, <1>6, <2>1, <2>3, <2>4, <2>5 DEF x
<1> QED
  BY <1>7, <1>8

\* The calls that wait for events or stop threads, up to the operations' list.
LEMMA CallStep ==
  ASSUME WinInv, wwork.pc # "thrown", monitor \/ async_monitor \/ StopAsync \/ stop_work_thread \/ Joined
  PROVE  WinInv'
<1> USE DEF WinInv
<1>0. /\ wimpl \in Impls /\ wasync \in Asyncs /\ wlog \in WinLogs /\ wport \in Seq(Completions)
      /\ wkeys \in [WHandles -> KeyStates]
  BY DEF WinTyped
<1>1. CASE monitor
  <2> DEFINE ev == wimpl.events
             t == Tail(ev)
             g == Append(wlog.got, Head(ev))
  <2>1. ev \in Seq(Changes) /\ wlog.got \in Seq(Changes) /\ wlog.pushed \in Seq(Changes) /\ ev # <<>>
    BY <1>0, <1>1 DEF Impls, WinLogs, monitor
  <2>2. t \in Seq(Changes) /\ Head(ev) \in Changes /\ g \in Seq(Changes)
    BY <2>1, HeadTailProperties, AppendProperties
  <2>3. Held(wasync.ev) \in Seq(Changes)
    BY <1>0, EmptySeq DEF Asyncs, Held
  <2>4. Delivered(t, wlog.pushed, g, Held(wasync.ev))
    BY <2>1, <2>3, PopToGot
  <2>5. wimpl' = [wimpl EXCEPT !.events = t] /\ wlog' = [wlog EXCEPT !.got = g]
    BY <1>1, <2>1 DEF monitor, popfront_event, Popped
  <2> HIDE DEF t, g, ev
  <2>6. /\ wimpl' \in Impls /\ wimpl'.refs = wimpl.refs /\ wimpl'.run = wimpl.run
        /\ wimpl'.events = t /\ wimpl'.dirs = wimpl.dirs
    BY <1>0, <2>2, <2>5 DEF Impls
  <2>7. /\ wlog' \in WinLogs /\ wlog'.got = g /\ wlog'.pushed = wlog.pushed
        /\ wlog'.changes = wlog.changes /\ wlog'.overflowed = wlog.overflowed
    BY <1>0, <2>2, <2>5 DEF WinLogs
  <2>8. UNCHANGED <<wkeys, wopen, wbuf, wport, wwork, wasync>>
    BY <1>1 DEF monitor
  <2>9. WinTyped' /\ InPort(wkeys, wport)' /\ InWork' /\ WorkRight'
    BY <2>6, <2>7, <2>8 DEF WinTyped, InWork, WorkRight
  <2>10. DirsRight' /\ EndsByOverflow' /\ RefsRight'
    BY <2>6, <2>7, <2>8 DEF DirsRight, EndsByOverflow, RefsRight, DirHandles, Free
  <2>11. Flowing'
    BY <2>7, <2>8, FlowKept DEF SameFlow
  <2>12. Delivered(wimpl.events, wlog.pushed, wlog.got, Held(wasync.ev))'
    BY <2>4, <2>6, <2>7, <2>8
  <2> QED
    BY <2>9, <2>10, <2>11, <2>12
<1>2. CASE async_monitor \/ StopAsync \/ Joined
  <2>1. wasync' \in Asyncs /\ wasync'.pc = wasync.pc /\ wasync'.ev = wasync.ev
    <3>1. /\ wasync.asked + 1 \in Nat /\ wasync.queue + 1 \in Nat
          /\ wasync.pc \in {"idle", "pop", "post"} /\ wasync.ev \in Changes \cup {<<>>}
          /\ wasync.asked \in Nat
      BY <1>0 DEF Asyncs
    <3>2. CASE async_monitor
      BY <1>0, <3>1, <3>2 DEF Asyncs, async_monitor
    <3>3. CASE StopAsync
      BY <1>0, <3>1, <3>3 DEF Asyncs, StopAsync
    <3>4. CASE Joined
      BY <1>0, <3>4 DEF Joined
    <3> QED
      BY <1>2, <3>2, <3>3, <3>4
  <2>2. UNCHANGED <<wimpl, wkeys, wopen, wbuf, wport, wwork, wlog>>
    BY <1>2 DEF async_monitor, StopAsync, Joined
  <2>3. WinTyped' /\ InPort(wkeys, wport)' /\ InWork' /\ WorkRight'
    BY <2>1, <2>2 DEF WinTyped, InWork, WorkRight
  <2>4. DirsRight' /\ EndsByOverflow' /\ RefsRight'
    BY <2>1, <2>2 DEF DirsRight, EndsByOverflow, RefsRight, DirHandles
  <2>5. Flowing'
    BY <2>2, FlowKept DEF SameFlow
  <2> QED
    BY <2>1, <2>2, <2>3, <2>4, <2>5
<1>3. CASE stop_work_thread
  <2> DEFINE c == [key |-> WNull, changes |-> <<>>]
             q == Append(wport, c)
  <2>1. c \in Completions /\ c.key = WNull /\ c.changes = <<>>
    BY EmptySeq DEF Completions
  <2>2. wport' = q /\ UNCHANGED <<wimpl, wkeys, wopen, wbuf, wwork, wasync, wlog>>
    BY <1>3 DEF stop_work_thread
  <2> HIDE DEF c
  <2>3. /\ InPort(wkeys, q) /\ q \in Seq(Completions)
        /\ \A n \in DOMAIN q : (n \in DOMAIN wport /\ q[n] = wport[n]) \/ q[n] = c
    <3>1. InPort(wkeys, wport) /\ (c.key # WNull => wkeys[c.key] # "queued")
      BY <2>1
    <3> HIDE DEF WinInv, q
    <3>2. PostedIn(wkeys, wport, c)
      BY <1>0, <2>1, <3>1, Posted
    <3> QED
      BY <2>1, <3>2 DEF q, PostedIn
  <2> HIDE DEF q
  <2>4. WinTyped' /\ InPort(wkeys, wport)' /\ InWork' /\ WorkRight'
    BY <2>2, <2>3 DEF WinTyped, InWork, WorkRight
  <2>5. DirsRight' /\ RefsRight'
    BY <2>2 DEF DirsRight, RefsRight, DirHandles
  <2>6. WNull \notin DirHandles
    <3>1. WNull \notin WHandles /\ wimpl.dirs \in DirMaps
      BY <1>0, HandlesAssumption DEF WHandles, WNull, Impls
    <3> QED
      BY <3>1 DEF DirHandles, DirMaps
  <2>7. EndsByOverflow'
    BY <2>1, <2>2, <2>3, <2>6 DEF EndsByOverflow, DirHandles
  <2>8. Flowing'
    BY <2>1, <2>2, <2>3, FlowKept DEF SameFlow
  <2> QED
    BY <2>2, <2>4, <2>5, <2>7, <2>8
<1> QED
  BY <1>1, <1>2, <1>3

\* The user adds a directory.
LEMMA AddStep ==
  ASSUME WinInv, wwork.pc # "thrown", NEW d \in WinDirs, add_directory(d)
  PROVE  WinInv'
<1> USE DEF WinInv
<1>0. /\ wimpl \in Impls /\ wport \in Seq(Completions)
      /\ wkeys \in [WHandles -> KeyStates] /\ wopen \subseteq WHandles
  BY DEF WinTyped
<1> DEFINE h == CHOOSE x \in Unused : \A y \in Unused : x <= y
<1>1. h \in Unused
  <2>1. Unused # {} /\ Unused \subseteq Nat
    BY HandlesAssumption DEF add_directory, Unused, WHandles
  <2>2. \E x \in Unused : \A y \in Unused : x <= y
    BY <2>1, LeastNumber
  <2> QED
    BY <2>2
<1>2. /\ \/ /\ wkeys' = [wkeys EXCEPT ![h] = "deleted"]
            /\ wopen' = wopen \cup {h}
            /\ UNCHANGED <<wimpl, wport>>
         \/ /\ d \in DOMAIN wimpl.dirs
            /\ wkeys' = [wkeys EXCEPT ![h] = "queued"]
            /\ wport' = Append(wport, [key |-> h, changes |-> <<>>])
            /\ UNCHANGED <<wimpl, wopen>>
         \/ /\ d \notin DOMAIN wimpl.dirs
            /\ wkeys' = [wkeys EXCEPT ![h] = "reading"]
            /\ wopen' = wopen \cup {h}
            /\ wimpl' = [wimpl EXCEPT !.dirs = [x \in DOMAIN @ \cup {d} |-> IF x = d THEN h ELSE @[x]]]
            /\ UNCHANGED wport
      /\ UNCHANGED <<wbuf, wwork, wasync, wsvc, wlog>>
  BY DEF add_directory
<1> HIDE DEF h
<1>3. h \in WHandles /\ wkeys[h] = "none" /\ h \notin wopen /\ h \notin DirHandles
  BY <1>1 DEF Unused, DirsRight
<1>4. wwork.key # h /\ h # WNull
  BY <1>3, HandlesAssumption DEF InWork, WHandles, WNull
<1>5. ~Free(wimpl) /\ "user" \in wimpl.refs
  BY DEF add_directory, UserHolds, Free
<1>6. CASE /\ wkeys' = [wkeys EXCEPT ![h] = "deleted"]
           /\ wopen' = wopen \cup {h}
           /\ UNCHANGED <<wimpl, wport>>
  <2>1. /\ wkeys' \in [WHandles -> KeyStates] /\ InPort(wkeys', wport)
        /\ \A g \in WHandles : wkeys'[g] = IF g = h THEN "deleted" ELSE wkeys[g]
    BY <1>0, <1>3, <1>6, KeyMoves DEF KeyStates
  <2>2. UNCHANGED <<wimpl, wport, wbuf, wwork, wasync, wlog>>
    BY <1>2, <1>6
  <2>3. WinTyped' /\ InPort(wkeys, wport)' /\ WorkRight' /\ RefsRight'
    BY <1>0, <1>3, <1>6, <2>1, <2>2 DEF WinTyped, WorkRight, RefsRight
  <2>4. InWork'
    BY <1>4, <2>1, <2>2 DEF InWork
  <2>5. DirHandles' = DirHandles /\ (Free(wimpl)' <=> Free(wimpl))
    BY <2>2 DEF DirHandles
  <2>6. DirsRight'
    BY <1>3, <1>5, <1>6, <2>1, <2>2, <2>5 DEF DirsRight
  <2>7. EndsByOverflow'
    BY <1>3, <2>1, <2>2, <2>5 DEF EndsByOverflow
  <2>8. Flowing'
    BY <2>2, FlowKept DEF SameFlow
  <2> QED
    BY <2>2, <2>3, <2>4, <2>6, <2>7, <2>8
<1>7. CASE /\ wkeys' = [wkeys EXCEPT ![h] = "queued"]
           /\ wport' = Append(wport, [key |-> h, changes |-> <<>>])
           /\ UNCHANGED <<wimpl, wopen>>
  <2> DEFINE c == [key |-> h, changes |-> <<>>]
             q == Append(wport, c)
  <2>1. c \in Completions /\ c.key = h /\ c.changes = <<>>
    BY <1>3, EmptySeq DEF Completions
  <2> HIDE DEF c
  <2>2. /\ [wkeys EXCEPT ![h] = "queued"] \in [WHandles -> KeyStates]
        /\ InPort([wkeys EXCEPT ![h] = "queued"], q) /\ q \in Seq(Completions)
        /\ \A n \in DOMAIN q : (n \in DOMAIN wport /\ q[n] = wport[n]) \/ q[n] = c
    <3> HIDE DEF q
    <3>1. PostedIn(wkeys, wport, c)
      BY <1>0, <1>3, <1>4, <2>1, Posted
    <3> QED
      BY <1>4, <2>1, <3>1 DEF PostedIn, q
  <2>3. wport' = q
    BY <1>7 DEF c
  <2> HIDE DEF q
  <2>4. /\ wkeys' \in [WHandles -> KeyStates] /\ InPort(wkeys', wport') /\ wport' \in Seq(Completions)
        /\ \A g \in WHandles : wkeys'[g] = IF g = h THEN "queued" ELSE wkeys[g]
    BY <1>0, <1>3, <1>7, <2>2, <2>3
  <2>5. UNCHANGED <<wimpl, wopen, wbuf, wwork, wasync, wlog>>
    BY <1>2, <1>7
  <2>6. WinTyped' /\ InPort(wkeys, wport)' /\ WorkRight' /\ RefsRight'
    BY <2>4, <2>5 DEF WinTyped, WorkRight, RefsRight
  <2>7. InWork'
    BY <1>4, <2>4, <2>5 DEF InWork
  <2>8. DirHandles' = DirHandles /\ (Free(wimpl)' <=> Free(wimpl))
    BY <2>5 DEF DirHandles
  <2>9. DirsRight'
    BY <1>3, <1>5, <2>4, <2>5, <2>8 DEF DirsRight
  <2>10. EndsByOverflow'
    BY <1>3, <2>1, <2>2, <2>3, <2>4, <2>5, <2>8 DEF EndsByOverflow
  <2>11. Flowing'
    BY <2>1, <2>2, <2>3, <2>5, FlowKept DEF SameFlow
  <2> QED
    BY <2>5, <2>6, <2>7, <2>9, <2>10, <2>11
<1>8. CASE /\ d \notin DOMAIN wimpl.dirs
           /\ wkeys' = [wkeys EXCEPT ![h] = "reading"]
           /\ wopen' = wopen \cup {h}
           /\ wimpl' = [wimpl EXCEPT !.dirs = [x \in DOMAIN @ \cup {d} |-> IF x = d THEN h ELSE @[x]]]
           /\ UNCHANGED wport
  <2> DEFINE m == wimpl.dirs
             e == [x \in DOMAIN m \cup {d} |-> IF x = d THEN h ELSE m[x]]
  <2>1. m \in DirMaps
    BY <1>0 DEF Impls
  <2>2. PICK D \in SUBSET WinDirs : m \in [D -> WHandles]
    BY <2>1 DEF DirMaps
  <2>3. /\ e \in [D \cup {d} -> WHandles] /\ DOMAIN m = D
        /\ \A x \in D : e[x] = m[x]
        /\ e[d] = h
    BY <1>3, <1>8, <2>2
  <2>4. wimpl' = [wimpl EXCEPT !.dirs = e]
    BY <1>8
  <2> HIDE DEF e
  <2>5. e \in DirMaps /\ DOMAIN e = D \cup {d} /\ d \notin D
    <3>1. D \cup {d} \in SUBSET WinDirs
      OBVIOUS
    <3> QED
      BY <1>8, <2>3, <3>1 DEF DirMaps
  <2>6. /\ wimpl' \in Impls /\ wimpl'.refs = wimpl.refs /\ wimpl'.run = wimpl.run
        /\ wimpl'.events = wimpl.events /\ wimpl'.dirs = e
    BY <1>0, <2>4, <2>5 DEF Impls
  <2>7. DirHandles' = DirHandles \cup {h}
    BY <2>3, <2>5, <2>6 DEF DirHandles
  <2>8. /\ wkeys' \in [WHandles -> KeyStates] /\ InPort(wkeys', wport)
        /\ \A g \in WHandles : wkeys'[g] = IF g = h THEN "reading" ELSE wkeys[g]
    BY <1>0, <1>3, <1>8, KeyMoves DEF KeyStates
  <2>9. UNCHANGED <<wport, wbuf, wwork, wasync, wlog>> /\ wopen' = wopen \cup {h}
    BY <1>2, <1>8
  <2>10. WinTyped' /\ InPort(wkeys, wport)' /\ WorkRight' /\ RefsRight'
    BY <1>0, <1>3, <2>6, <2>8, <2>9 DEF WinTyped, WorkRight, RefsRight
  <2>11. InWork'
    BY <1>4, <2>8, <2>9 DEF InWork
  <2>12. ~Free(wimpl')
    BY <1>5, <2>6 DEF Free
  <2>13. \A x \in D : m[x] \in DirHandles
    BY <2>3 DEF DirHandles
  <2>14. \A x, y \in DOMAIN e : e[x] = e[y] => x = y
    BY <1>3, <2>3, <2>5, <2>13 DEF DirsRight
  <2>15. DirsRight'
    BY <1>3, <1>5, <2>6, <2>7, <2>8, <2>9, <2>12, <2>14 DEF DirsRight
  <2>16. \A n \in DOMAIN wport : wport[n].key # h
    BY <1>3, <1>4 DEF InPort
  <2>17. EndsByOverflow'
    BY <1>3, <1>5, <2>7, <2>8, <2>9, <2>16 DEF EndsByOverflow
  <2>18. Flowing'
    BY <2>9, FlowKept DEF SameFlow
  <2> QED
    BY <2>6, <2>9, <2>10, <2>11, <2>15, <2>17, <2>18
<1> QED
  BY <1>2, <1>6, <1>7, <1>8

\* The user removes a directory, or destroys the object.
LEMMA RemoveStep ==
  ASSUME WinInv, wwork.pc # "thrown", NEW d, remove_directory(d)
  PROVE  WinInv'
<1> USE DEF WinInv
<1>0. wimpl \in Impls
  BY DEF WinTyped
<1> DEFINE m == wimpl.dirs
           h == m[d]
           e == [x \in DOMAIN m \ {d} |-> m[x]]
<1>1. /\ d \in DOMAIN m /\ CloseHandles({h}) /\ wimpl' = [wimpl EXCEPT !.dirs = e]
      /\ UNCHANGED <<wbuf, wwork, wasync, wsvc, wlog>>
  BY DEF remove_directory
<1>2. PICK D \in SUBSET WinDirs : m \in [D -> WHandles]
  BY <1>0 DEF Impls, DirMaps
<1>3. /\ e \in [D \ {d} -> WHandles] /\ DOMAIN m = D /\ DOMAIN e = D \ {d} /\ d \in D
      /\ \A x \in D \ {d} : e[x] = m[x]
      /\ h \in WHandles
  BY <1>1, <1>2
<1> HIDE DEF e
<1>4. e \in DirMaps
  <2>1. D \ {d} \in SUBSET WinDirs
    OBVIOUS
  <2> QED
    BY <1>3, <2>1 DEF DirMaps
<1>5. /\ wimpl' \in Impls /\ wimpl'.refs = wimpl.refs /\ wimpl'.run = wimpl.run
      /\ wimpl'.events = wimpl.events /\ wimpl'.dirs = e
  BY <1>0, <1>1, <1>4 DEF Impls
<1>6. DirHandles' = DirHandles \ {h}
  BY <1>3, <1>5 DEF DirHandles, DirsRight
<1>7. /\ wopen' = wopen \ {h}
      /\ wkeys' \in [WHandles -> KeyStates]
      /\ \A g \in WHandles : wkeys'[g] = IF g \in {h} /\ wkeys[g] = "reading" THEN "queued" ELSE wkeys[g]
      /\ wport' \in Seq(Completions) /\ InPort(wkeys', wport') /\ FromPort({h})
  <2>1. {h} \in SUBSET WHandles
    BY <1>3
  <2> HIDE DEF h, m
  <2> QED
    BY <1>1, <2>1, Closed
<1> HIDE DEF h, m
<1>8. ~Free(wimpl) /\ ~Free(wimpl')
  BY <1>5 DEF remove_directory, UserHolds, Free
<1>9. WinTyped' /\ InPort(wkeys, wport)' /\ WorkRight' /\ RefsRight'
  BY <1>1, <1>5, <1>7 DEF WinTyped, WorkRight, RefsRight
<1>10. InWork'
  BY <1>1, <1>7 DEF InWork
<1>11. \A x, y \in DOMAIN e : e[x] = e[y] => x = y
  BY <1>3 DEF DirsRight, m
<1>12. DirsRight'
  BY <1>5, <1>6, <1>7, <1>8, <1>11 DEF DirsRight
<1>13. EndsByOverflow'
  BY <1>1, <1>6, <1>7, <1>8 DEF EndsByOverflow, FromPort
<1>14. Flowing'
  BY <1>1, <1>7, FlowKept DEF SameFlow, FromPort
<1> QED
  BY <1>1, <1>5, <1>9, <1>10, <1>12, <1>13, <1>14

\* The user destroys the object; an operation or the work thread lets it go.
LEMMA LetGoStep ==
  ASSUME WinInv, wwork.pc # "thrown", destroy \/ AsyncPost \/ WorkRelease
  PROVE  WinInv'
<1>0. /\ wimpl \in Impls /\ wasync \in Asyncs /\ wlog \in WinLogs /\ wwork \in Works
      /\ WinTyped /\ InPort(wkeys, wport) /\ InWork /\ DirsRight /\ EndsByOverflow /\ Flowing
      /\ WorkRight /\ RefsRight
      /\ Delivered(wimpl.events, wlog.pushed, wlog.got, Held(wasync.ev))
  BY DEF WinTyped, WinInv
<1>1. CASE destroy
  <2> DEFINE i == [wimpl EXCEPT !.run = FALSE]
  <2>1. i \in Impls /\ i.refs = wimpl.refs /\ i.dirs = wimpl.dirs /\ i.run = FALSE /\ i.events = wimpl.events
    BY <1>0 DEF Impls
  <2>2. Release(i, "user") /\ UNCHANGED <<wbuf, wwork, wasync, wsvc, wlog>>
    BY <1>1 DEF destroy
  <2> HIDE DEF i
  <2>3. /\ wimpl' \in Impls /\ wimpl'.refs = wimpl.refs \ {"user"} /\ wimpl'.run = i.run
        /\ wimpl'.events = i.events /\ wimpl'.dirs = wimpl.dirs
        /\ wkeys' \in [WHandles -> KeyStates] /\ wopen' \subseteq WHandles /\ wport' \in Seq(Completions)
        /\ InPort(wkeys', wport') /\ InWork' /\ DirsRight' /\ EndsByOverflow'
        /\ \A n \in DOMAIN wport' : wport'[n].changes = <<>> \/ \E m \in DOMAIN wport : wport'[n] = wport[m]
    BY <1>0, <2>1, <2>2, ReleaseKeeps DEF Holders
  <2>4. WinTyped' /\ WorkRight'
    BY <1>0, <2>2, <2>3 DEF WinTyped, WorkRight
  <2>5. RefsRight'
    BY <1>0, <2>1, <2>2, <2>3 DEF RefsRight
  <2>6. Flowing'
    BY <1>0, <2>2, <2>3, FlowKept DEF SameFlow
  <2>7. Delivered(wimpl.events, wlog.pushed, wlog.got, Held(wasync.ev))'
    BY <1>0, <2>1, <2>2, <2>3
  <2> QED
    BY <2>3, <2>4, <2>5, <2>6, <2>7 DEF WinInv
<1>2. CASE WorkRelease
  <2>1. Release(wimpl, "work") /\ UNCHANGED <<wbuf, wasync, wlog>>
    BY <1>2 DEF WorkRelease
  <2>2. /\ wwork' \in Works /\ wwork.pc = "release" /\ wwork'.pc = "loop"
        /\ wwork'.key = wwork.key /\ wwork'.changes = wwork.changes
    BY <1>0, <1>2 DEF WorkRelease, Works
  <2>3. /\ wimpl' \in Impls /\ wimpl'.refs = wimpl.refs \ {"work"} /\ wimpl'.run = wimpl.run
        /\ wimpl'.events = wimpl.events /\ wimpl'.dirs = wimpl.dirs
        /\ wkeys' \in [WHandles -> KeyStates] /\ wopen' \subseteq WHandles /\ wport' \in Seq(Completions)
        /\ InPort(wkeys', wport') /\ InWork' /\ DirsRight' /\ EndsByOverflow'
        /\ \A n \in DOMAIN wport' : wport'[n].changes = <<>> \/ \E m \in DOMAIN wport : wport'[n] = wport[m]
    BY <1>0, <2>1, <2>2, ReleaseKeeps DEF Holders
  <2>4. WinTyped'
    BY <1>0, <2>1, <2>2, <2>3 DEF WinTyped
  <2>5. WorkRight'
    BY <1>0, <2>2 DEF WorkRight
  <2>6. RefsRight'
    BY <1>0, <2>1, <2>3 DEF RefsRight
  <2>7. Flowing'
    BY <1>0, <2>1, <2>2, <2>3, FlowKept DEF SameFlow
  <2>8. Delivered(wimpl.events, wlog.pushed, wlog.got, Held(wasync.ev))'
    BY <1>0, <2>1, <2>3
  <2> QED
    BY <2>3, <2>4, <2>5, <2>6, <2>7, <2>8 DEF WinInv
<1>3. CASE AsyncPost
  <2> DEFINE e == wasync.ev
             g == IF e = <<>> THEN wlog.got ELSE Append(wlog.got, e)
  <2>1. Release(wimpl, "async") /\ UNCHANGED <<wbuf, wwork>> /\ wasync.pc = "post"
    BY <1>3 DEF AsyncPost
  <2>2. e \in Changes \cup {<<>>} /\ wlog.got \in Seq(Changes)
    BY <1>0 DEF Asyncs, WinLogs
  <2>3. g \in Seq(Changes)
    BY <2>2, AppendProperties
  <2>4. wlog' = [wlog EXCEPT !.got = g]
    BY <1>3 DEF AsyncPost
  <2>5. /\ wasync' \in Asyncs /\ wasync'.pc = "idle" /\ wasync'.ev = <<>>
    BY <1>0, <1>3 DEF AsyncPost, Asyncs
  <2>6. Delivered(wimpl.events, wlog.pushed, g, <<>>)
    <3>1. CASE e = <<>>
      BY <1>0, <3>1, SetOfHeld
    <3>2. CASE e # <<>>
      <4>1. e \in Changes /\ Held(e) = <<e>>
        BY <2>2, <3>2 DEF Held
      <4>2. Delivered(wimpl.events, wlog.pushed, wlog.got, <<e>>)
        BY <1>0, <4>1
      <4>3. Delivered(wimpl.events, wlog.pushed, Append(wlog.got, e), <<>>)
        <5> HIDE DEF e, g
        <5> QED
          BY <2>2, <4>1, <4>2, HeldToGot
      <4> QED
        BY <3>2, <4>3
    <3> QED
      BY <3>1, <3>2
  <2> HIDE DEF g, e
  <2>7. /\ wlog' \in WinLogs /\ wlog'.got = g /\ wlog'.pushed = wlog.pushed
        /\ wlog'.changes = wlog.changes /\ wlog'.overflowed = wlog.overflowed
    BY <1>0, <2>3, <2>4 DEF WinLogs
  <2>8. /\ wimpl' \in Impls /\ wimpl'.refs = wimpl.refs \ {"async"} /\ wimpl'.run = wimpl.run
        /\ wimpl'.events = wimpl.events /\ wimpl'.dirs = wimpl.dirs
        /\ wkeys' \in [WHandles -> KeyStates] /\ wopen' \subseteq WHandles /\ wport' \in Seq(Completions)
        /\ InPort(wkeys', wport') /\ InWork' /\ DirsRight' /\ EndsByOverflow'
        /\ \A n \in DOMAIN wport' : wport'[n].changes = <<>> \/ \E m \in DOMAIN wport : wport'[n] = wport[m]
    BY <1>0, <2>1, <2>7, ReleaseKeeps DEF Holders
  <2>9. WinTyped'
    BY <1>0, <2>1, <2>5, <2>7, <2>8 DEF WinTyped
  <2>10. WorkRight' /\ RefsRight'
    BY <1>0, <2>1, <2>5, <2>8 DEF WorkRight, RefsRight
  <2>11. Flowing'
    BY <1>0, <2>1, <2>7, <2>8, FlowKept DEF SameFlow
  <2>12. Delivered(wimpl.events, wlog.pushed, wlog.got, Held(wasync.ev))'
    <3>1. Held(wasync'.ev) = <<>>
      BY <2>5, SetOfHeld
    <3> QED
      BY <2>6, <2>7, <2>8, <3>1
  <2> QED
    BY <2>8, <2>9, <2>10, <2>11, <2>12 DEF WinInv
<1> QED
  BY <1>1, <1>2, <1>3

\* An operation starts and takes an event.
LEMMA AsyncStep ==
  ASSUME WinInv, wwork.pc # "thrown", AsyncStart \/ AsyncPop
  PROVE  WinInv'
<1>0. /\ wimpl \in Impls /\ wasync \in Asyncs /\ wlog \in WinLogs
      /\ WinTyped /\ InPort(wkeys, wport) /\ InWork /\ DirsRight /\ EndsByOverflow /\ Flowing
      /\ WorkRight /\ RefsRight
      /\ Delivered(wimpl.events, wlog.pushed, wlog.got, Held(wasync.ev))
  BY DEF WinTyped, WinInv
<1>1. UNCHANGED <<wkeys, wopen, wbuf, wport, wwork, wlog>>
  BY DEF AsyncStart, AsyncPop
<1>2. InPort(wkeys, wport)' /\ InWork' /\ WorkRight' /\ Flowing'
  <2>1. Flowing'
    BY <1>0, <1>1, FlowKept DEF SameFlow
  <2> QED
    BY <1>0, <1>1, <2>1 DEF InWork, WorkRight
<1>3. CASE AsyncStart
  <2> DEFINE x == IF Free(wimpl) THEN wimpl.refs ELSE wimpl.refs \cup {"async"}
             v == wasync.queue - 1
             s == IF Free(wimpl) THEN "post" ELSE "pop"
  <2>1. x \in SUBSET Holders /\ (x = {} <=> wimpl.refs = {}) /\ wimpl.refs \subseteq x /\ (s = "pop" => "async" \in x)
    BY <1>0 DEF Impls, Holders, Free
  <2>2. v \in Nat
    BY <1>0, <1>3 DEF AsyncStart, Asyncs
  <2>3. wasync' = [wasync EXCEPT !.queue = v, !.pc = s] /\ wasync.pc = "idle"
    BY <1>3 DEF AsyncStart
  <2>4. s \in {"pop", "post"}
    OBVIOUS
  <2>5. /\ wimpl' \in Impls /\ wimpl'.refs = x /\ wimpl'.run = wimpl.run
        /\ wimpl'.events = wimpl.events /\ wimpl'.dirs = wimpl.dirs
    <3>1. CASE Free(wimpl)
      BY <1>0, <1>3, <3>1 DEF AsyncStart
    <3>2. CASE ~Free(wimpl)
      BY <1>0, <1>3, <2>1, <3>2 DEF AsyncStart, Impls
    <3> QED
      BY <3>1, <3>2
  <2> HIDE DEF x, v, s
  <2>6. wasync' \in Asyncs /\ wasync'.pc = s /\ wasync'.ev = wasync.ev
    BY <1>0, <2>2, <2>3, <2>4 DEF Asyncs
  <2>7. WinTyped'
    BY <1>0, <1>1, <2>5, <2>6 DEF WinTyped
  <2>8. DirHandles' = DirHandles /\ (Free(wimpl') <=> Free(wimpl))
    BY <2>1, <2>5 DEF DirHandles, Free
  <2>9. DirsRight' /\ EndsByOverflow'
    BY <1>0, <1>1, <2>5, <2>8 DEF DirsRight, EndsByOverflow
  <2>10. RefsRight'
    BY <1>0, <2>1, <2>3, <2>4, <2>5, <2>6 DEF RefsRight
  <2>11. Delivered(wimpl.events, wlog.pushed, wlog.got, Held(wasync.ev))'
    BY <1>0, <1>1, <2>5, <2>6
  <2> QED
    BY <1>2, <2>7, <2>9, <2>10, <2>11 DEF WinInv
<1>4. CASE AsyncPop
  <2> DEFINE ev == wimpl.events
             e == Popped(wimpl)
  <2>1. ev \in Seq(Changes) /\ wlog.got \in Seq(Changes) /\ wlog.pushed \in Seq(Changes) /\ wasync.ev = <<>>
    BY <1>0, <1>4 DEF Impls, WinLogs, RefsRight, AsyncPop
  <2>2. Delivered(ev, wlog.pushed, wlog.got, <<>>)
    BY <1>0, <2>1, SetOfHeld
  <2>3. /\ wimpl' \in Impls /\ wimpl'.refs = wimpl.refs /\ wimpl'.run = wimpl.run /\ wimpl'.dirs = wimpl.dirs
        /\ e \in Changes \cup {<<>>}
        /\ Delivered(wimpl'.events, wlog.pushed, wlog.got, Held(e))
    <3>1. CASE ev = <<>>
      <4>1. wimpl' = wimpl /\ e = <<>>
        BY <1>4, <3>1 DEF AsyncPop, popfront_event, Popped
      <4> QED
        BY <1>0, <2>2, <4>1, SetOfHeld
    <3>2. CASE ev # <<>>
      <4> DEFINE t == Tail(ev)
                 h == Head(ev)
      <4>1. t \in Seq(Changes) /\ h \in Changes
        BY <2>1, <3>2, HeadTailProperties
      <4>2. Delivered(t, wlog.pushed, wlog.got, <<h>>)
        <5> HIDE DEF ev
        <5> QED
          BY <2>1, <2>2, <3>2, PopToHeld
      <4>3. e = h /\ wimpl' = [wimpl EXCEPT !.events = t]
        BY <1>4, <3>2 DEF AsyncPop, popfront_event, Popped
      <4> HIDE DEF t, h, e
      <4>4. Held(e) = <<h>>
        BY <4>1, <4>3, SetOfHeld
      <4>5. /\ wimpl' \in Impls /\ wimpl'.refs = wimpl.refs /\ wimpl'.run = wimpl.run
            /\ wimpl'.dirs = wimpl.dirs /\ wimpl'.events = t
        BY <1>0, <4>1, <4>3 DEF Impls
      <4> QED
        BY <4>1, <4>2, <4>3, <4>4, <4>5
    <3> QED
      BY <3>1, <3>2
  <2>4. wasync' = [wasync EXCEPT !.pc = "post", !.ev = e]
    BY <1>4 DEF AsyncPop
  <2> HIDE DEF e, ev
  <2>5. wasync' \in Asyncs /\ wasync'.pc = "post" /\ wasync'.ev = e
    BY <1>0, <2>3, <2>4 DEF Asyncs
  <2>6. WinTyped'
    BY <1>0, <1>1, <2>3, <2>5 DEF WinTyped
  <2>7. DirHandles' = DirHandles /\ (Free(wimpl') <=> Free(wimpl))
    BY <2>3 DEF DirHandles, Free
  <2>8. DirsRight' /\ EndsByOverflow' /\ RefsRight'
    BY <1>0, <1>1, <2>3, <2>5, <2>7 DEF DirsRight, EndsByOverflow, RefsRight
  <2>9. Delivered(wimpl.events, wlog.pushed, wlog.got, Held(wasync.ev))'
    BY <1>1, <2>3, <2>5
  <2> QED
    BY <1>2, <2>6, <2>8, <2>9 DEF WinInv
<1> QED
  BY <1>3, <1>4

-----------------------------------------------------------------------------
(* Steps that move changes.                                                *)

\* The work thread takes a completion.
LEMMA GetStep ==
  ASSUME WinInv, WorkGet
  PROVE  WinInv'
<1>0. /\ wimpl \in Impls /\ wport \in Seq(Completions) /\ wkeys \in [WHandles -> KeyStates]
      /\ WinTyped /\ InPort(wkeys, wport) /\ InWork /\ DirsRight /\ EndsByOverflow /\ Flowing
      /\ WorkRight /\ RefsRight
      /\ Delivered(wimpl.events, wlog.pushed, wlog.got, Held(wasync.ev))
  BY DEF WinTyped, WinInv
<1> DEFINE c == Head(wport)
           k == c.key
           q == Tail(wport)
           drop == k # WNull /\ (c.changes = <<>> \/ Free(wimpl))
<1>1. /\ wwork.pc = "loop" /\ wport # <<>> /\ wport' = q
      /\ wkeys' = IF k = WNull THEN wkeys ELSE [wkeys EXCEPT ![k] = IF drop THEN "deleted" ELSE "work"]
      /\ wwork' = IF k = WNull \/ drop THEN wwork ELSE [pc |-> "push", key |-> k, changes |-> c.changes]
      /\ wimpl' = IF k = WNull \/ drop THEN wimpl ELSE [wimpl EXCEPT !.refs = @ \cup {"work"}]
      /\ UNCHANGED <<wopen, wbuf, wasync, wsvc, wlog>>
  BY DEF WorkGet
<1>2. TakenFrom(wkeys, wport, "deleted") /\ TakenFrom(wkeys, wport, "work")
  BY <1>0, <1>1, Taken DEF KeyStates
<1>3. /\ q \in Seq(Completions) /\ c \in Completions /\ 1 \in DOMAIN wport /\ c = wport[1]
      /\ k # WNull => k \in WHandles /\ wkeys[k] = "queued"
      /\ \A n \in DOMAIN q : n + 1 \in DOMAIN wport /\ n + 1 # 1 /\ q[n] = wport[n + 1]
  BY <1>2 DEF TakenFrom
<1>4. /\ k = WNull => InPort(wkeys, q)
      /\ k # WNull => /\ InPort([wkeys EXCEPT ![k] = "deleted"], q) /\ InPort([wkeys EXCEPT ![k] = "work"], q)
                      /\ [wkeys EXCEPT ![k] = "deleted"] \in [WHandles -> KeyStates]
                      /\ [wkeys EXCEPT ![k] = "work"] \in [WHandles -> KeyStates]
  BY <1>2 DEF TakenFrom
<1>5. c.changes \in Seq(Changes)
  BY <1>3 DEF Completions
<1>6. wwork.key = WNull /\ wwork.changes = <<>> /\ \A h \in WHandles : wkeys[h] # "work"
  BY <1>0, <1>1, HandlesAssumption DEF WorkRight, InWork, WHandles, WNull
<1> HIDE DEF c, q
<1>7. CASE k = WNull \/ drop
  <2>1. wwork' = wwork /\ wimpl' = wimpl /\ UNCHANGED <<wopen, wbuf, wasync, wlog>>
    BY <1>1, <1>7
  <2>2. /\ InPort(wkeys', wport') /\ wkeys' \in [WHandles -> KeyStates]
        /\ \A h \in WHandles : wkeys'[h] = wkeys[h] \/ (h = k /\ wkeys'[h] = "deleted" /\ drop)
    <3>1. CASE k = WNull
      BY <1>0, <1>1, <1>4, <3>1
    <3>2. CASE k # WNull
      BY <1>0, <1>1, <1>3, <1>4, <1>7, <3>2
    <3> QED
      BY <3>1, <3>2
  <2>3. WinTyped'
    BY <1>0, <1>1, <1>3, <2>1, <2>2 DEF WinTyped
  <2>4. InWork'
    BY <1>0, <1>6, <2>1, <2>2, HandlesAssumption DEF InWork, WHandles, WNull
  <2>5. WorkRight' /\ RefsRight'
    BY <1>0, <2>1 DEF WorkRight, RefsRight
  <2>6. DirHandles' = DirHandles /\ (Free(wimpl') <=> Free(wimpl))
    BY <2>1 DEF DirHandles
  <2>7. DirsRight'
    BY <1>0, <2>1, <2>2, <2>6 DEF DirsRight
  <2>8. EndsByOverflow'
    <3>1. ASSUME NEW h \in WHandles, wkeys'[h] = "deleted", h \in DirHandles, ~Free(wimpl)
          PROVE  h \in wlog.overflowed
      <4>1. CASE wkeys[h] = "deleted"
        BY <1>0, <1>1, <3>1, <4>1 DEF EndsByOverflow
      <4>2. CASE h = k /\ drop
        BY <1>0, <1>3, <3>1, <4>2 DEF EndsByOverflow
      <4> QED
        BY <2>2, <3>1, <4>1, <4>2
    <3>2. ASSUME NEW n \in DOMAIN q, q[n].changes = <<>>, q[n].key \in DirHandles, ~Free(wimpl)
          PROVE  q[n].key \in wlog.overflowed
      BY <1>0, <1>3, <3>2 DEF EndsByOverflow
    <3> QED
      BY <1>1, <2>1, <2>6, <3>1, <3>2 DEF EndsByOverflow
  <2>9. Flowing'
    BY <1>0, <1>1, <1>3, <2>1, FlowKept DEF SameFlow
  <2>10. Delivered(wimpl.events, wlog.pushed, wlog.got, Held(wasync.ev))'
    BY <1>0, <2>1
  <2> QED
    BY <2>2, <2>3, <2>4, <2>5, <2>7, <2>8, <2>9, <2>10 DEF WinInv
<1>8. CASE ~(k = WNull \/ drop)
  <2> DEFINE x == wimpl.refs \cup {"work"}
  <2>1. /\ wwork' = [pc |-> "push", key |-> k, changes |-> c.changes]
        /\ wimpl' = [wimpl EXCEPT !.refs = x] /\ wkeys' = [wkeys EXCEPT ![k] = "work"]
        /\ UNCHANGED <<wopen, wbuf, wasync, wlog>>
    BY <1>1, <1>8
  <2>2. k \in WHandles /\ wkeys[k] = "queued" /\ c.changes # <<>> /\ ~Free(wimpl) /\ k # WNull
    BY <1>3, <1>8
  <2>3. x \in SUBSET Holders /\ x # {} /\ wimpl.refs \subseteq x
    BY <1>0 DEF Impls, Holders
  <2>4. /\ wwork' \in Works /\ wwork'.pc = "push" /\ wwork'.key = k /\ wwork'.changes = c.changes
    BY <1>5, <2>1, <2>2 DEF Works
  <2> HIDE DEF x
  <2>5. /\ wimpl' \in Impls /\ wimpl'.refs = x /\ wimpl'.run = wimpl.run
        /\ wimpl'.events = wimpl.events /\ wimpl'.dirs = wimpl.dirs
    BY <1>0, <2>1, <2>3 DEF Impls
  <2>6. /\ InPort(wkeys', wport') /\ wkeys' \in [WHandles -> KeyStates]
        /\ \A h \in WHandles : wkeys'[h] = IF h = k THEN "work" ELSE wkeys[h]
    BY <1>0, <1>1, <1>4, <2>1, <2>2
  <2>7. WinTyped'
    BY <1>0, <1>1, <1>3, <2>1, <2>4, <2>5, <2>6 DEF WinTyped
  <2>8. InWork'
    BY <1>6, <2>4, <2>6 DEF InWork
  <2>9. WorkRight'
    BY <2>2, <2>4 DEF WorkRight
  <2>10. RefsRight'
    BY <1>0, <2>1, <2>3, <2>5 DEF RefsRight
  <2>11. DirHandles' = DirHandles /\ ~Free(wimpl')
    BY <2>3, <2>5 DEF DirHandles, Free
  <2>12. DirsRight'
    BY <1>0, <2>1, <2>2, <2>5, <2>6, <2>11 DEF DirsRight
  <2>13. EndsByOverflow'
    BY <1>0, <1>1, <1>3, <2>1, <2>2, <2>6, <2>11 DEF EndsByOverflow
  <2>14. Flowing'
    <3>1. Batch(c.changes, k, wlog.pushed, wlog.changes) /\ AllBefore(c.changes)
      BY <1>0, <1>3 DEF Flowing
    <3>2. \A n \in DOMAIN q : Batch(q[n].changes, q[n].key, wlog.pushed, wlog.changes) /\ AllBefore(q[n].changes)
      BY <1>0, <1>3 DEF Flowing
    <3> QED
      BY <1>0, <1>1, <2>1, <2>4, <3>1, <3>2 DEF Flowing, Buffered, AllBefore
  <2>15. Delivered(wimpl.events, wlog.pushed, wlog.got, Held(wasync.ev))'
    BY <1>0, <2>1, <2>5
  <2> QED
    BY <2>6, <2>7, <2>8, <2>9, <2>10, <2>12, <2>13, <2>14, <2>15 DEF WinInv
<1> QED
  BY <1>7, <1>8

\* The work thread pushes a change.
LEMMA PushStep ==
  ASSUME WinInv, WorkPush
  PROVE  WinInv'
<1>0. /\ wimpl \in Impls /\ wwork \in Works /\ wlog \in WinLogs
      /\ WinTyped /\ InPort(wkeys, wport) /\ InWork /\ DirsRight /\ EndsByOverflow /\ Flowing
      /\ WorkRight /\ RefsRight
      /\ Delivered(wimpl.events, wlog.pushed, wlog.got, Held(wasync.ev))
  BY DEF WinTyped, WinInv
<1> DEFINE s == wwork.changes
           e == Head(s)
           t == Tail(s)
           p == IF Len(s) = 1 THEN "rearm" ELSE "push"
<1>1. /\ wwork.pc = "push" /\ wwork' = [wwork EXCEPT !.changes = t, !.pc = p]
      /\ wimpl' = pushback_event(wimpl, e)
      /\ wlog' = [wlog EXCEPT !.pushed = IF wimpl.run THEN Append(@, e) ELSE @]
      /\ UNCHANGED <<wkeys, wopen, wbuf, wport, wasync, wsvc>>
  BY DEF WorkPush
<1>2. s \in Seq(Changes) /\ s # <<>>
  BY <1>0, <1>1 DEF Works, WorkRight
<1>3. e \in Changes /\ t \in Seq(Changes) /\ (t = <<>> <=> Len(s) = 1)
  <2>1. e \in Changes /\ t \in Seq(Changes) /\ Len(t) = Len(s) - 1 /\ Len(s) \in Nat
    BY <1>2, HeadTailProperties, LenProperties
  <2>2. t = <<>> <=> Len(t) = 0
    <3> HIDE DEF t
    <3> QED
      BY <2>1, EmptySeq
  <2> QED
    BY <2>1, <2>2
<1>4. /\ Rising(s) => Rising(t) /\ Ahead(e, t)
      /\ \A u : Before(s, u) => Before(t, u) /\ Ahead(e, u)
      /\ \A u : Before(u, s) => Before(u, t) /\ After(e, u)
      /\ \A n : UpTo(s, n) => UpTo(t, n) /\ e[2] <= n
      /\ \A h : OfHandle(s, h) => OfHandle(t, h) /\ e[1] = h
  BY <1>2, TailOrder
<1>5. p \in {"push", "rearm"} /\ (p = "push" <=> t # <<>>)
  BY <1>3
<1> HIDE DEF s, e, t, p
<1>6. /\ wwork' \in Works /\ wwork'.pc = p /\ wwork'.key = wwork.key /\ wwork'.changes = t
  BY <1>0, <1>1, <1>3, <1>5 DEF Works
<1>7. Batch(s, wwork.key, wlog.pushed, wlog.changes) /\ AllBefore(s)
  BY <1>0 DEF Flowing, s
<1>8. /\ OfHandle(t, wwork.key) /\ Rising(t) /\ UpTo(t, wlog.changes) /\ AllBefore(t) /\ Before(wlog.pushed, t)
      /\ After(e, wlog.pushed) /\ Ahead(e, t) /\ e[2] <= wlog.changes /\ e[1] = wwork.key
      /\ \A h \in WHandles : Ahead(e, wbuf[h])
  BY <1>4, <1>7 DEF Batch, AllBefore
<1>9. InPort(wkeys, wport)' /\ InWork' /\ WorkRight'
  BY <1>0, <1>1, <1>5, <1>6 DEF InWork, WorkRight
<1>10. /\ wimpl'.refs = wimpl.refs /\ wimpl'.run = wimpl.run /\ wimpl'.dirs = wimpl.dirs /\ wimpl' \in Impls
       /\ wlog'.got = wlog.got /\ wlog'.changes = wlog.changes /\ wlog'.overflowed = wlog.overflowed /\ wlog' \in WinLogs
       /\ \/ /\ wimpl'.events = Append(wimpl.events, e) /\ wlog'.pushed = Append(wlog.pushed, e)
          \/ wimpl'.events = wimpl.events /\ wlog'.pushed = wlog.pushed
  <2>1. CASE wimpl.run
    <3> DEFINE v == Append(wimpl.events, e)
               w == Append(wlog.pushed, e)
    <3>1. v \in Seq(Changes) /\ w \in Seq(Changes)
      BY <1>0, <1>3, AppendProperties DEF Impls, WinLogs
    <3>2. wimpl' = [wimpl EXCEPT !.events = v] /\ wlog' = [wlog EXCEPT !.pushed = w]
      BY <1>1, <2>1 DEF pushback_event
    <3> HIDE DEF v, w
    <3>3. /\ wimpl'.refs = wimpl.refs /\ wimpl'.run = wimpl.run /\ wimpl'.dirs = wimpl.dirs /\ wimpl' \in Impls
          /\ wimpl'.events = v
      BY <1>0, <3>1, <3>2 DEF Impls
    <3>4. /\ wlog'.got = wlog.got /\ wlog'.changes = wlog.changes /\ wlog'.overflowed = wlog.overflowed /\ wlog' \in WinLogs
          /\ wlog'.pushed = w
      BY <1>0, <3>1, <3>2 DEF WinLogs
    <3> QED
      BY <3>3, <3>4 DEF v, w
  <2>2. CASE ~wimpl.run
    <3>1. wimpl' = wimpl /\ wlog' = wlog
      BY <1>0, <1>1, <2>2 DEF pushback_event, WinLogs
    <3> QED
      BY <1>0, <3>1
  <2> QED
    BY <2>1, <2>2
<1>11. WinTyped'
  BY <1>0, <1>1, <1>6, <1>10 DEF WinTyped
<1>12. DirHandles' = DirHandles /\ (Free(wimpl') <=> Free(wimpl))
  BY <1>10 DEF DirHandles, Free
<1>13. DirsRight' /\ EndsByOverflow' /\ RefsRight'
  BY <1>0, <1>1, <1>10, <1>12 DEF DirsRight, EndsByOverflow, RefsRight
<1>14. \A n \in DOMAIN wport : Ahead(e, wport[n].changes)
  <2>1. ASSUME NEW n \in DOMAIN wport
        PROVE  wport[n].key # wwork.key
    <3>1. wwork.key # WNull /\ wwork.key \in WHandles /\ wkeys[wwork.key] = "work"
      BY <1>0, <1>1 DEF WorkRight, Works, InWork
    <3> QED
      BY <1>0, <3>1 DEF InPort
  <2>2. \A n \in DOMAIN wport : OfHandle(wport[n].changes, wport[n].key)
    BY <1>0 DEF Flowing, Batch
  <2> QED
    BY <1>8, <2>1, <2>2 DEF Ahead, OfHandle
<1>15. Flowing'
  <2>1. CASE wlog'.pushed = wlog.pushed
    BY <1>0, <1>1, <1>6, <1>8, <1>10, <2>1 DEF Flowing, Buffered, Batch, AllBefore
  <2>2. CASE wlog'.pushed = Append(wlog.pushed, e)
    <3> DEFINE w == Append(wlog.pushed, e)
    <3>1. wlog.pushed \in Seq(Changes) /\ Rising(wlog.pushed) /\ UpTo(wlog.pushed, wlog.changes)
      BY <1>0 DEF WinLogs, Flowing
    <3>2. /\ Rising(w) /\ UpTo(w, wlog.changes)
          /\ \A u : Before(wlog.pushed, u) /\ Ahead(e, u) => Before(w, u)
      BY <1>3, <1>8, <3>1, AppendOrder
    <3> HIDE DEF w
    <3>3. Before(w, t) /\ \A h \in WHandles : Before(w, wbuf[h])
      BY <1>0, <1>8, <3>2 DEF Flowing, Buffered, Batch
    <3>4. \A n \in DOMAIN wport : Before(w, wport[n].changes)
      BY <1>0, <1>14, <3>2 DEF Flowing, Batch
    <3>5. wlog'.pushed = w
      BY <2>2 DEF w
    <3>6. Buffered' /\ Rising(wlog'.pushed) /\ UpTo(wlog'.pushed, wlog'.changes)
      BY <1>0, <1>1, <1>10, <3>2, <3>3, <3>5 DEF Flowing, Buffered, Batch
    <3>7. Batch(wwork'.changes, wwork'.key, wlog'.pushed, wlog'.changes) /\ AllBefore(wwork.changes)'
      BY <1>1, <1>6, <1>8, <1>10, <3>3, <3>5 DEF Batch, AllBefore
    <3>8. \A n \in DOMAIN wport' : /\ Batch(wport'[n].changes, wport'[n].key, wlog'.pushed, wlog'.changes)
                                   /\ \A h \in WHandles : Before(wport'[n].changes, wbuf'[h])
      BY <1>0, <1>1, <1>10, <3>4, <3>5 DEF Flowing, Batch, AllBefore
    <3> QED
      BY <3>6, <3>7, <3>8 DEF Flowing, AllBefore
  <2> QED
    BY <1>10, <2>1, <2>2
<1>16. Delivered(wimpl.events, wlog.pushed, wlog.got, Held(wasync.ev))'
  <2>1. wimpl.events \in Seq(Changes) /\ wlog.pushed \in Seq(Changes)
    BY <1>0 DEF Impls, WinLogs
  <2>2. Delivered(Append(wimpl.events, e), Append(wlog.pushed, e), wlog.got, Held(wasync.ev))
    BY <1>0, <1>3, <2>1, PushWaits
  <2> QED
    BY <1>0, <1>1, <1>10, <2>2
<1> QED
  BY <1>9, <1>11, <1>13, <1>15, <1>16 DEF WinInv

\* The work thread asks for the next changes, or ends.
LEMMA RearmStep ==
  ASSUME WinInv, WorkRearm \/ WorkEnd
  PROVE  WinInv'
<1>0. /\ wwork \in Works /\ wport \in Seq(Completions) /\ wkeys \in [WHandles -> KeyStates]
      /\ WinTyped /\ InPort(wkeys, wport) /\ InWork /\ DirsRight /\ EndsByOverflow /\ Flowing
      /\ WorkRight /\ RefsRight
      /\ Delivered(wimpl.events, wlog.pushed, wlog.got, Held(wasync.ev))
  BY DEF WinTyped, WinInv
<1>1. UNCHANGED <<wimpl, wopen, wbuf, wport, wasync, wlog>>
  BY DEF WorkRearm, WorkEnd
<1>2. RefsRight' /\ DirHandles' = DirHandles
      /\ Delivered(wimpl.events, wlog.pushed, wlog.got, Held(wasync.ev))'
  BY <1>0, <1>1 DEF RefsRight, DirHandles
<1>3. CASE WorkEnd
  <2>1. /\ wwork' \in Works /\ wwork'.pc = "ended" /\ wwork.pc = "loop" /\ wwork'.key = wwork.key
        /\ wwork'.changes = wwork.changes /\ wkeys' = wkeys
    BY <1>0, <1>3 DEF WorkEnd, Works
  <2>2. WinTyped'
    BY <1>0, <1>1, <2>1 DEF WinTyped
  <2>3. InPort(wkeys, wport)' /\ InWork' /\ WorkRight'
    BY <1>0, <1>1, <2>1 DEF InWork, WorkRight
  <2>4. DirsRight' /\ EndsByOverflow'
    BY <1>0, <1>1, <1>2, <2>1 DEF DirsRight, EndsByOverflow
  <2>5. Flowing'
    BY <1>0, <1>1, <2>1, FlowKept DEF SameFlow
  <2> QED
    BY <1>2, <2>2, <2>3, <2>4, <2>5 DEF WinInv
<1>4. CASE WorkRearm
  <2> DEFINE k == wwork.key
             s == IF k \in wopen THEN "reading" ELSE "deleted"
             p == IF k \in wopen THEN "release" ELSE "thrown"
  <2>1. /\ wwork.pc = "rearm" /\ wkeys' = [wkeys EXCEPT ![k] = s]
        /\ wwork' = [pc |-> p, key |-> WNull, changes |-> <<>>]
    BY <1>4 DEF WorkRearm
  <2>2. k \in WHandles /\ wkeys[k] = "work" /\ wwork.changes = <<>>
    BY <1>0, <2>1 DEF WorkRight, Works, InWork
  <2>3. /\ wwork' \in Works /\ wwork'.pc = p /\ wwork'.key = WNull /\ wwork'.changes = <<>>
    BY <2>1, EmptySeq DEF Works
  <2>4. s \in {"reading", "deleted"}
    OBVIOUS
  <2>5. /\ wkeys' \in [WHandles -> KeyStates] /\ InPort(wkeys', wport)
        /\ \A g \in WHandles : wkeys'[g] = IF g = k THEN s ELSE wkeys[g]
    <3> HIDE DEF s
    <3> QED
      BY <1>0, <2>1, <2>2, <2>4, KeyMoves DEF KeyStates
  <2>6. WinTyped'
    BY <1>0, <1>1, <2>3, <2>5 DEF WinTyped
  <2>7. WNull \notin WHandles
    BY HandlesAssumption DEF WHandles, WNull
  <2>8. InWork'
    BY <1>0, <2>3, <2>4, <2>5, <2>7 DEF InWork
  <2>9. WorkRight'
    BY <2>3 DEF WorkRight
  <2>10. DirsRight'
    BY <1>0, <1>1, <1>2, <2>5 DEF DirsRight
  <2>11. EndsByOverflow'
    <3>1. wwork.pc # "thrown"
      BY <2>1
    <3> QED
      BY <1>0, <1>1, <1>2, <2>3, <2>5, <3>1 DEF EndsByOverflow
  <2>12. Flowing'
    <3>1. Batch(wwork.changes, wwork.key, wlog.pushed, wlog.changes)' /\ AllBefore(wwork.changes)'
      BY <1>1, <2>3, NoChanges DEF AllBefore
    <3> QED
      BY <1>0, <1>1, <3>1 DEF Flowing, Buffered, AllBefore
  <2> QED
    BY <1>1, <1>2, <2>5, <2>6, <2>8, <2>9, <2>10, <2>11, <2>12 DEF WinInv
<1> QED
  BY <1>3, <1>4

\* A directory changes.
LEMMA ChangeStep ==
  ASSUME WinInv, NEW h \in WHandles, Change(h)
  PROVE  WinInv'
<1>0. /\ wlog \in WinLogs /\ wbuf \in [WHandles -> Seq(Changes)]
      /\ WinTyped /\ InPort(wkeys, wport) /\ InWork /\ DirsRight /\ EndsByOverflow /\ Flowing
      /\ WorkRight /\ RefsRight
      /\ Delivered(wimpl.events, wlog.pushed, wlog.got, Held(wasync.ev))
  BY DEF WinTyped, WinInv
<1> DEFINE n == wlog.changes
           m == wlog.changes + 1
           e == <<h, m>>
           b == Append(wbuf[h], e)
<1>1. /\ wbuf' = [wbuf EXCEPT ![h] = b] /\ wlog' = [wlog EXCEPT !.changes = m]
      /\ UNCHANGED <<wimpl, wkeys, wopen, wport, wwork, wasync>>
  BY DEF Change
<1>2. n \in Nat /\ m \in Nat /\ n <= m /\ n < m
  BY <1>0 DEF WinLogs
<1> HIDE DEF m
<1>3. e \in Changes /\ e[1] = h /\ e[2] = m /\ wbuf[h] \in Seq(Changes)
  BY <1>0, <1>2 DEF Changes
<1> HIDE DEF e
<1>4. b \in Seq(Changes)
  BY <1>3, AppendProperties
<1>5. /\ Rising(wbuf[h]) /\ After(e, wbuf[h]) => Rising(b)
      /\ \A u : Before(u, wbuf[h]) /\ After(e, u) => Before(u, b)
      /\ \A k : UpTo(wbuf[h], k) /\ e[2] <= k => UpTo(b, k)
      /\ \A g : OfHandle(wbuf[h], g) /\ e[1] = g => OfHandle(b, g)
  BY <1>3, AppendOrder
<1> HIDE DEF b
<1>6. /\ wlog' \in WinLogs /\ wlog'.changes = m /\ wlog'.pushed = wlog.pushed
      /\ wlog'.got = wlog.got /\ wlog'.overflowed = wlog.overflowed
  BY <1>0, <1>1, <1>2 DEF WinLogs
<1>7. wbuf' \in [WHandles -> Seq(Changes)] /\ \A g \in WHandles : wbuf'[g] = IF g = h THEN b ELSE wbuf[g]
  BY <1>0, <1>1, <1>4
<1>8. WinTyped'
  BY <1>0, <1>1, <1>6, <1>7 DEF WinTyped
<1>9. InPort(wkeys, wport)' /\ InWork' /\ WorkRight' /\ RefsRight'
  BY <1>0, <1>1 DEF InWork, WorkRight, RefsRight
<1>10. DirsRight' /\ EndsByOverflow'
  BY <1>0, <1>1, <1>6 DEF DirsRight, EndsByOverflow, DirHandles
<1>11. Delivered(wimpl.events, wlog.pushed, wlog.got, Held(wasync.ev))'
  BY <1>0, <1>1, <1>6
<1>12. ASSUME NEW s \in Seq(Changes), UpTo(s, n)
       PROVE  After(e, s) /\ UpTo(s, m)
  <2>1. \A i \in DOMAIN s : s[i][2] \in Nat
    <3>1. \A i \in DOMAIN s : s[i] \in Changes
      BY <1>12, ElementOfSeq, LenProperties
    <3> QED
      BY <3>1 DEF Changes
  <2> QED
    BY <1>2, <1>3, <1>12, <2>1 DEF UpTo, After
<1>13. /\ wlog.pushed \in Seq(Changes) /\ UpTo(wlog.pushed, n)
       /\ wwork.changes \in Seq(Changes) /\ UpTo(wwork.changes, n)
       /\ \A g \in WHandles : wbuf[g] \in Seq(Changes) /\ UpTo(wbuf[g], n)
       /\ \A k \in DOMAIN wport : wport[k].changes \in Seq(Changes) /\ UpTo(wport[k].changes, n)
  <2>1. wwork.changes \in Seq(Changes)
    BY <1>0 DEF WinTyped, Works
  <2>2. \A k \in DOMAIN wport : wport[k].changes \in Seq(Changes)
    <3>1. \A k \in DOMAIN wport : wport[k] \in Completions
      BY <1>0, ElementOfSeq, LenProperties DEF WinTyped
    <3> QED
      BY <3>1 DEF Completions
  <2> QED
    BY <1>0, <2>1, <2>2 DEF WinLogs, Flowing, Buffered, Batch
<1>14. Flowing'
  <2>1. Rising(wlog.pushed) /\ UpTo(wlog.pushed, m)
    BY <1>0, <1>12, <1>13 DEF Flowing
  <2>2. Rising(b) /\ UpTo(b, m) /\ OfHandle(b, h) /\ Before(wlog.pushed, b)
    <3>1. After(e, wbuf[h]) /\ UpTo(wbuf[h], m) /\ After(e, wlog.pushed)
      BY <1>12, <1>13
    <3>2. m <= m
      BY <1>2
    <3> QED
      BY <1>0, <1>3, <1>5, <3>1, <3>2 DEF Flowing, Buffered, Batch
  <2>3. \A g \in WHandles : Batch(wbuf'[g], g, wlog.pushed, m)
    BY <1>0, <1>7, <1>12, <1>13, <2>2 DEF Flowing, Buffered, Batch
  <2>4. ASSUME NEW s \in Seq(Changes), UpTo(s, n), \A g \in WHandles : Before(s, wbuf[g])
        PROVE  \A g \in WHandles : Before(s, wbuf'[g])
    <3>1. After(e, s)
      BY <1>12, <2>4
    <3> QED
      BY <1>5, <1>7, <2>4, <3>1
  <2>5. Batch(wwork.changes, wwork.key, wlog.pushed, m) /\ \A g \in WHandles : Before(wwork.changes, wbuf'[g])
    BY <1>0, <1>12, <1>13, <2>4 DEF Flowing, Batch, AllBefore
  <2>6. \A k \in DOMAIN wport : /\ Batch(wport[k].changes, wport[k].key, wlog.pushed, m)
                                /\ \A g \in WHandles : Before(wport[k].changes, wbuf'[g])
    BY <1>0, <1>12, <1>13, <2>4 DEF Flowing, Batch, AllBefore
  <2> QED
    BY <1>1, <1>6, <2>1, <2>3, <2>5, <2>6 DEF Flowing, Buffered, AllBefore
<1> QED
  BY <1>8, <1>9, <1>10, <1>11, <1>14 DEF WinInv

\* A read completes.
LEMMA CompleteStep ==
  ASSUME WinInv, NEW h \in WHandles, Complete(h)
  PROVE  WinInv'
<1>0. /\ wlog \in WinLogs /\ wbuf \in [WHandles -> Seq(Changes)] /\ wport \in Seq(Completions)
      /\ wkeys \in [WHandles -> KeyStates]
      /\ WinTyped /\ InPort(wkeys, wport) /\ InWork /\ DirsRight /\ EndsByOverflow /\ Flowing
      /\ WorkRight /\ RefsRight
      /\ Delivered(wimpl.events, wlog.pushed, wlog.got, Held(wasync.ev))
  BY DEF WinTyped, WinInv
<1> DEFINE s == IF Len(wbuf[h]) <= BufChanges THEN wbuf[h] ELSE <<>>
           o == IF Len(wbuf[h]) <= BufChanges THEN wlog.overflowed ELSE wlog.overflowed \cup {h}
           c == [key |-> h, changes |-> s]
           q == Append(wport, c)
<1>1. /\ wkeys[h] = "reading" /\ wbuf[h] # <<>> /\ wkeys' = [wkeys EXCEPT ![h] = "queued"]
      /\ wport' = q /\ wlog' = [wlog EXCEPT !.overflowed = o] /\ wbuf' = [wbuf EXCEPT ![h] = <<>>]
      /\ UNCHANGED <<wimpl, wopen, wwork, wasync>>
  BY DEF Complete
<1>2. /\ s = wbuf[h] \/ s = <<>>
      /\ s = <<>> => h \in o
      /\ wlog.overflowed \subseteq o
  BY <1>1
<1>3. s \in Seq(Changes) /\ o \subseteq WHandles
  BY <1>0, EmptySeq DEF WinLogs
<1> HIDE DEF s, o
<1>4. c \in Completions /\ c.key = h /\ c.changes = s
  BY <1>3 DEF Completions
<1>5. h # WNull
  BY HandlesAssumption DEF WHandles, WNull
<1> HIDE DEF c, q
<1>6. PostedIn(wkeys, wport, c)
  BY <1>0, <1>1, <1>4, Posted
<1>7. /\ wkeys' \in [WHandles -> KeyStates] /\ InPort(wkeys', q) /\ q \in Seq(Completions)
      /\ \A n \in DOMAIN q : (n \in DOMAIN wport /\ q[n] = wport[n]) \/ q[n] = c
      /\ \A g \in WHandles : wkeys'[g] = IF g = h THEN "queued" ELSE wkeys[g]
  <2>1. /\ [wkeys EXCEPT ![h] = "queued"] \in [WHandles -> KeyStates]
        /\ InPort([wkeys EXCEPT ![h] = "queued"], q) /\ q \in Seq(Completions)
        /\ \A n \in DOMAIN q : (n \in DOMAIN wport /\ q[n] = wport[n]) \/ q[n] = c
    BY <1>4, <1>5, <1>6 DEF PostedIn, q
  <2> QED
    BY <1>0, <1>1, <2>1
<1>8. /\ wlog' \in WinLogs /\ wlog'.changes = wlog.changes /\ wlog'.pushed = wlog.pushed
      /\ wlog'.got = wlog.got /\ wlog'.overflowed = o
  BY <1>0, <1>1, <1>3 DEF WinLogs
<1>9. wbuf' \in [WHandles -> Seq(Changes)] /\ \A g \in WHandles : wbuf'[g] = IF g = h THEN <<>> ELSE wbuf[g]
  <2>1. <<>> \in Seq(Changes)
    BY EmptySeq
  <2> QED
    BY <1>0, <1>1, <2>1
<1>10. WinTyped'
  BY <1>0, <1>1, <1>7, <1>8, <1>9 DEF WinTyped
<1>11. InWork'
  BY <1>0, <1>1, <1>7 DEF InWork
<1>12. WorkRight' /\ RefsRight' /\ DirHandles' = DirHandles
  BY <1>0, <1>1 DEF WorkRight, RefsRight, DirHandles
<1>13. DirsRight'
  BY <1>0, <1>1, <1>7, <1>12 DEF DirsRight
<1>14. EndsByOverflow'
  <2>1. \A g \in WHandles : wkeys'[g] = "deleted" => wkeys[g] = "deleted"
    BY <1>7
  <2>2. \A n \in DOMAIN q : q[n].changes = <<>> /\ q[n].key \in DirHandles /\ ~Free(wimpl) => q[n].key \in o
    BY <1>0, <1>2, <1>4, <1>7 DEF EndsByOverflow
  <2> QED
    BY <1>0, <1>1, <1>2, <1>8, <1>12, <2>1, <2>2 DEF EndsByOverflow
<1>15. Flowing'
  <2>1. \A g \in WHandles : wbuf'[g] = <<>> \/ wbuf'[g] = wbuf[g]
    BY <1>9
  <2>2. \A g \in WHandles : Batch(wbuf'[g], g, wlog.pushed, wlog.changes)
    BY <1>0, <2>1, NoChanges DEF Flowing, Buffered
  <2>3. \A u : AllBefore(u) => \A g \in WHandles : Before(u, wbuf'[g])
    BY <2>1, NoChanges DEF AllBefore
  <2>4. Batch(s, h, wlog.pushed, wlog.changes)
    BY <1>0, <1>2, NoChanges DEF Flowing, Buffered
  <2>5. ASSUME NEW g \in WHandles
        PROVE  Before(s, wbuf'[g])
    <3>1. CASE g = h
      BY <1>9, <3>1, NoChanges
    <3>2. CASE g # h
      <4>1. OfHandle(s, h) /\ OfHandle(wbuf'[g], g)
        BY <2>2, <2>4 DEF Batch
      <4> QED
        BY <3>2, <4>1 DEF OfHandle, Before
    <3> QED
      BY <3>1, <3>2
  <2>6. \A n \in DOMAIN q : /\ Batch(q[n].changes, q[n].key, wlog.pushed, wlog.changes)
                            /\ \A g \in WHandles : Before(q[n].changes, wbuf'[g])
    <3>1. \A n \in DOMAIN wport : /\ Batch(wport[n].changes, wport[n].key, wlog.pushed, wlog.changes)
                                  /\ \A g \in WHandles : Before(wport[n].changes, wbuf'[g])
      BY <1>0, <2>3 DEF Flowing
    <3> QED
      BY <1>4, <1>7, <2>4, <2>5, <3>1
  <2>7. \A g \in WHandles : Before(wwork.changes, wbuf'[g])
    BY <1>0, <2>3 DEF Flowing
  <2> QED
    BY <1>0, <1>1, <1>8, <2>2, <2>6, <2>7 DEF Flowing, Buffered, AllBefore
<1>16. Delivered(wimpl.events, wlog.pushed, wlog.got, Held(wasync.ev))'
  BY <1>0, <1>1, <1>8
<1> QED
  BY <1>1, <1>7, <1>10, <1>11, <1>12, <1>13, <1>14, <1>15, <1>16 DEF WinInv

-----------------------------------------------------------------------------
(* The theorems.                                                           *)

\* Nothing is watched or waiting at first.
LEMMA WinInitInv == WinInit => WinInv
<1> SUFFICES ASSUME WinInit PROVE WinInv
  OBVIOUS
<1>1. /\ wimpl = [refs |-> {"user"}, run |-> TRUE, events |-> <<>>, dirs |-> <<>>]
      /\ wkeys = [h \in WHandles |-> "none"] /\ wopen = {} /\ wbuf = [h \in WHandles |-> <<>>] /\ wport = <<>>
      /\ wwork = [pc |-> "loop", key |-> WNull, changes |-> <<>>]
      /\ wasync = [asked |-> 0, queue |-> 0, pc |-> "idle", ev |-> <<>>]
      /\ wlog = [changes |-> 0, pushed |-> <<>>, got |-> <<>>, overflowed |-> {}]
  BY DEF WinInit, WinStart
<1>2. <<>> \in Seq(Changes) /\ <<>> \in Seq(Completions) /\ DOMAIN <<>> = {}
  BY EmptySeq
<1>3. <<>> \in DirMaps
  <2>1. <<>> \in [{} -> WHandles]
    OBVIOUS
  <2> QED
    BY <2>1 DEF DirMaps
<1>4. wimpl \in Impls /\ wwork \in Works /\ wasync \in Asyncs /\ wlog \in WinLogs
  BY <1>1, <1>2, <1>3 DEF Impls, Holders, Works, Asyncs, WinLogs
<1>5. /\ WinTyped
  BY <1>1, <1>2, <1>4 DEF WinTyped, KeyStates
<1>6. \A h \in WHandles : h # WNull
  BY HandlesAssumption DEF WHandles, WNull
<1>7. InPort(wkeys, wport)
  BY <1>1, <1>2 DEF InPort
<1>8. InWork /\ WorkRight
  BY <1>1, <1>6 DEF InWork, WorkRight
<1>9. DirHandles = {} /\ ~Free(wimpl)
  BY <1>1, <1>2 DEF DirHandles, Free
<1>10. DirsRight
  <2>1. \A d, e \in DOMAIN wimpl.dirs : wimpl.dirs[d] = wimpl.dirs[e] => d = e
    BY <1>1, <1>2
  <2> QED
    BY <1>1, <1>9, <2>1 DEF DirsRight
<1>11. EndsByOverflow
  BY <1>1, <1>2, <1>9 DEF EndsByOverflow
<1>12. RefsRight
  BY <1>1 DEF RefsRight
<1>13. Flowing
  <2>1. Rising(<<>>) /\ UpTo(<<>>, 0)
    BY <1>2 DEF Rising, UpTo
  <2> QED
    BY <1>1, <1>2, <2>1, NoChanges DEF Flowing, Buffered, AllBefore
<1>14. Delivered(<<>>, <<>>, <<>>, <<>>)
  <2>1. Len(<<>>) = 0 /\ ToSet(<<>>) = {} /\ 0 \in Nat
    BY SetOfHeld
  <2>2. \A i \in 1..0 : FALSE
    OBVIOUS
  <2>3. /\ Len(<<>>) = 0 + Len(<<>>) /\ Len(<<>>) + Len(<<>>) = 0
        /\ \A i \in 1..Len(<<>>) : <<>>[i] = <<>>[0 + i]
    BY <2>1, <2>2
  <2>4. ToSet(<<>>) \cup ToSet(<<>>) = {<<>>[i] : i \in 1..0}
    BY <2>1, <2>2
  <2> QED
    BY <2>1, <2>3, <2>4 DEF Delivered
<1>15. Delivered(wimpl.events, wlog.pushed, wlog.got, Held(wasync.ev))
  BY <1>1, <1>14, SetOfHeld
<1> QED
  BY <1>5, <1>7, <1>8, <1>10, <1>11, <1>12, <1>13, <1>15 DEF WinInv

\* Every step keeps the invariant.
LEMMA WinStep == WinInv /\ [WinNext]_winVars => WinInv'
<1>1. ASSUME WinInv, UNCHANGED winVars
      PROVE  WinInv'
  BY <1>1 DEF winVars, WinInv, WinTyped, InWork, WorkRight, DirsRight, DirHandles, EndsByOverflow, RefsRight,
              Flowing, Buffered, AllBefore
<1>2. ASSUME WinInv, WinNext
      PROVE  WinInv'
  BY <1>2, CallStep, AddStep, RemoveStep, LetGoStep, AsyncStep, GetStep, PushStep, RearmStep, ChangeStep, CompleteStep
     DEF WinNext
<1> QED
  BY <1>1, <1>2

\* Keys in one place each are counted once.
LEMMA WinInvKeys == WinInv => KeysAccounted
<1> SUFFICES ASSUME WinInv, NEW h \in WHandles
             PROVE  LET ported == {n \in DOMAIN wport : wport[n].key = h}
                    IN  /\ Cardinality(ported) = IF wkeys[h] = "queued" THEN 1 ELSE 0
                        /\ wkeys[h] = "work" <=> wwork.key = h
                        /\ wkeys[h] = "reading" => h \in wopen
                        /\ wkeys[h] = "deleted" /\ (\E d \in DOMAIN wimpl.dirs : wimpl.dirs[d] = h) /\ ~Free(wimpl) /\ wwork.pc # "thrown"
                             => h \in wlog.overflowed
  BY DEF KeysAccounted
<1> DEFINE ported == {n \in DOMAIN wport : wport[n].key = h}
<1>1. h # WNull
  BY HandlesAssumption DEF WHandles, WNull
<1>2. Cardinality(ported) = IF wkeys[h] = "queued" THEN 1 ELSE 0
  <2>1. CASE wkeys[h] = "queued"
    <3>1. PICK n \in DOMAIN wport : wport[n].key = h
      BY <2>1 DEF WinInv, InPort
    <3>2. ported = {n}
      BY <1>1, <3>1 DEF WinInv, InPort
    <3> QED
      BY <2>1, <3>2, FS_Singleton
  <2>2. CASE wkeys[h] # "queued"
    <3>1. ported = {}
      BY <1>1, <2>2 DEF WinInv, InPort
    <3> QED
      BY <2>2, <3>1, FS_EmptySet
  <2> QED
    BY <2>1, <2>2
<1>3. (wkeys[h] = "work" <=> wwork.key = h) /\ (wkeys[h] = "reading" => h \in wopen)
  BY DEF WinInv, InWork, DirsRight
<1>4. wkeys[h] = "deleted" /\ (\E d \in DOMAIN wimpl.dirs : wimpl.dirs[d] = h) /\ ~Free(wimpl) /\ wwork.pc # "thrown"
        => h \in wlog.overflowed
  BY DEF WinInv, EndsByOverflow, DirHandles
<1> QED
  BY <1>2, <1>3, <1>4

\* What was delivered first and still waits last is what was pushed.
LEMMA WinInvOrder == WinInv => WinEventsInOrder
<1> SUFFICES ASSUME WinInv PROVE WinEventsInOrder
  OBVIOUS
<1> DEFINE ev == wimpl.events
           ps == wlog.pushed
           gs == wlog.got
           held == Held(wasync.ev)
<1>1. ev \in Seq(Changes) /\ ps \in Seq(Changes)
  BY DEF WinInv, WinTyped, Impls, WinLogs
<1>2. PICK k \in Nat :
        /\ Len(ps) = k + Len(ev) /\ Len(gs) + Len(held) = k
        /\ \A i \in 1..Len(ev) : ev[i] = ps[k + i]
        /\ ToSet(gs) \cup ToSet(held) = {ps[i] : i \in 1..k}
  BY DEF WinInv, Delivered
<1>3. Rising(ps)
  BY DEF WinInv, Flowing
<1> HIDE DEF ev, ps, held, gs
<1>4. /\ Len(ev) \in Nat /\ Len(ps) \in Nat /\ DOMAIN ev = 1..Len(ev) /\ DOMAIN ps = 1..Len(ps)
  BY <1>1, LenProperties
<1>5. ToSet(gs) \cup ToSet(held) \cup ToSet(ev) = ToSet(ps)
  <2>1. ToSet(ev) = {ps[i] : i \in k + 1..Len(ps)}
    <3>1. ASSUME NEW i \in k + 1..Len(ps)
          PROVE  i - k \in DOMAIN ev /\ ev[i - k] = ps[i]
      <4>1. i - k \in 1..Len(ev) /\ k + (i - k) = i
        BY <1>2, <1>4
      <4>2. ev[i - k] = ps[k + (i - k)]
        BY <1>2, <4>1
      <4> QED
        BY <1>4, <4>1, <4>2
    <3>2. ASSUME NEW i \in DOMAIN ev
          PROVE  k + i \in k + 1..Len(ps) /\ ev[i] = ps[k + i]
      BY <1>2, <1>4
    <3> QED
      BY <3>1, <3>2 DEF ToSet
  <2>2. \A i : i \in DOMAIN ps <=> i \in 1..k \/ i \in k + 1..Len(ps)
    BY <1>2, <1>4
  <2>3. ToSet(ps) = {ps[i] : i \in 1..k} \cup {ps[i] : i \in k + 1..Len(ps)}
    BY <2>2 DEF ToSet
  <2> QED
    BY <1>2, <2>1, <2>3
<1>6. Len(gs) + Len(held) + Len(ev) = Len(ps)
  <2>1. Len(gs) + Len(held) + Len(ev) = k + Len(ev)
    BY <1>2
  <2> QED
    BY <1>2, <2>1
<1>7. ev = SubSeq(ps, k + 1, Len(ps)) /\ k \in 0..Len(ps)
  <2> DEFINE t == SubSeq(ps, k + 1, Len(ps))
  <2>1. k \in 0..Len(ps) /\ k + 1 \in 1..Len(ps) + 1 /\ Len(ps) - (k + 1) + 1 = Len(ev)
    BY <1>2, <1>4
  <2>2. /\ t \in Seq(Changes) /\ Len(t) = Len(ps) - (k + 1) + 1
        /\ \A i \in 1..Len(t) : t[i] = ps[k + 1 + i - 1]
    BY <1>1, <1>2, <1>4, <2>1, SubSeqProperties
  <2> HIDE DEF t
  <2>3. Len(t) = Len(ev)
    BY <2>1, <2>2
  <2>4. \A i \in 1..Len(ev) : ev[i] = t[i]
    <3>1. ASSUME NEW i \in 1..Len(ev)
          PROVE  ev[i] = t[i]
      <4>1. k + 1 + i - 1 = k + i
        BY <1>2
      <4> QED
        BY <1>2, <2>2, <2>3, <4>1
    <3> QED
      BY <3>1
  <2>5. ev = t
    BY <1>1, <2>2, <2>3, <2>4, SeqEqual
  <2> QED
    BY <2>1, <2>5 DEF t
<1>8. wasync.pc = "pop" => "async" \in wimpl.refs
  BY DEF WinInv, RefsRight
<1>9. Free(wimpl) => ~wimpl.run /\ wopen \cap {wimpl.dirs[d] : d \in DOMAIN wimpl.dirs} = {}
  BY DEF WinInv, RefsRight, DirsRight, DirHandles, Free
<1>10. \A m, n \in DOMAIN ps : m < n /\ ps[m][1] = ps[n][1] => ps[m][2] < ps[n][2]
  BY <1>3 DEF Rising
<1>11. held = IF wasync.ev = <<>> THEN <<>> ELSE <<wasync.ev>>
  BY DEF held, Held
<1> QED
  BY <1>5, <1>6, <1>7, <1>8, <1>9, <1>10, <1>11 DEF WinEventsInOrder, ev, ps, gs

\* A completion key is in one place, with a pending read on an open handle, in
\* the port, with the work thread, or deleted, and only an overflow ends a
\* watch (windows_handle, begin_read and work_thread).
THEOREM KeysAreAccounted == WinSpec => []KeysAccounted
BY WinInitInv, WinStep, WinInvKeys, PTL DEF WinSpec

\* Changes are delivered once each and in order, and the object outlives its
\* holders (pushback_event, popfront_event, monitor_operation and destroy).
THEOREM WinEventsAreInOrder == WinSpec => []WinEventsInOrder
BY WinInitInv, WinStep, WinInvOrder, PTL DEF WinSpec
=============================================================================
