------------------------ MODULE CircBufferProofs ------------------------
(***************************************************************************)
(* What holds of circ_buffer.c for every buffer size, data set, flags and  *)
(* division of the calls between task and interrupt handler.               *)
(***************************************************************************)
EXTENDS CircBuffer, SequenceTheorems, TLAPS

\* The ring arithmetic: a bumped pointer stays in the buffer, and the number
\* of entries from base to curr is at most Max.
LEMMA BumpInSlots == \A p \in Slots : Bump(p) \in Slots
  BY MaxAssumption DEF Slots, Bump, Wrap, cmax

LEMMA DistanceBound ==
  \A b, c \in Slots : Distance(b, c) \in 0..Max
  BY MaxAssumption DEF Slots, Distance, cmax

\* Moving curr on by one adds an entry unless the pointers then meet; moving
\* base on by one removes an entry unless they met already.
LEMMA DistanceBump ==
  ASSUME NEW b \in Slots, NEW c \in Slots
  PROVE  /\ Bump(c) # b => Distance(b, Bump(c)) = Distance(b, c) + 1
         /\ Bump(c) = b <=> Distance(b, c) = Max
         /\ b # c => Distance(Bump(b), c) = Distance(b, c) - 1
         /\ b = c <=> Distance(b, c) = 0
         /\ Bump(c) = b => Distance(Bump(b), Bump(c)) = Max
  BY MaxAssumption DEF Slots, Bump, Wrap, Distance, cmax

-----------------------------------------------------------------------------
\* Every call keeps the ring pointers inside the buffer.
THEOREM TypeCorrect == Spec => []TypeOK
<1>1. Init => TypeOK
  BY MaxAssumption DEF Init, TypeOK, Slots, Flags
<1>2. TypeOK /\ [Next]_vars => TypeOK'
  <2> SUFFICES ASSUME TypeOK, [Next]_vars
               PROVE  TypeOK'
    OBVIOUS
  <2> USE DEF TypeOK
  <2>0. 0 \in Slots
    BY MaxAssumption DEF Slots
  <2>1. ASSUME NEW given \in BOOLEAN, cbuf_create(given)
        PROVE  TypeOK'
    BY <2>0, <2>1, FlagsAssumption DEF cbuf_create, ring, Flags
  <2>2. CASE cbuf_destroy
    BY <2>2 DEF cbuf_destroy, Flags
  <2>3. ASSUME NEW d \in Data, cbuf_enqueue_default(d), at' = at
        PROVE  TypeOK'
    <3>1. CASE UNCHANGED ring
      BY <2>3, <3>1 DEF cbuf_enqueue_default, ring
    <3>2. CASE CB_VALID /\ ~(CB_FULL /\ "OVERWRITE" \notin flags)
      <4>1. buffer' \in [Slots -> Data \cup {Junk}]
        BY <2>3, <3>2 DEF cbuf_enqueue_default
      <4>2. /\ curr' = Bump(curr)
            /\ base' \in {base, Bump(base)}
            /\ count' \in {count, count + 1}
        BY <2>3, <3>2 DEF cbuf_enqueue_default
      <4>3. curr' \in Slots /\ base' \in Slots /\ count' \in Nat
        BY <4>2, BumpInSlots
      <4> QED
        BY <2>3, <3>2, <4>1, <4>3 DEF cbuf_enqueue_default
    <3> QED
      BY <2>3, <3>1, <3>2 DEF cbuf_enqueue_default
  <2>4. ASSUME cbuf_dequeue_default, at' = at
        PROVE  TypeOK'
    BY <2>4, BumpInSlots DEF cbuf_dequeue_default, ring, CB_EMPTY
  <2>5. CASE PeekTest \/ PeekRead \/ LookupTest \/ \E d \in Data : LookupWalk(d)
    BY <2>5 DEF PeekTest, PeekRead, LookupTest, LookupWalk, Return, ring
  <2>6. CASE ResetTest \/ ResetCurr \/ ResetBase \/ ResetCount \/ ResetWalk
    BY <2>0, <2>6 DEF ResetTest, ResetCurr, ResetBase, ResetCount, ResetWalk,
                      Return, ring
  <2>7. CASE UNCHANGED vars
    BY <2>7 DEF vars
  <2> QED
    BY <2>1, <2>2, <2>3, <2>4, <2>5, <2>6, <2>7
    DEF Next, Task, Isr, TaskEnqueue, TaskDequeue, IsrEnqueue, IsrDequeue
<1> QED
  BY <1>1, <1>2, PTL DEF Spec

-----------------------------------------------------------------------------
\* The strengthening that makes CountIsEntries inductive: how far a reset's
\* stores have got, and that they are never interrupted.
ResetInv ==
  /\ at = "reset_base" => curr = 0
  /\ at = "reset_count" => curr = 0 /\ base = 0
  /\ IsrOps # {} => at \notin {"reset_curr", "reset_base", "reset_count"}

CountInv == CountIsEntries /\ ResetInv

\* Every call keeps CountInv, when no handler works on a buffer that is reset.
LEMMA CountInvariant == ResetUse /\ Spec => []CountInv
<1> SUFFICES ASSUME ResetUse
             PROVE  Spec => []CountInv
  OBVIOUS
<1> USE DEF CountInv, CountIsEntries, ResetInv, Resetting
<1>1. Init => CountInv
  BY DEF Init, CB_VALID
<1>2. TypeOK /\ CountInv /\ [Next]_vars => CountInv'
  <2> SUFFICES ASSUME TypeOK, CountInv, [Next]_vars
               PROVE  CountInv'
    OBVIOUS
  <2>0. curr \in Slots /\ base \in Slots /\ 0 \in Slots /\ count \in Nat
    BY MaxAssumption DEF TypeOK, Slots
  <2>z. Distance(0, 0) = 0
    BY DistanceBump, <2>0
  <2>1. ASSUME NEW given \in BOOLEAN, cbuf_create(given)
        PROVE  CountInv'
    BY <2>1, <2>z DEF cbuf_create, CB_VALID
  <2>2. CASE cbuf_destroy
    BY <2>2 DEF cbuf_destroy, CB_VALID
  <2>3. ASSUME NEW d \in Data, cbuf_enqueue_default(d), at' = at,
               (Interruptible /\ IsrOps # {}) \/ at = "idle"
        PROVE  CountInv'
    <3>1. CASE UNCHANGED ring
      BY <2>3, <3>1 DEF cbuf_enqueue_default, ring, CB_VALID
    <3>2. CASE CB_VALID /\ ~(CB_FULL /\ "OVERWRITE" \notin flags)
      <4>1. ~Resetting
        BY <2>3
      <4>2. count = Distance(base, curr)
        BY <3>2, <4>1
      <4>3. CASE Bump(curr) = base
        <5>1. curr' = Bump(curr) /\ base' = Bump(base) /\ count' = count
          BY <2>3, <3>2, <4>3 DEF cbuf_enqueue_default
        <5>2. count' = Distance(base', curr')
          BY <2>0, <4>2, <4>3, <5>1, DistanceBump
        <5> QED
          BY <2>3, <3>2, <4>1, <5>2 DEF cbuf_enqueue_default, CB_VALID
      <4>4. CASE Bump(curr) # base
        <5>1. curr' = Bump(curr) /\ base' = base /\ count' = count + 1
          BY <2>3, <3>2, <4>4 DEF cbuf_enqueue_default
        <5>2. count' = Distance(base', curr')
          BY <2>0, <4>2, <4>4, <5>1, DistanceBump
        <5> QED
          BY <2>3, <3>2, <4>1, <5>2 DEF cbuf_enqueue_default, CB_VALID
      <4> QED
        BY <4>3, <4>4
    <3> QED
      BY <2>3, <3>1, <3>2 DEF cbuf_enqueue_default
  <2>4. ASSUME cbuf_dequeue_default, at' = at,
               (Interruptible /\ IsrOps # {}) \/ at = "idle"
        PROVE  CountInv'
    <3>1. CASE ~CB_VALID \/ CB_EMPTY
      BY <2>4, <3>1 DEF cbuf_dequeue_default, ring, CB_VALID
    <3>2. CASE CB_VALID /\ ~CB_EMPTY
      <4>1. ~Resetting
        BY <2>4
      <4>2. count = Distance(base, curr) /\ base # curr
        BY <2>0, <3>2, <4>1, DistanceBump DEF CB_EMPTY
      <4>3. Bump(base) \in Slots /\ Distance(Bump(base), curr) = count - 1
        BY <2>0, <4>2, DistanceBump, BumpInSlots
      <4>4. Bump(base) = curr <=> count - 1 = 0
        BY <2>0, <4>3, DistanceBump
      <4> QED
        BY <2>0, <2>4, <3>2, <4>1, <4>3, <4>4 DEF cbuf_dequeue_default, CB_VALID
    <3> QED
      BY <3>1, <3>2
  <2>5. CASE PeekTest \/ PeekRead \/ LookupTest \/ \E d \in Data : LookupWalk(d)
    BY <2>5 DEF PeekTest, PeekRead, LookupTest, LookupWalk, Return, ring, CB_VALID
  <2>6. CASE "reset" \in TaskOps /\ ResetTest
    BY <2>6 DEF ResetTest, Return, ring, CB_VALID, ResetUse
  <2>7. CASE ResetCurr \/ ResetBase \/ ResetCount \/ ResetWalk
    BY <2>7, <2>z DEF ResetCurr, ResetBase, ResetCount, ResetWalk, CB_VALID
  <2>8. CASE UNCHANGED vars
    BY <2>8 DEF vars, CB_VALID
  <2> QED
    BY <2>1, <2>2, <2>3, <2>4, <2>5, <2>6, <2>7, <2>8
    DEF Next, Task, Isr, TaskEnqueue, TaskDequeue, IsrEnqueue, IsrDequeue
<1> QED
  BY <1>1, <1>2, TypeCorrect, PTL DEF Spec

\* With no interrupt handler on a buffer that is reset, count is the number
\* of entries from base to curr after every call, full and empty included.
THEOREM CountCorrect == ResetUse /\ Spec => []CountIsEntries
<1>1. CountInv => CountIsEntries
  BY DEF CountInv
<1> QED
  BY <1>1, CountInvariant, PTL

-----------------------------------------------------------------------------
(* The ring implements the bounded FIFO.                                   *)

\* What a call that has tested the ring may rely on when it goes on: the
\* header is still valid, a peek still has an entry to read, and the short
\* path of reset has nothing to hand to the cleanup function.
CallInv ==
  /\ at # "idle" => CB_VALID
  /\ at = "peek" => ~CB_EMPTY /\ "dequeue" \notin IsrOps
  /\ at = "reset_curr" => CB_EMPTY \/ ~HasCleanup

\* No interrupt between the test and the rest of a call falsifies the test.
LEMMA CallInvariant == ResetUse /\ PeekUse /\ Spec => []CallInv
<1> SUFFICES ASSUME ResetUse, PeekUse
             PROVE  Spec => []CallInv
  OBVIOUS
<1> USE DEF CallInv, CB_VALID, CB_EMPTY
<1>1. Init => CallInv
  BY DEF Init
<1>2. TypeOK /\ CountInv /\ CallInv /\ [Next]_vars => CallInv'
  <2> SUFFICES ASSUME TypeOK, CountInv, CallInv, [Next]_vars
               PROVE  CallInv'
    OBVIOUS
  <2>0. count \in Nat
    BY DEF TypeOK
  <2>1. CASE (\E given \in BOOLEAN : cbuf_create(given)) \/ cbuf_destroy
    BY <2>1 DEF cbuf_create, cbuf_destroy
  <2>2. CASE Task /\ at = "idle" /\ ~(\E given \in BOOLEAN : cbuf_create(given))
                  /\ ~cbuf_destroy
    BY <2>2 DEF Task, TaskEnqueue, TaskDequeue, PeekTest, PeekRead, LookupTest,
                LookupWalk, ResetTest, ResetCurr, ResetBase, ResetCount,
                ResetWalk, Return, ring, PeekUse
  <2>3. CASE Task /\ at # "idle"
    BY <2>3 DEF Task, cbuf_create, cbuf_destroy, TaskEnqueue, TaskDequeue,
                PeekTest, PeekRead, LookupTest, LookupWalk, ResetTest,
                ResetCurr, ResetBase, ResetCount, ResetWalk, Return
  <2>4. CASE Isr
    <3>1. at \notin {"reset_curr", "reset_base", "reset_count"}
      BY <2>4 DEF Isr, CountInv, ResetInv
    <3>2. CASE \E d \in Data : IsrEnqueue(d)
      <4>1. count' \in {count, count + 1} /\ UNCHANGED <<flags, at>>
        BY <3>2 DEF IsrEnqueue, cbuf_enqueue_default, ring
      <4> QED
        BY <2>0, <3>1, <4>1
    <3>3. CASE "dequeue" \in IsrOps /\ IsrDequeue
      BY <3>1, <3>3 DEF IsrDequeue, cbuf_dequeue_default, ring
    <3> QED
      BY <2>4, <3>2, <3>3 DEF Isr
  <2>5. CASE UNCHANGED vars
    BY <2>5 DEF vars
  <2> QED
    BY <2>1, <2>2, <2>3, <2>4, <2>5 DEF Next
<1> QED
  BY <1>1, <1>2, TypeCorrect, CountInvariant, PTL DEF Spec

\* The entries of a ring with n entries in f, the oldest in slot b.
Entries(f, b, n) == [i \in 1..n |-> f[Wrap(b + (i - 1))]]
Entry == Data \cup {Junk}

LEMMA EntriesSeq ==
  ASSUME NEW f \in [Slots -> Entry], NEW b \in Slots, NEW n \in 0..Max
  PROVE  /\ Entries(f, b, n) \in Seq(Entry)
         /\ Len(Entries(f, b, n)) = n
         /\ \A i \in 1..n : Entries(f, b, n)[i] = f[Wrap(b + (i - 1))]
<1>1. \A i \in 1..n : Wrap(b + (i - 1)) \in Slots
  BY MaxAssumption DEF Slots, Wrap, cmax
<1>2. Entries(f, b, n) \in [1..n -> Entry]
  BY <1>1 DEF Entries
<1>3. Entries(f, b, n) \in Seq(Entry)
  BY <1>2, SeqDef
<1>4. DOMAIN Entries(f, b, n) = 1..n
  BY DEF Entries
<1>5. Len(Entries(f, b, n)) = n
  BY <1>3, <1>4, LenProperties
<1> QED
  BY <1>3, <1>5 DEF Entries

\* The slot of the i-th entry: curr is the slot after the last one, and no
\* entry is in it.
LEMMA SlotOfEntry ==
  ASSUME NEW b \in Slots, NEW c \in Slots
  PROVE  /\ \A i \in 1..Distance(b, c) : Wrap(b + (i - 1)) # c
         /\ Wrap(b + Distance(b, c)) = c
         /\ \A i \in 1..Max : Wrap(Bump(b) + (i - 1)) = Wrap(b + i)
         /\ Wrap(b) = b
  BY MaxAssumption DEF Slots, Wrap, Bump, Distance, cmax

\* Writing slot curr of a ring that is not full appends to its entries.
LEMMA EntriesPut ==
  ASSUME NEW f \in [Slots -> Entry], NEW b \in Slots, NEW c \in Slots,
         NEW d \in Data, Distance(b, c) < Max
  PROVE  Entries([f EXCEPT ![c] = d], b, Distance(b, c) + 1)
           = Append(Entries(f, b, Distance(b, c)), d)
<1> DEFINE n == Distance(b, c)
           g == [f EXCEPT ![c] = d]
           old == Entries(f, b, n)
           new == Entries(g, b, n + 1)
<1>1. n \in 0..Max /\ n + 1 \in 0..Max
  BY DistanceBound, MaxAssumption
<1>2. g \in [Slots -> Entry] /\ d \in Entry
  BY DEF Entry
<1>3. old \in Seq(Entry) /\ Len(old) = n
      /\ \A i \in 1..n : old[i] = f[Wrap(b + (i - 1))]
  BY <1>1, EntriesSeq
<1>4. new \in Seq(Entry) /\ Len(new) = n + 1
      /\ \A i \in 1..(n + 1) : new[i] = g[Wrap(b + (i - 1))]
  <2> HIDE DEF g, n
  <2> QED
    BY <1>1, <1>2, EntriesSeq
<1>5. Append(old, d) \in Seq(Entry) /\ Len(Append(old, d)) = n + 1
      /\ (\A i \in 1..n : Append(old, d)[i] = old[i]) /\ Append(old, d)[n + 1] = d
  <2> HIDE DEF old, n
  <2> QED
    BY <1>2, <1>3, AppendProperties
<1>6. ASSUME NEW i \in 1..(n + 1)
      PROVE  new[i] = Append(old, d)[i]
  <2>1. CASE i = n + 1
    <3>1. i - 1 = n
      BY <1>1, <2>1
    <3>2. Wrap(b + n) = c
      BY SlotOfEntry
    <3>3. new[i] = g[c]
      BY <1>4, <3>1, <3>2
    <3> QED
      BY <1>5, <2>1, <3>3
  <2>2. CASE i # n + 1
    <3>1. i \in 1..n /\ Wrap(b + (i - 1)) # c
      BY <1>1, <2>2, SlotOfEntry
    <3>2. Wrap(b + (i - 1)) \in Slots
      BY <1>1, <3>1, MaxAssumption DEF Slots, Wrap, cmax
    <3>3. new[i] = f[Wrap(b + (i - 1))]
      BY <1>4, <3>1, <3>2
    <3> QED
      BY <1>3, <1>5, <3>1, <3>3
  <2> QED
    BY <2>1, <2>2
<1> HIDE DEF old, new, g, n
<1>7. new = Append(old, d)
  BY <1>4, <1>5, <1>6, SeqEqual
<1> QED
  BY <1>7 DEF old, new, g, n

\* Moving base on by one takes the oldest entry from the ring.
LEMMA EntriesGet ==
  ASSUME NEW f \in [Slots -> Entry], NEW b \in Slots, NEW n \in 1..Max
  PROVE  /\ Entries(f, b, n) # << >>
         /\ Head(Entries(f, b, n)) = f[b]
         /\ Entries(f, Bump(b), n - 1) = Tail(Entries(f, b, n))
<1> DEFINE old == Entries(f, b, n)
           new == Entries(f, Bump(b), n - 1)
<1>1. n \in 0..Max /\ n - 1 \in 0..Max /\ Bump(b) \in Slots
  BY MaxAssumption, BumpInSlots
<1>2. old \in Seq(Entry) /\ Len(old) = n
      /\ \A i \in 1..n : old[i] = f[Wrap(b + (i - 1))]
  BY <1>1, EntriesSeq
<1>3. new \in Seq(Entry) /\ Len(new) = n - 1
      /\ \A i \in 1..(n - 1) : new[i] = f[Wrap(Bump(b) + (i - 1))]
  BY <1>1, EntriesSeq
<1> HIDE DEF old, new
<1>4. old # << >> /\ Head(old) = old[1]
  BY <1>2
<1>5. old[1] = f[b]
  <2>1. Wrap(b + (1 - 1)) = b
    BY SlotOfEntry DEF Slots
  <2> QED
    BY <1>2, <2>1
<1>6. Tail(old) \in Seq(Entry) /\ Len(Tail(old)) = n - 1
      /\ \A i \in 1..(n - 1) : Tail(old)[i] = old[i + 1]
  BY <1>2, <1>4, HeadTailProperties
<1>7. ASSUME NEW i \in 1..(n - 1)
      PROVE  new[i] = Tail(old)[i]
  <2>1. i \in 1..Max /\ i + 1 \in 1..n /\ (i + 1) - 1 = i
    BY MaxAssumption
  <2>2. Wrap(Bump(b) + (i - 1)) = Wrap(b + i)
    BY <2>1, SlotOfEntry
  <2>3. old[i + 1] = f[Wrap(b + i)]
    BY <1>2, <2>1
  <2> QED
    BY <1>3, <1>6, <2>2, <2>3
<1>8. new = Tail(old)
  BY <1>3, <1>6, <1>7, SeqEqual
<1> QED
  BY <1>4, <1>5, <1>8 DEF old, new

\* Writing slot curr of a full ring, whose next slot is base, and moving both
\* on by one: the oldest entry gives way to the new one.
LEMMA EntriesOverwrite ==
  ASSUME NEW f \in [Slots -> Entry], NEW b \in Slots, NEW c \in Slots,
         NEW d \in Data, Bump(c) = b
  PROVE  Entries([f EXCEPT ![c] = d], Bump(b), Max)
           = Append(Tail(Entries(f, b, Max)), d)
<1>1. Distance(b, c) = Max /\ Bump(b) \in Slots /\ Max \in 1..Max
  BY DistanceBump, BumpInSlots, MaxAssumption
<1>2. Distance(Bump(b), c) = Max - 1 /\ Max - 1 < Max /\ (Max - 1) + 1 = Max
  BY <1>1, DistanceBump, MaxAssumption
<1>3. Entries(f, Bump(b), Max - 1) = Tail(Entries(f, b, Max))
  BY <1>1, EntriesGet
<1>4. Entries([f EXCEPT ![c] = d], Bump(b), (Max - 1) + 1)
        = Append(Entries(f, Bump(b), Max - 1), d)
  <2>1. Distance(Bump(b), c) < Max
    BY <1>2
  <2>2. Entries([f EXCEPT ![c] = d], Bump(b), Distance(Bump(b), c) + 1)
          = Append(Entries(f, Bump(b), Distance(Bump(b), c)), d)
    BY <1>1, <2>1, EntriesPut, Zenon
  <2> QED
    BY <1>2, <2>2
<1> QED
  BY <1>2, <1>3, <1>4

\* The FIFO's queue, as the refinement mapping of CircBuffer reads it.
Queue == IF CB_VALID /\ ~Resetting THEN Contents ELSE << >>
RefInv == TypeOK /\ CountInv /\ CallInv

\* Outside a reset the queue is the entries of the ring, which is also what
\* a walk from base to curr meets.
LEMMA QueueIsRing ==
  ASSUME RefInv, CB_VALID, ~Resetting
  PROVE  /\ Queue = Entries(buffer, base, count)
         /\ Walk = Entries(buffer, base, count)
         /\ count = Distance(base, curr) /\ count \in 0..Max
         /\ Queue \in Seq(Entry) /\ Len(Queue) = count
         /\ CB_EMPTY <=> Queue = << >>
<1>1. count = Distance(base, curr) /\ base \in Slots /\ curr \in Slots
      /\ buffer \in [Slots -> Entry]
  BY DEF RefInv, CountInv, CountIsEntries, TypeOK, Entry
<1>2. count \in 0..Max
  BY <1>1, DistanceBound
<1>3. Queue = Entries(buffer, base, count)
  BY DEF Queue, Contents, Entries
<1>4. Walk = Entries(buffer, base, count)
  BY <1>1 DEF Walk, Entries
<1>5. Queue \in Seq(Entry) /\ Len(Queue) = count
  BY <1>1, <1>2, <1>3, EntriesSeq
<1>6. CB_EMPTY <=> Queue = << >>
  BY <1>5, EmptySeq DEF CB_EMPTY
<1> QED
  BY <1>1, <1>2, <1>3, <1>4, <1>5, <1>6

\* An enqueue, by either side, is the FIFO's Put, or its refusal.
LEMMA EnqueueImplements ==
  ASSUME RefInv, NEW d \in Data, cbuf_enqueue_default(d), at' = at, ~Resetting
  PROVE  Fifo!Next
<1> USE DEF Fifo!Outcome, Fifo!Cleaned, Outcome, Cleaned
<1>0. /\ (CB_VALID)' = CB_VALID /\ flags' = flags /\ ~Resetting'
      /\ curr \in Slots /\ base \in Slots /\ buffer \in [Slots -> Entry]
  BY DEF cbuf_enqueue_default, CB_VALID, Resetting, RefInv, TypeOK, Entry
<1>1. CASE ~CB_VALID
  <2>1. Queue = << >> /\ Queue' = << >>
    BY <1>0, <1>1 DEF Queue
  <2>2. Fifo!Refuse("enqueue")
    BY <1>0, <1>1, <2>1 DEF cbuf_enqueue_default, Fifo!Refuse, Queue
  <2> QED
    BY <2>2 DEF Fifo!Next
<1>2. CASE CB_VALID /\ CB_FULL /\ "OVERWRITE" \notin flags
  <2>1. UNCHANGED ring /\ out' = Outcome("enqueue", TRUE, << >>)
    BY <1>2 DEF cbuf_enqueue_default
  <2>2. Queue' = Queue /\ Len(Queue) = Max
    BY <1>0, <1>2, <2>1, QueueIsRing, MaxAssumption
    DEF Queue, Contents, ring, CB_FULL, cmax
  <2>3. Fifo!Put(d)
    BY <1>0, <1>2, <2>1, <2>2 DEF Fifo!Put, Queue
  <2> QED
    BY <2>3 DEF Fifo!Next
<1>3. CASE CB_VALID /\ ~(CB_FULL /\ "OVERWRITE" \notin flags)
  <2>1. /\ buffer' = [buffer EXCEPT ![curr] = d] /\ curr' = Bump(curr)
        /\ Queue' = Entries(buffer', base', count')
    BY <1>0, <1>3 DEF cbuf_enqueue_default, Queue, Contents, Entries
  <2>2. /\ Queue = Entries(buffer, base, count)
        /\ count = Distance(base, curr) /\ count \in 0..Max
        /\ Queue \in Seq(Entry) /\ Len(Queue) = count
    BY <1>3, QueueIsRing
  <2>3. CASE Bump(curr) = base
    <3>1. count = Max
      BY <1>0, <2>2, <2>3, DistanceBump
    <3>2. base' = Bump(base) /\ count' = count
          /\ out' = Outcome("enqueue", TRUE, Cleaned(<<buffer[base]>>))
      BY <1>3, <2>3 DEF cbuf_enqueue_default
    <3>3. Queue' = Append(Tail(Queue), d)
      <4>1. Entries([buffer EXCEPT ![curr] = d], Bump(base), Max)
              = Append(Tail(Entries(buffer, base, Max)), d)
        BY <1>0, <2>3, EntriesOverwrite
      <4> QED
        BY <2>1, <2>2, <3>1, <3>2, <4>1
    <3>4. Head(Queue) = buffer[base]
      BY <1>0, <2>2, <3>1, EntriesGet, MaxAssumption
    <3>5. "OVERWRITE" \in flags
      BY <1>3, <3>1, MaxAssumption DEF CB_FULL, cmax
    <3>6. Fifo!Put(d)
      BY <1>0, <1>3, <2>2, <3>1, <3>2, <3>3, <3>4, <3>5 DEF Fifo!Put, Queue
    <3> QED
      BY <3>6 DEF Fifo!Next
  <2>4. CASE Bump(curr) # base
    <3>1. count < Max
      BY <1>0, <2>2, <2>4, DistanceBump, MaxAssumption
    <3>2. base' = base /\ count' = count + 1
          /\ out' = Outcome("enqueue", TRUE, << >>)
      BY <1>3, <2>4 DEF cbuf_enqueue_default
    <3>3. Queue' = Append(Queue, d)
      BY <1>0, <2>1, <2>2, <3>1, <3>2, EntriesPut
    <3>4. Fifo!Put(d)
      BY <1>0, <1>3, <2>2, <3>1, <3>2, <3>3 DEF Fifo!Put, Queue
    <3> QED
      BY <3>4 DEF Fifo!Next
  <2> QED
    BY <2>3, <2>4
<1> QED
  BY <1>1, <1>2, <1>3

\* A dequeue, by either side, is the FIFO's Get.
LEMMA DequeueImplements ==
  ASSUME RefInv, cbuf_dequeue_default, at' = at, ~Resetting
  PROVE  Fifo!Next
<1> USE DEF Fifo!Outcome, Outcome
<1>0. /\ (CB_VALID)' = CB_VALID /\ flags' = flags /\ ~Resetting'
      /\ curr \in Slots /\ base \in Slots /\ buffer \in [Slots -> Entry]
  BY DEF cbuf_dequeue_default, CB_VALID, Resetting, RefInv, TypeOK, Entry
<1>1. CASE ~CB_VALID \/ CB_EMPTY
  <2>1. UNCHANGED ring /\ out' = Outcome("dequeue", NULL, << >>)
    BY <1>1 DEF cbuf_dequeue_default
  <2>2. Queue' = Queue
    BY <1>0, <2>1 DEF Queue, Contents, ring
  <2>3. ~CB_VALID \/ Queue = << >>
    BY <1>1, QueueIsRing
  <2>4. Fifo!Get
    BY <1>0, <2>1, <2>2, <2>3 DEF Fifo!Get, Queue
  <2> QED
    BY <2>4 DEF Fifo!Next
<1>2. CASE CB_VALID /\ ~CB_EMPTY
  <2>1. /\ Queue = Entries(buffer, base, count)
        /\ count = Distance(base, curr) /\ count \in 1..Max
        /\ Queue # << >>
    BY <1>2, QueueIsRing DEF CB_EMPTY
  <2>2. /\ out' = Outcome("dequeue", buffer[base], << >>)
        /\ base' = Bump(base) /\ buffer' = buffer
        /\ count' = IF Bump(base) = curr THEN 0 ELSE count - 1
    BY <1>2 DEF cbuf_dequeue_default
  <2>3. Distance(Bump(base), curr) = count - 1 /\ Bump(base) \in Slots
    BY <1>0, <2>1, DistanceBump, BumpInSlots
  <2>4. count' = count - 1
    BY <1>0, <2>2, <2>3, DistanceBump
  <2>5. Queue' = Tail(Queue) /\ Head(Queue) = buffer[base]
    <3>1. Queue' = Entries(buffer, Bump(base), count - 1)
      BY <1>0, <1>2, <2>2, <2>4 DEF Queue, Contents, Entries
    <3> QED
      BY <1>0, <2>1, <3>1, EntriesGet
  <2>6. Fifo!Get
    BY <1>0, <1>2, <2>1, <2>2, <2>5 DEF Fifo!Get, Queue
  <2> QED
    BY <2>6 DEF Fifo!Next
<1> QED
  BY <1>1, <1>2

\* Every behaviour of the circular buffer is one of the bounded FIFO, for every
\* size, flags and cleanup function, provided no handler uses a buffer that
\* the task resets and none dequeues from a buffer that it peeks at: what a
\* call returns and cleans up is what the FIFO would, with the handler's calls
\* between any two steps of the task's.
THEOREM RingImplementsFifo == ResetUse /\ PeekUse /\ Spec => ImplementsFifo
<1> SUFFICES ASSUME ResetUse, PeekUse
             PROVE  Spec => ImplementsFifo
  OBVIOUS
<1> USE DEF Fifo!Outcome, Fifo!Cleaned, Outcome, Cleaned
<1>1. Init => Fifo!Init
  BY DEF Init, Fifo!Init, CB_VALID
<1>2. RefInv /\ [Next]_vars => [Fifo!Next]_Fifo!vars
  <2> SUFFICES ASSUME RefInv, [Next]_vars
               PROVE  Fifo!Next \/ UNCHANGED Fifo!vars
    OBVIOUS
  <2> USE DEF CB_VALID
  <2>1. ASSUME NEW given \in BOOLEAN, cbuf_create(given)
        PROVE  Fifo!Next
    <3>1. Queue = << >> /\ Queue' = << >>
      BY <2>1 DEF cbuf_create, Queue, Contents
    <3>2. Fifo!Open
      BY <2>1, <3>1 DEF cbuf_create, Fifo!Open, Queue
    <3> QED
      BY <3>2 DEF Fifo!Next
  <2>2. CASE cbuf_destroy
    <3>1. CB_VALID /\ ~Resetting
      BY <2>2 DEF cbuf_destroy, Resetting
    <3>2. Walk = Queue /\ (CB_EMPTY <=> Queue = << >>)
      BY <3>1, QueueIsRing
    <3>3. ~(CB_VALID)' /\ Queue' = << >>
      BY <2>2 DEF cbuf_destroy, Queue
    <3>4. out' = Outcome("destroy", TRUE, Cleaned(Queue))
      BY <2>2, <3>2 DEF cbuf_destroy
    <3>5. Fifo!Close
      BY <3>1, <3>3, <3>4 DEF Fifo!Close, Queue
    <3> QED
      BY <3>5 DEF Fifo!Next
  <2>3. ASSUME NEW d \in Data, TaskEnqueue(d) \/ (IsrOps # {} /\ IsrEnqueue(d))
        PROVE  Fifo!Next
    <3>1. cbuf_enqueue_default(d) /\ at' = at /\ ~Resetting
      BY <2>3 DEF TaskEnqueue, IsrEnqueue, RefInv, CountInv, ResetInv, Resetting
    <3> QED
      BY <3>1, EnqueueImplements
  <2>4. CASE TaskDequeue \/ (IsrOps # {} /\ IsrDequeue)
    <3>1. cbuf_dequeue_default /\ at' = at /\ ~Resetting
      BY <2>4 DEF TaskDequeue, IsrDequeue, RefInv, CountInv, ResetInv, Resetting
    <3> QED
      BY <3>1, DequeueImplements
  <2>5. ASSUME UNCHANGED <<flags, ring>>, ~Resetting, ~Resetting'
        PROVE  /\ Queue' = Queue /\ (CB_VALID)' = CB_VALID
               /\ (CB_VALID /\ "OVERWRITE" \in flags)'
                    = (CB_VALID /\ "OVERWRITE" \in flags)
    BY <2>5 DEF Queue, Contents, ring
  <2>6. CASE PeekTest
    <3>1. UNCHANGED <<flags, ring>> /\ ~Resetting /\ ~Resetting'
      BY <2>6 DEF PeekTest, Return, Resetting
    <3>2. CASE ~CB_VALID \/ CB_EMPTY
      <4>1. ~CB_VALID \/ Queue = << >>
        BY <3>1, <3>2, QueueIsRing
      <4>2. Fifo!Peek
        BY <2>5, <2>6, <3>1, <3>2, <4>1 DEF PeekTest, Return, Fifo!Peek, Queue
      <4> QED
        BY <4>2 DEF Fifo!Next
    <3>3. CASE ~(~CB_VALID \/ CB_EMPTY)
      BY <2>5, <2>6, <3>1, <3>3 DEF PeekTest, Fifo!vars, Queue
    <3> QED
      BY <3>2, <3>3
  <2>7. CASE PeekRead
    <3>1. CB_VALID /\ ~CB_EMPTY /\ UNCHANGED <<flags, ring>> /\ ~Resetting /\ ~Resetting'
      BY <2>7 DEF PeekRead, Return, Resetting, RefInv, CallInv
    <3>2. Queue # << >> /\ Head(Queue) = buffer[base]
      <4>1. Queue = Entries(buffer, base, count) /\ count \in 1..Max /\ Queue # << >>
        BY <3>1, QueueIsRing DEF CB_EMPTY
      <4> QED
        BY <4>1, EntriesGet DEF RefInv, TypeOK, Entry
    <3>3. Fifo!Peek
      BY <2>5, <2>7, <3>1, <3>2 DEF PeekRead, Return, Fifo!Peek, Queue
    <3> QED
      BY <3>3 DEF Fifo!Next
  <2>8. CASE LookupTest
    <3>1. UNCHANGED <<flags, ring>> /\ ~Resetting /\ ~Resetting'
      BY <2>8 DEF LookupTest, Return, Resetting
    <3>2. CASE ~CB_VALID \/ CB_EMPTY
      <4>1. PICK d \in Data : TRUE
        BY DataAssumption
      <4>2. ~CB_VALID \/ Queue = << >>
        BY <3>1, <3>2, QueueIsRing
      <4>3. Fifo!Find(d)
        BY <2>5, <2>8, <3>1, <3>2, <4>2 DEF LookupTest, Return, Fifo!Find, Queue
      <4> QED
        BY <4>3 DEF Fifo!Next
    <3>3. CASE ~(~CB_VALID \/ CB_EMPTY)
      BY <2>5, <2>8, <3>1, <3>3 DEF LookupTest, Fifo!vars, Queue
    <3> QED
      BY <3>2, <3>3
  <2>9. ASSUME NEW d \in Data, LookupWalk(d)
        PROVE  Fifo!Next
    <3>1. CB_VALID /\ UNCHANGED <<flags, ring>> /\ ~Resetting /\ ~Resetting'
      BY <2>9 DEF LookupWalk, Return, Resetting, RefInv, CallInv
    <3>2. Walk = Queue /\ Len(Queue) = Distance(base, curr)
      BY <3>1, QueueIsRing
    <3>3. Fifo!Find(d)
      BY <2>5, <2>9, <3>1, <3>2 DEF LookupWalk, Return, Fifo!Find, Queue
    <3> QED
      BY <3>3 DEF Fifo!Next
  <2>10. CASE ResetTest
    <3>1. UNCHANGED <<flags, ring>> /\ ~Resetting /\ ~Resetting'
      BY <2>10 DEF ResetTest, Return, Resetting
    <3>2. CASE ~CB_VALID
      <4>1. Fifo!Refuse("reset")
        BY <2>5, <2>10, <3>1, <3>2 DEF ResetTest, Return, Fifo!Refuse, Queue
      <4> QED
        BY <4>1 DEF Fifo!Next
    <3>3. CASE CB_VALID
      BY <2>5, <2>10, <3>1, <3>3 DEF ResetTest, Fifo!vars, Queue
    <3> QED
      BY <3>2, <3>3
  <2>11. CASE ResetCurr
    <3>1. CB_VALID /\ ~Resetting /\ Resetting' /\ flags' = flags
          /\ (CB_EMPTY \/ ~HasCleanup)
      BY <2>11 DEF ResetCurr, Resetting, RefInv, CallInv
    <3>2. CB_EMPTY <=> Queue = << >>
      BY <3>1, QueueIsRing
    <3>3. Queue' = << >>
      BY <3>1 DEF Queue
    <3>4. Fifo!Clear
      BY <2>11, <3>1, <3>2, <3>3 DEF ResetCurr, Fifo!Clear, Queue
    <3> QED
      BY <3>4 DEF Fifo!Next
  <2>12. CASE ResetBase \/ ResetCount
    <3>1. Queue = << >> /\ Queue' = << >> /\ UNCHANGED <<flags, out>>
      BY <2>12 DEF ResetBase, ResetCount, Resetting, Queue, Contents
    <3> QED
      BY <3>1 DEF Fifo!vars, Queue
  <2>13. CASE ResetWalk
    <3>1. CB_VALID /\ ~Resetting /\ flags' = flags
      BY <2>13 DEF ResetWalk, Resetting, RefInv, CallInv
    <3>2. Walk = Queue
      BY <3>1, QueueIsRing
    <3>3. Queue' = << >>
      BY <2>13 DEF ResetWalk, Queue, Contents
    <3>4. Fifo!Clear
      BY <2>13, <3>1, <3>2, <3>3 DEF ResetWalk, Fifo!Clear, Queue
    <3> QED
      BY <3>4 DEF Fifo!Next
  <2>14. CASE UNCHANGED vars
    <3>1. Queue' = Queue /\ UNCHANGED <<flags, out>>
      BY <2>14 DEF vars, ring, Queue, Contents, Resetting
    <3> QED
      BY <3>1 DEF Fifo!vars, Queue
  <2> QED
    BY <2>1, <2>2, <2>3, <2>4, <2>6, <2>7, <2>8, <2>9, <2>10, <2>11, <2>12,
       <2>13, <2>14
    DEF Next, Task, Isr
<1>3. TypeOK /\ CountInv /\ CallInv => RefInv
  BY DEF RefInv
<1> QED
  BY <1>1, <1>2, <1>3, TypeCorrect, CountInvariant, CallInvariant, PTL
  DEF Spec, ImplementsFifo, Fifo!Spec
=============================================================================
