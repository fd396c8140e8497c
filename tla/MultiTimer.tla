---------------------------- MODULE MultiTimer ----------------------------
(***************************************************************************)
(* The multiple timer package of multimer.c: one process multiplexes many  *)
(* timers onto select().  Timer queue elements (TQEs) are numbers into the *)
(* heap tqe; timerQ and freeTQEQ are the two linked lists.  The process is *)
(* in user code (its main loop or a timer handler) or inside timer_get;    *)
(* handlers may set timers and may call timer_get again, so a behaviour    *)
(* alternates user code and timer_get activations to depth MaxDepth.       *)
(***************************************************************************)
EXTENDS Integers, Sequences, SequencesExt

CONSTANTS
  Clients,         \* client handles
  UsecPerSec,      \* 1000000 in the code
  Relative,        \* intervals user code passes with relative = 1
  Absolute,        \* times user code passes with relative = 0
  Periods,         \* intervals user code stores through timer_set's result
  ClearsInterval,  \* one-shot callers store zero there rather than nothing
  MaxTime,         \* bound on the clock, in units of one "usec"
  MaxDepth,        \* bound on recursive timer_get calls
  NULL

ASSUME UsecAssumption == UsecPerSec \in Nat \ {0}
ASSUME BoundAssumption == MaxTime \in Nat /\ MaxDepth \in Nat \ {0}

timeval == [sec : Int, usec : Int]
tv(n) == [sec |-> n \div UsecPerSec, usec |-> n % UsecPerSec]
Value(t) == t.sec * UsecPerSec + t.usec
Normal(t) == t.usec \in 0 .. UsecPerSec - 1
Zero == [sec |-> 0, usec |-> 0]

ASSUME TimevalAssumption ==
  \A t \in Relative \cup Absolute \cup Periods : t \in timeval /\ Normal(t)

VARIABLES
  tqe,       \* every TQE ever malloc'ed: [time, interval, client]
  timerQ,    \* pending TQEs, first to expire first
  freeTQEQ,  \* free TQEs, last freed first
  now,       \* what gettimeofday returns
  depth,     \* activations of timer_get on the stack
  inGet,     \* control is in timer_get, not in user code
  timeout,   \* what timer_get last returned
  repeats    \* clients whose latest timer was asked to repeat

lists == <<tqe, timerQ, freeTQEQ>>
vars == <<tqe, timerQ, freeTQEQ, now, depth, inGet, timeout, repeats>>

-----------------------------------------------------------------------------
timeradd(a, b) ==
  LET usec == a.usec + b.usec
  IN  IF usec >= UsecPerSec
      THEN [sec |-> a.sec + b.sec + 1, usec |-> usec - UsecPerSec]
      ELSE [sec |-> a.sec + b.sec, usec |-> usec]

timerless(a, b) ==
  a.sec < b.sec \/ (a.sec = b.sec /\ a.usec < b.usec)

\* timer_get's subtraction, with its borrow.
Until_NoBorrow(t, n) == [sec |-> t.sec - n.sec, usec |-> t.usec - n.usec]
Until(t, n) ==
  LET usec == t.usec - n.usec
  IN  IF usec < 0
      THEN [sec |-> t.sec - n.sec - 1, usec |-> usec + UsecPerSec]
      ELSE [sec |-> t.sec - n.sec, usec |-> usec]

-----------------------------------------------------------------------------
(* timer_set, as the lists and heap it leaves behind.                      *)

Lists == [tqe |-> tqe, timerQ |-> timerQ, free |-> freeTQEQ]
Becomes(L) == tqe' = L.tqe /\ timerQ' = L.timerQ /\ freeTQEQ' = L.free

Pending(L, c) == SelectInSeq(L.timerQ, LAMBDA i : L.tqe[i].client = c)

\* timer_set(NULL, ...): the client's pending timer goes to the free list.
Cancelled_Leaks(L, c) ==
  LET p == Pending(L, c)
  IN  IF p = 0 THEN L ELSE [L EXCEPT !.timerQ = RemoveAt(@, p)]
Cancelled(L, c) ==
  LET p == Pending(L, c)
  IN  IF p = 0
      THEN L
      ELSE [L EXCEPT !.timerQ = RemoveAt(@, p), !.free = Cons(L.timerQ[p], @)]

\* A TQE from the free list, or a new one whose interval is zero.
Allocated(L) ==
  IF L.free # << >>
  THEN L
  ELSE [L EXCEPT !.tqe = Append(@, [time |-> Zero, interval |-> Zero, client |-> NULL]),
                 !.free = <<Len(L.tqe) + 1>>]

\* The TQE goes before the first one that expires strictly later.
Inserted_BeforeEqual(q, i, heap) ==
  LET p == SelectInSeq(q, LAMBDA j : ~timerless(heap[j].time, heap[i].time))
  IN  IF p = 0 THEN Append(q, i) ELSE InsertAt(q, p, i)
Inserted(q, i, heap) ==
  LET p == SelectInSeq(q, LAMBDA j : timerless(heap[i].time, heap[j].time))
  IN  IF p = 0 THEN Append(q, i) ELSE InsertAt(q, p, i)

\* timer_set with an expiry time: reuses the client's pending TQE, or takes one
\* from the free list; the interval field is not touched.
Set(L, c, time) ==
  LET p == Pending(L, c)
      A == IF p = 0 THEN Allocated(L) ELSE L
      tp == IF p = 0 THEN Head(A.free) ELSE L.timerQ[p]
      heap == [A.tqe EXCEPT ![tp].time = time, ![tp].client = c]
      rest == IF p = 0 THEN L.timerQ ELSE RemoveAt(L.timerQ, p)
  IN  [tqe |-> heap,
       timerQ |-> Inserted(rest, tp, heap),
       free |-> IF p = 0 THEN Tail(A.free) ELSE L.free]

\* The caller's store through the pointer timer_set returned.
WithInterval_Head(L, c, iv) == [L EXCEPT !.tqe[Head(L.timerQ)].interval = iv]
WithInterval(L, c, iv) == [L EXCEPT !.tqe[L.timerQ[Pending(L, c)]].interval = iv]

-----------------------------------------------------------------------------
Init ==
  /\ tqe = << >> /\ timerQ = << >> /\ freeTQEQ = << >>
  /\ now = Zero
  /\ depth = 0 /\ inGet = FALSE
  /\ timeout = NULL
  /\ repeats = {}

Tick ==
  /\ Value(now) < MaxTime
  /\ now' = tv(Value(now) + 1)
  /\ UNCHANGED <<lists, depth, inGet, timeout, repeats>>

\* User code cancels its timer, ...
CancelTimer(c) ==
  /\ ~inGet
  /\ Becomes(Cancelled(Lists, c))
  /\ repeats' = repeats \ {c}
  /\ UNCHANGED <<now, depth, inGet, timeout>>

\* ... sets one that is to expire once, ...
SetOnce(c, time) ==
  /\ ~inGet
  /\ LET L == Set(Lists, c, time)
     IN  Becomes(IF ClearsInterval THEN WithInterval(L, c, Zero) ELSE L)
  /\ repeats' = repeats \ {c}
  /\ UNCHANGED <<now, depth, inGet, timeout>>

\* ... or one that is to repeat.
SetRepeating(c, time, period) ==
  /\ ~inGet
  /\ Becomes(WithInterval(Set(Lists, c, time), c, period))
  /\ repeats' = repeats \cup {c}
  /\ UNCHANGED <<now, depth, inGet, timeout>>

Expiries == {timeradd(now, iv) : iv \in Relative} \cup Absolute

UserSets(c) ==
  \/ CancelTimer(c)
  \/ \E t \in Expiries : SetOnce(c, t)
  \/ \E t \in Expiries, p \in Periods : SetRepeating(c, t, p)

CallTimerGet ==
  /\ ~inGet /\ depth < MaxDepth
  /\ inGet' = TRUE /\ depth' = depth + 1
  /\ UNCHANGED <<lists, now, timeout, repeats>>

HeadExpired == timerQ # << >> /\ ~timerless(now, tqe[Head(timerQ)].time)

\* timer_get finds nothing expired and returns to the code that called it.
ReturnTimeout ==
  /\ inGet
  /\ ~HeadExpired
  /\ timeout' = IF timerQ = << >> THEN NULL ELSE Until(tqe[Head(timerQ)].time, now)
  /\ inGet' = FALSE /\ depth' = depth - 1
  /\ UNCHANGED <<lists, now, repeats>>

\* timer_get takes an expired timer off the queue, restarts it if it has an
\* interval, and calls its handler.
Expire_NoRestart ==
  /\ inGet
  /\ HeadExpired
  /\ Becomes([Lists EXCEPT !.timerQ = Tail(@), !.free = Cons(Head(timerQ), @)])
  /\ inGet' = FALSE
  /\ UNCHANGED <<now, depth, timeout, repeats>>
Expire ==
  /\ inGet
  /\ HeadExpired
  /\ LET tp == Head(timerQ)
         L == [Lists EXCEPT !.timerQ = Tail(@), !.free = Cons(tp, @)]
     IN  Becomes(IF tqe[tp].interval = Zero
                 THEN L
                 ELSE Set(L, tqe[tp].client, timeradd(tqe[tp].interval, tqe[tp].time)))
  /\ inGet' = FALSE
  /\ UNCHANGED <<now, depth, timeout, repeats>>

\* A handler returns into the timer_get loop that called it.
HandlerReturns ==
  /\ ~inGet /\ depth > 0
  /\ inGet' = TRUE
  /\ UNCHANGED <<lists, now, depth, timeout, repeats>>

Next ==
  \/ Tick \/ CallTimerGet \/ ReturnTimeout \/ Expire \/ HandlerReturns
  \/ \E c \in Clients : UserSets(c)

Spec == Init /\ [][Next]_vars

\* The process keeps calling timer_get, and its handlers return.
FairSpec ==
  /\ Spec
  /\ WF_vars(CallTimerGet /\ depth = 0)
  /\ WF_vars(ReturnTimeout) /\ WF_vars(Expire) /\ WF_vars(HandlerReturns)

-----------------------------------------------------------------------------
TypeOK ==
  /\ tqe \in Seq([time : timeval, interval : timeval, client : Clients \cup {NULL}])
  /\ timerQ \in Seq(DOMAIN tqe) /\ freeTQEQ \in Seq(DOMAIN tqe)
  /\ now \in timeval /\ timeout \in timeval \cup {NULL}
  /\ depth \in 0..MaxDepth /\ inGet \in BOOLEAN
  /\ repeats \subseteq Clients

\* Every TQE is on exactly one of the two lists, once: none leaks and none is
\* reachable twice, although a handler runs while its TQE is already free.
ListsPartition ==
  /\ IsInjective(timerQ \o freeTQEQ)
  /\ ToSet(timerQ \o freeTQEQ) = DOMAIN tqe

\* "Each client may have only one timer pending" (multimer.c:125).
OneTimerPerClient ==
  \A i, j \in 1..Len(timerQ) :
    tqe[timerQ[i]].client = tqe[timerQ[j]].client => i = j

\* "active timer queue, in time order" (multimer.c:80): on absolute time, with
\* every expiry and interval normalised, which is what timer_check asserts.
InTimeOrder ==
  /\ \A i \in 1..Len(timerQ) : Normal(tqe[timerQ[i]].time) /\ Normal(tqe[timerQ[i]].interval)
  /\ \A i, j \in 1..Len(timerQ) :
       i < j => Value(tqe[timerQ[i]].time) <= Value(tqe[timerQ[j]].time)

\* The queue a handler finds and leaves, however deep timer_get is nested, is
\* sound in all these ways.
QueueWellFormed == TypeOK /\ ListsPartition /\ OneTimerPerClient /\ InTimeOrder

\* A timer restarts itself only if the client's latest timer_set asked for
\* that: a recycled TQE brings no old interval along.
RepeatsOnlyIfAsked ==
  \A i \in 1..Len(timerQ) :
    tqe[timerQ[i]].interval # Zero => tqe[timerQ[i]].client \in repeats

HasTimer(c) == \E i \in 1..Len(timerQ) : tqe[timerQ[i]].client = c

\* timer_get returns NULL when nothing is pending, and otherwise exactly the
\* time left until the earliest expiry, as a normalised timeval.
TimeoutIsNextExpiry ==
  [][depth' < depth =>
       IF timerQ = << >>
       THEN timeout' = NULL
       ELSE /\ Normal(timeout')
            /\ Value(timeout') > 0
            /\ \A i \in 1..Len(timerQ) :
                 Value(timeout') <= Value(tqe[timerQ[i]].time) - Value(now)
            /\ \E i \in 1..Len(timerQ) :
                 Value(timeout') = Value(tqe[timerQ[i]].time) - Value(now)]_vars

\* A repeating timer stays pending, whatever its handler does, until the
\* client cancels it or sets another: firing never loses it.
RepeatingStaysPending ==
  [][\A c \in repeats : HasTimer(c) /\ c \in repeats' => HasTimer(c)']_vars

\* A timer that has expired is delivered unless its client keeps setting it
\* anew: no stream of other clients' timers keeps it waiting.
Expired(c) ==
  \E i \in 1..Len(timerQ) :
    tqe[timerQ[i]].client = c /\ ~timerless(now, tqe[timerQ[i]].time)
ExpiredTimersAreServed ==
  \A c \in Clients : ([]<><<UserSets(c)>>_vars) \/ (Expired(c) ~> ~Expired(c))
=============================================================================
