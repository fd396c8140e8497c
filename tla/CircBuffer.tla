---------------------------- MODULE CircBuffer ----------------------------
(***************************************************************************)
(* The circular buffer of circ_buffer.c/.h, used by one task and by one    *)
(* interrupt handler.  An interrupt handler runs a whole call between two  *)
(* steps of the task; the task's calls are one step where the code holds   *)
(* cbuf_interrupt_lock from the first read of the ring to its last write   *)
(* (enqueue, dequeue, destroy) and several steps where it does not (peek,  *)
(* lookup and reset look at the ring before they raise the interrupt       *)
(* level, and reset's short path never raises it).  Pointers into the      *)
(* buffer are slot numbers.                                                *)
(***************************************************************************)
EXTENDS Naturals, Sequences

CONSTANTS
  Data,        \* the pointers callers queue
  NULL,        \* the null pointer
  Junk,        \* contents of memory nobody has written since malloc
  Max,         \* cbuf_create's max
  UserFlags,   \* cbuf_create's flags
  HasCleanup,  \* cbuf_create's clfunc is not NULL
  TaskOps,     \* calls the task makes
  IsrOps       \* calls the interrupt handler makes

AllOps == {"enqueue", "dequeue", "peek", "lookup", "reset", "destroy"}

ASSUME MaxAssumption == Max \in Nat \ {0}
ASSUME DataAssumption ==
  Data # {} /\ NULL \notin Data /\ Junk \notin Data /\ Junk # NULL
ASSUME FlagsAssumption ==
  /\ UserFlags \subseteq {"OVERWRITE", "INTERRUPT_SAFE"}
  /\ HasCleanup \in BOOLEAN
ASSUME OpsAssumption ==
  /\ TaskOps \subseteq AllOps
  /\ IsrOps \subseteq {"enqueue", "dequeue"}

VARIABLES
  flags,    \* chdr->flags
  buffer,   \* chdr->buffer, the slots
  curr,     \* chdr->curr: slot the next entry is written to
  base,     \* chdr->base: slot of the oldest entry
  count,    \* chdr->count
  home,     \* where the header is: "none", "caller", "heap", or "misfreed"
            \* for a caller's header that was passed to free
  inQ,      \* the header is linked on cbufQ
  at,       \* what is left of the task's current call
  out       \* outcome of the last call: [op, ret, freed]

ring == <<buffer, curr, base, count>>
vars == <<flags, buffer, curr, base, count, home, inQ, at, out>>

cmax == Max + 1
Slots == 0..Max
Flags == {"OVERWRITE", "INTERRUPT_SAFE", "MALLOC", "VALID"}

\* There is a header calls can be made on, valid or not.
Present == home \in {"caller", "heap"}
CB_VALID == "VALID" \in flags
CB_EMPTY == count = 0
CB_FULL_OffByOne == count = cmax
CB_FULL == count = cmax - 1

Outcome(op, ret, freed) == [op |-> op, ret |-> ret, freed |-> freed]
Cleaned(s) == IF HasCleanup THEN s ELSE << >>

\* A pointer bumped past &buffer[max] comes back to buffer.
Wrap(p) == IF p >= cmax THEN p - cmax ELSE p
Bump_NoWrap(p) == p + 1
Bump(p) == Wrap(p + 1)

\* Entries a runner meets on its way from base to curr.
Distance(b, c) == IF c >= b THEN c - b ELSE (c + cmax) - b
Walk == [i \in 1..Distance(base, curr) |-> buffer[Wrap(base + (i - 1))]]

-----------------------------------------------------------------------------
Init ==
  /\ flags = {} /\ home = "none" /\ inQ = FALSE
  /\ buffer = [s \in Slots |-> Junk]
  /\ curr = 0 /\ base = 0 /\ count = 0
  /\ at = "idle"
  /\ out = Outcome("none", NULL, << >>)

\* cbuf_create with a header of the caller's, which is cleared first, or with
\* none: then the header comes from malloc and keeps the flag bits it finds
\* there.  Either malloc may fail; when the buffer's does the header is freed,
\* the caller's too.
cbuf_create(given) ==
  /\ at = "idle" /\ ~CB_VALID
  /\ at' = at
  /\ \/ /\ \E found \in SUBSET Flags :
             flags' = UserFlags \cup {"VALID"}
                      \cup (IF given THEN {} ELSE found \cup {"MALLOC"})
        /\ home' = IF given THEN "caller" ELSE "heap"
        /\ buffer' = [s \in Slots |-> Junk]
        /\ curr' = 0 /\ base' = 0 /\ count' = 0
        /\ inQ' = TRUE
        /\ out' = Outcome("create", TRUE, << >>)
     \/ /\ flags' = {}
        /\ home' = IF given THEN "misfreed" ELSE "none"
        /\ out' = Outcome("create", NULL, << >>)
        /\ UNCHANGED <<ring, inQ>>

\* cbuf_destroy hands every entry to the cleanup function, invalidates and
\* unlinks the header and frees the buffer and a header of its own.
cbuf_destroy ==
  /\ at = "idle" /\ CB_VALID
  /\ out' = Outcome("destroy", TRUE,
                    IF CB_EMPTY THEN << >> ELSE Cleaned(Walk))
  /\ flags' = flags \ {"VALID"}
  /\ inQ' = FALSE
  /\ home' = IF "MALLOC" \in flags THEN "none" ELSE home
  /\ buffer' = [s \in Slots |-> Junk]
  /\ UNCHANGED <<curr, base, count, at>>

-----------------------------------------------------------------------------
(* The calls that hold the interrupt lock throughout: made by either side. *)

cbuf_enqueue_default(data) ==
  /\ IF ~CB_VALID
     THEN /\ out' = Outcome("enqueue", FALSE, << >>)
          /\ UNCHANGED ring
     ELSE IF CB_FULL /\ "OVERWRITE" \notin flags
     THEN /\ out' = Outcome("enqueue", TRUE, << >>)
          /\ UNCHANGED ring
     ELSE LET met == Bump(curr) = base
          IN  /\ buffer' = [buffer EXCEPT ![curr] = data]
              /\ curr' = Bump(curr)
              /\ count' = IF met THEN count ELSE count + 1
              /\ base' = IF met THEN Bump(base) ELSE base
              /\ out' = Outcome("enqueue", TRUE,
                                IF met THEN Cleaned(<<buffer[base]>>) ELSE << >>)
  /\ UNCHANGED <<flags, home, inQ>>

\* Mutant: count is only touched by the sanity check.
cbuf_dequeue_KeepsCount ==
  /\ CB_VALID /\ ~CB_EMPTY
  /\ out' = Outcome("dequeue", buffer[base], << >>)
  /\ base' = Bump(base)
  /\ count' = IF Bump(base) = curr THEN 0 ELSE count
  /\ UNCHANGED <<buffer, curr, flags, home, inQ>>

cbuf_dequeue_default ==
  /\ IF ~CB_VALID \/ CB_EMPTY
     THEN /\ out' = Outcome("dequeue", NULL, << >>)
          /\ UNCHANGED ring
     ELSE /\ out' = Outcome("dequeue", buffer[base], << >>)
          /\ base' = Bump(base)
          /\ count' = IF Bump(base) = curr THEN 0 ELSE count - 1
          /\ UNCHANGED <<buffer, curr>>
  /\ UNCHANGED <<flags, home, inQ>>

TaskEnqueue(d) == at = "idle" /\ Present /\ cbuf_enqueue_default(d) /\ at' = at
TaskDequeue == at = "idle" /\ Present /\ cbuf_dequeue_default /\ at' = at

\* The interrupt handler uses a buffer that was created interrupt safe.
Interruptible == CB_VALID /\ "INTERRUPT_SAFE" \in flags
IsrEnqueue(d) == Interruptible /\ cbuf_enqueue_default(d) /\ at' = at
IsrDequeue == Interruptible /\ cbuf_dequeue_default /\ at' = at

-----------------------------------------------------------------------------
(* The task's calls that test the ring before they lock it.                *)

\* Head of peek, lookup and reset: the validity and emptiness tests, made
\* with interrupts still enabled.
Return(op, ret) ==
  /\ out' = Outcome(op, ret, << >>)
  /\ at' = "idle"

PeekTest ==
  /\ at = "idle" /\ Present
  /\ IF ~CB_VALID \/ CB_EMPTY
     THEN Return("peek", NULL)
     ELSE at' = "peek" /\ out' = out
  /\ UNCHANGED <<flags, ring, home, inQ>>

PeekRead ==
  /\ at = "peek"
  /\ Return("peek", buffer[base])
  /\ UNCHANGED <<flags, ring, home, inQ>>

LookupTest ==
  /\ at = "idle" /\ Present
  /\ IF ~CB_VALID \/ CB_EMPTY
     THEN Return("lookup", NULL)
     ELSE at' = "lookup" /\ out' = out
  /\ UNCHANGED <<flags, ring, home, inQ>>

\* The caller's compare function is equality with the key.
LookupWalk(key) ==
  /\ at = "lookup"
  /\ Return("lookup",
            IF \E i \in 1..Distance(base, curr) : Walk[i] = key THEN key ELSE NULL)
  /\ UNCHANGED <<flags, ring, home, inQ>>

ResetTest ==
  /\ at = "idle" /\ Present
  /\ IF ~CB_VALID
     THEN Return("reset", FALSE)
     ELSE /\ at' = IF CB_EMPTY \/ ~HasCleanup THEN "reset_curr" ELSE "reset_walk"
          /\ out' = out
  /\ UNCHANGED <<flags, ring, home, inQ>>

\* The short path's three stores, with interrupts enabled between them.
ResetCurr ==
  /\ at = "reset_curr"
  /\ curr' = 0 /\ at' = "reset_base"
  /\ out' = Outcome("reset", TRUE, << >>)
  /\ UNCHANGED <<flags, buffer, base, count, home, inQ>>

ResetBase ==
  /\ at = "reset_base"
  /\ base' = 0 /\ at' = "reset_count"
  /\ UNCHANGED <<flags, buffer, curr, count, home, inQ, out>>

ResetCount ==
  /\ at = "reset_count"
  /\ count' = 0 /\ at' = "idle"
  /\ UNCHANGED <<flags, buffer, curr, base, home, inQ, out>>

\* The long path runs under the interrupt lock.
ResetWalk ==
  /\ at = "reset_walk"
  /\ curr' = 0 /\ base' = 0 /\ count' = 0
  /\ at' = "idle"
  /\ out' = Outcome("reset", TRUE, Cleaned(Walk))
  /\ UNCHANGED <<flags, buffer, home, inQ>>

-----------------------------------------------------------------------------
Task ==
  \/ \E given \in BOOLEAN : cbuf_create(given)
  \/ "destroy" \in TaskOps /\ cbuf_destroy
  \/ "enqueue" \in TaskOps /\ \E d \in Data : TaskEnqueue(d)
  \/ "dequeue" \in TaskOps /\ TaskDequeue
  \/ "peek" \in TaskOps /\ PeekTest
  \/ PeekRead
  \/ "lookup" \in TaskOps /\ LookupTest
  \/ \E d \in Data : LookupWalk(d)
  \/ "reset" \in TaskOps /\ ResetTest
  \/ ResetCurr \/ ResetBase \/ ResetCount \/ ResetWalk

Isr ==
  \/ "enqueue" \in IsrOps /\ \E d \in Data : IsrEnqueue(d)
  \/ "dequeue" \in IsrOps /\ IsrDequeue

Next == Task \/ Isr

Spec == Init /\ [][Next]_vars

-----------------------------------------------------------------------------
(* Properties.                                                             *)

\* The header's fields have their C types, and the ring pointers stay inside
\* the buffer that cbuf_create allocated.
TypeOK ==
  /\ flags \in SUBSET Flags
  /\ buffer \in [Slots -> Data \cup {Junk}]
  /\ curr \in Slots /\ base \in Slots /\ count \in Nat
  /\ home \in {"none", "caller", "heap", "misfreed"}
  /\ inQ \in BOOLEAN
  /\ at \in {"idle", "peek", "lookup", "reset_curr", "reset_base",
             "reset_count", "reset_walk"}

Resetting == at \in {"reset_base", "reset_count"}

\* circ_buffer.h says of count "present number of entries": outside the
\* stores of a reset it is the number of slots from base to curr.
CountIsEntries ==
  CB_VALID /\ ~Resetting => count = Distance(base, curr)

\* The ring read as the FIFO of BoundedFifo.
Contents == [i \in 1..count |-> buffer[Wrap(base + (i - 1))]]

Fifo == INSTANCE BoundedFifo WITH
          q <- IF CB_VALID /\ ~Resetting THEN Contents ELSE << >>,
          open <- CB_VALID,
          overwrite <- CB_VALID /\ "OVERWRITE" \in flags

\* Every call returns and cleans up what the bounded FIFO would.
ImplementsFifo == Fifo!Spec

\* The ways of sharing the buffer under which it keeps its promises: with an
\* interrupt handler on it nobody resets it, and nobody peeks at a buffer
\* the handler takes from.
ResetUse == IsrOps = {} \/ "reset" \notin TaskOps
PeekUse == "dequeue" \notin IsrOps \/ "peek" \notin TaskOps
=============================================================================
