---------------------------- MODULE BoundedFifo ----------------------------
(***************************************************************************)
(* What circ_buffer.c promises its callers: a FIFO of at most Max entries  *)
(* that, when full, either drops the newest entry (and still reports       *)
(* success) or, with CB_FLAGS_OVERWRITE, hands the oldest to the cleanup   *)
(* function.  "out" is what the last call returned and what it cleaned up. *)
(***************************************************************************)
EXTENDS Naturals, Sequences

CONSTANTS
  Data,        \* the pointers callers queue
  NULL,        \* the null pointer
  Max,         \* entries the caller asked for
  HasCleanup   \* a cleanup function was given to cbuf_create

VARIABLES
  q,           \* the queued entries, oldest first
  open,        \* the buffer exists and is valid
  overwrite,   \* CB_FLAGS_OVERWRITE is in effect
  out          \* outcome of the last call: [op, ret, freed]

vars == <<q, open, overwrite, out>>

Outcome(op, ret, freed) == [op |-> op, ret |-> ret, freed |-> freed]

\* What the cleanup function is called with for the entries s.
Cleaned(s) == IF HasCleanup THEN s ELSE << >>

Init ==
  /\ q = << >>
  /\ open = FALSE
  /\ overwrite = FALSE
  /\ out = Outcome("none", NULL, << >>)

Open ==
  /\ ~open
  /\ \/ /\ open' = TRUE
        /\ overwrite' \in BOOLEAN
        /\ q' = << >>
        /\ out' = Outcome("create", TRUE, << >>)
     \/ /\ out' = Outcome("create", NULL, << >>)
        /\ UNCHANGED <<q, open, overwrite>>

Put(d) ==
  /\ open
  /\ \/ /\ Len(q) < Max
        /\ q' = Append(q, d)
        /\ out' = Outcome("enqueue", TRUE, << >>)
     \/ /\ Len(q) = Max
        /\ overwrite
        /\ q' = Append(Tail(q), d)
        /\ out' = Outcome("enqueue", TRUE, Cleaned(<<Head(q)>>))
     \/ /\ Len(q) = Max
        /\ ~overwrite
        /\ q' = q
        /\ out' = Outcome("enqueue", TRUE, << >>)
  /\ UNCHANGED <<open, overwrite>>

Get ==
  /\ \/ /\ open /\ q # << >>
        /\ q' = Tail(q)
        /\ out' = Outcome("dequeue", Head(q), << >>)
     \/ /\ ~open \/ q = << >>
        /\ q' = q
        /\ out' = Outcome("dequeue", NULL, << >>)
  /\ UNCHANGED <<open, overwrite>>

Peek ==
  /\ out' = Outcome("peek", IF open /\ q # << >> THEN Head(q) ELSE NULL, << >>)
  /\ UNCHANGED <<q, open, overwrite>>

\* A lookup with key k finds k exactly when an entry equal to it is queued.
Find(k) ==
  /\ out' = Outcome("lookup",
                    IF open /\ \E i \in 1..Len(q) : q[i] = k THEN k ELSE NULL,
                    << >>)
  /\ UNCHANGED <<q, open, overwrite>>

Clear ==
  /\ open
  /\ q' = << >>
  /\ out' = Outcome("reset", TRUE, Cleaned(q))
  /\ UNCHANGED <<open, overwrite>>

Close ==
  /\ open
  /\ open' = FALSE
  /\ q' = << >>
  /\ overwrite' = FALSE
  /\ out' = Outcome("destroy", TRUE, Cleaned(q))

\* A call on a buffer that is not valid changes nothing and reports failure.
Refuse(op) ==
  /\ ~open
  /\ out' = Outcome(op, FALSE, << >>)
  /\ UNCHANGED <<q, open, overwrite>>

Next ==
  \/ Open \/ Get \/ Peek \/ Clear \/ Close
  \/ \E d \in Data : Put(d) \/ Find(d)
  \/ \E op \in {"enqueue", "reset"} : Refuse(op)

Spec == Init /\ [][Next]_vars
=============================================================================
