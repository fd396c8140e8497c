---------------------------- MODULE QueueMacros ----------------------------
(***************************************************************************)
(* The list macros of bsd_hash/queue_plus.h: SLIST, STAILQ, LIST, TAILQ,   *)
(* CIRCLEQ and the kernel's insque and remque (here "QUE").                *)
(*                                                                         *)
(* A head and an element's entry have the same layout in all of them, a    *)
(* forward field and (not in SLIST) a backward one, and the code relies on *)
(* it (TAILQ_LAST reads an entry as a head).  So memory is two functions   *)
(* over Cells: next is slh_first/sle_next and so on, prev is stqh_last,    *)
(* le_prev, tqh_last/tqe_prev, cqh_last/cqe_prev, qh_rlink.  The address   *)
(* of a cell's forward field is written as the cell.  An element's fields  *)
(* are Garbage until it is first inserted and keep their last values once  *)
(* it is removed.                                                          *)
(***************************************************************************)
EXTENDS Naturals, Sequences, FiniteSets, SequencesExt

CONSTANTS Elems, QHead, QNull, Garbage

ASSUME QueueAssumption ==
  /\ IsFiniteSet(Elems)
  /\ QHead \notin Elems /\ QNull \notin Elems /\ Garbage \notin Elems
  /\ QHead # QNull /\ QHead # Garbage /\ QNull # Garbage

VARIABLES
  qkind,   \* which of the six lists this is
  links,   \* the memory, [next, prev]
  queue    \* the elements in order, as queue(3) describes each call

queueVars == <<qkind, links, queue>>

Cells == Elems \cup {QHead}
QKinds == {"SLIST", "STAILQ", "LIST", "TAILQ", "CIRCLEQ", "QUE"}

-----------------------------------------------------------------------------
(* Traversals.  A walk gives up after as many steps as there are cells and *)
(* at what is no cell.                                                     *)

Walk(link, end) ==
  LET from[n \in Nat] ==
        [c \in Cells \cup {QNull, Garbage} |->
          IF n = 0 \/ c = end \/ c \notin Cells THEN << >>
          ELSE <<c>> \o from[n - 1][link[c]]]
  IN  from[Cardinality(Cells)][link[QHead]]

SLIST_FOREACH(m) == Walk(m.next, QNull)
STAILQ_FOREACH(m) == Walk(m.next, QNull)
LIST_FOREACH(m) == Walk(m.next, QNull)
TAILQ_FOREACH(m) == Walk(m.next, QNull)
CIRCLEQ_FOREACH(m) == Walk(m.next, QHead)
CIRCLEQ_FOREACH_REVERSE(m) == Walk(m.prev, QHead)

\* *(((struct headname *)(cell.prev))->tqh_last): the backward field of the
\* cell that points here is the address of a forward field, which is read.  A
\* field that was never assigned leads nowhere.
TAILQ_PREV(m, c) ==
  IF m.prev[c] \in Cells /\ m.prev[m.prev[c]] \in Cells THEN m.next[m.prev[m.prev[c]]] ELSE Garbage
TAILQ_LAST(m) == TAILQ_PREV(m, QHead)

STAILQ_LAST(m) == IF m.next[QHead] = QNull THEN QNull ELSE m.prev[QHead]

TAILQ_FOREACH_REVERSE(m) == Walk([c \in Cells |-> TAILQ_PREV(m, c)], QNull)

\* The cell whose forward field a singly-linked removal finds to point to e.
Before(m, e) == CHOOSE c \in {QHead} \cup ToSet(SLIST_FOREACH(m)) : m.next[c] = e

-----------------------------------------------------------------------------
(* Each macro as the memory it leaves.  In an EXCEPT the assignments are   *)
(* in the order of the code; every right-hand side is read first, as the   *)
(* code does or as no assignment in between can tell.                      *)

Blank == [next |-> [c \in Cells |-> Garbage], prev |-> [c \in Cells |-> Garbage]]
SLIST_INIT == [Blank EXCEPT !.next[QHead] = QNull]
STAILQ_INIT == [Blank EXCEPT !.next[QHead] = QNull, !.prev[QHead] = QHead]
LIST_INIT == [Blank EXCEPT !.next[QHead] = QNull]
TAILQ_INIT == [Blank EXCEPT !.next[QHead] = QNull, !.prev[QHead] = QHead]
CIRCLEQ_INIT == [Blank EXCEPT !.next[QHead] = QHead, !.prev[QHead] = QHead]

SLIST_INSERT_AFTER(m, l, e) == [m EXCEPT !.next[e] = m.next[l], !.next[l] = e]
SLIST_INSERT_HEAD(m, e) == SLIST_INSERT_AFTER(m, QHead, e)
SLIST_REMOVE_HEAD(m) == [m EXCEPT !.next[QHead] = m.next[m.next[QHead]]]
SLIST_REMOVE(m, e) ==
  IF m.next[QHead] = e THEN SLIST_REMOVE_HEAD(m)
  ELSE [m EXCEPT !.next[Before(m, e)] = m.next[e]]

\* The head's last pointer follows when cell c has become the last one.
IfLast(m, c) == IF m.next[c] = QNull THEN [m EXCEPT !.prev[QHead] = c] ELSE m
STAILQ_INSERT_AFTER(m, l, e) == IfLast(SLIST_INSERT_AFTER(m, l, e), e)
STAILQ_INSERT_HEAD(m, e) == STAILQ_INSERT_AFTER(m, QHead, e)
STAILQ_INSERT_TAIL(m, e) ==
  [m EXCEPT !.next[e] = QNull, !.next[m.prev[QHead]] = e, !.prev[QHead] = e]
STAILQ_REMOVE_HEAD(m) == IfLast(SLIST_REMOVE_HEAD(m), QHead)
STAILQ_REMOVE_HEAD_UNTIL(m, e) == IfLast([m EXCEPT !.next[QHead] = m.next[e]], QHead)
STAILQ_REMOVE(m, e) ==
  IF m.next[QHead] = e THEN STAILQ_REMOVE_HEAD(m)
  ELSE IfLast(SLIST_REMOVE(m, e), Before(m, e))

\* Assign to the backward field of a cell, if the pointer to it is not null.
SetPrev(prev, c, v) == IF c = QNull THEN prev ELSE [prev EXCEPT ![c] = v]
LIST_INSERT_AFTER(m, l, e) ==
  [next |-> [m.next EXCEPT ![e] = m.next[l], ![l] = e],
   prev |-> [SetPrev(m.prev, m.next[l], e) EXCEPT ![e] = l]]
LIST_INSERT_BEFORE(m, l, e) ==
  [next |-> [m.next EXCEPT ![e] = l, ![m.prev[l]] = e],
   prev |-> [m.prev EXCEPT ![e] = m.prev[l], ![l] = e]]
LIST_INSERT_HEAD(m, e) == LIST_INSERT_AFTER(m, QHead, e)
LIST_REMOVE(m, e) ==
  [next |-> [m.next EXCEPT ![m.prev[e]] = m.next[e]],
   prev |-> SetPrev(m.prev, m.next[e], m.prev[e])]

\* The cell whose backward field must follow: the next element, or the head
\* when there is none.
OrHead(c) == IF c = QNull THEN QHead ELSE c
TAILQ_INSERT_AFTER(m, l, e) ==
  [next |-> [m.next EXCEPT ![e] = m.next[l], ![l] = e],
   prev |-> [m.prev EXCEPT ![OrHead(m.next[l])] = e, ![e] = l]]
TAILQ_INSERT_BEFORE(m, l, e) == LIST_INSERT_BEFORE(m, l, e)
TAILQ_INSERT_HEAD(m, e) == TAILQ_INSERT_AFTER(m, QHead, e)
TAILQ_INSERT_TAIL(m, e) ==
  [next |-> [m.next EXCEPT ![e] = QNull, ![m.prev[QHead]] = e],
   prev |-> [m.prev EXCEPT ![e] = m.prev[QHead], ![QHead] = e]]
TAILQ_REMOVE_NoLast(m, e) == LIST_REMOVE(m, e)
TAILQ_REMOVE(m, e) ==
  [next |-> [m.next EXCEPT ![m.prev[e]] = m.next[e]],
   prev |-> [m.prev EXCEPT ![OrHead(m.next[e])] = m.prev[e]]]

\* cqh_first and cqh_last are the head cell's fields, so the tests for the
\* head choose between the same two fields of different cells.
CIRCLEQ_INSERT_AFTER(m, l, e) ==
  [next |-> [m.next EXCEPT ![e] = m.next[l], ![l] = e],
   prev |-> [m.prev EXCEPT ![e] = l, ![m.next[l]] = e]]
CIRCLEQ_INSERT_BEFORE(m, l, e) ==
  [next |-> [m.next EXCEPT ![e] = l, ![m.prev[l]] = e],
   prev |-> [m.prev EXCEPT ![e] = m.prev[l], ![l] = e]]
CIRCLEQ_INSERT_HEAD(m, e) == CIRCLEQ_INSERT_AFTER(m, QHead, e)
CIRCLEQ_INSERT_TAIL(m, e) == CIRCLEQ_INSERT_BEFORE(m, QHead, e)
CIRCLEQ_REMOVE(m, e) ==
  [next |-> [m.next EXCEPT ![m.prev[e]] = m.next[e]],
   prev |-> [m.prev EXCEPT ![m.next[e]] = m.prev[e]]]

insque(m, e, b) ==
  [next |-> [m.next EXCEPT ![e] = m.next[b], ![b] = e],
   prev |-> [m.prev EXCEPT ![e] = b, ![m.next[b]] = e]]
remque(m, e) ==
  [next |-> [m.next EXCEPT ![m.prev[e]] = m.next[e]],
   prev |-> [m.prev EXCEPT ![m.next[e]] = m.prev[e], ![e] = QNull]]

-----------------------------------------------------------------------------
(* Callers insert an element that is on no list and remove one that is.    *)

OnList == ToSet(queue)
Place(e) == CHOOSE i \in 1..Len(queue) : queue[i] = e

QueueInit ==
  /\ qkind \in QKinds
  /\ links = CASE qkind = "SLIST"  -> SLIST_INIT
               [] qkind = "STAILQ" -> STAILQ_INIT
               [] qkind = "LIST"   -> LIST_INIT
               [] qkind = "TAILQ"  -> TAILQ_INIT
               [] OTHER            -> CIRCLEQ_INIT
  /\ queue = << >>

QInsertHead(e) ==
  /\ e \notin OnList
  /\ links' = CASE qkind = "SLIST"   -> SLIST_INSERT_HEAD(links, e)
                [] qkind = "STAILQ"  -> STAILQ_INSERT_HEAD(links, e)
                [] qkind = "LIST"    -> LIST_INSERT_HEAD(links, e)
                [] qkind = "TAILQ"   -> TAILQ_INSERT_HEAD(links, e)
                [] qkind = "CIRCLEQ" -> CIRCLEQ_INSERT_HEAD(links, e)
                [] qkind = "QUE"     -> insque(links, e, QHead)
  /\ queue' = <<e>> \o queue
  /\ UNCHANGED qkind

QInsertTail(e) ==
  /\ e \notin OnList /\ qkind \in {"STAILQ", "TAILQ", "CIRCLEQ"}
  /\ links' = CASE qkind = "STAILQ"  -> STAILQ_INSERT_TAIL(links, e)
                [] qkind = "TAILQ"   -> TAILQ_INSERT_TAIL(links, e)
                [] qkind = "CIRCLEQ" -> CIRCLEQ_INSERT_TAIL(links, e)
  /\ queue' = Append(queue, e)
  /\ UNCHANGED qkind

QInsertAfter(l, e) ==
  /\ l \in OnList /\ e \notin OnList
  /\ links' = CASE qkind = "SLIST"   -> SLIST_INSERT_AFTER(links, l, e)
                [] qkind = "STAILQ"  -> STAILQ_INSERT_AFTER(links, l, e)
                [] qkind = "LIST"    -> LIST_INSERT_AFTER(links, l, e)
                [] qkind = "TAILQ"   -> TAILQ_INSERT_AFTER(links, l, e)
                [] qkind = "CIRCLEQ" -> CIRCLEQ_INSERT_AFTER(links, l, e)
                [] qkind = "QUE"     -> insque(links, e, l)
  /\ queue' = InsertAt(queue, Place(l) + 1, e)
  /\ UNCHANGED qkind

QInsertBefore(l, e) ==
  /\ l \in OnList /\ e \notin OnList /\ qkind \in {"LIST", "TAILQ", "CIRCLEQ"}
  /\ links' = CASE qkind = "LIST"    -> LIST_INSERT_BEFORE(links, l, e)
                [] qkind = "TAILQ"   -> TAILQ_INSERT_BEFORE(links, l, e)
                [] qkind = "CIRCLEQ" -> CIRCLEQ_INSERT_BEFORE(links, l, e)
  /\ queue' = InsertAt(queue, Place(l), e)
  /\ UNCHANGED qkind

QRemove(e) ==
  /\ e \in OnList
  /\ links' = CASE qkind = "SLIST"   -> SLIST_REMOVE(links, e)
                [] qkind = "STAILQ"  -> STAILQ_REMOVE(links, e)
                [] qkind = "LIST"    -> LIST_REMOVE(links, e)
                [] qkind = "TAILQ"   -> TAILQ_REMOVE(links, e)
                [] qkind = "CIRCLEQ" -> CIRCLEQ_REMOVE(links, e)
                [] qkind = "QUE"     -> remque(links, e)
  /\ queue' = RemoveAt(queue, Place(e))
  /\ UNCHANGED qkind

QRemoveHead ==
  /\ queue # << >> /\ qkind \in {"SLIST", "STAILQ"}
  /\ links' = IF qkind = "SLIST" THEN SLIST_REMOVE_HEAD(links) ELSE STAILQ_REMOVE_HEAD(links)
  /\ queue' = Tail(queue)
  /\ UNCHANGED qkind

QRemoveUntil(e) ==
  /\ e \in OnList /\ qkind = "STAILQ"
  /\ links' = STAILQ_REMOVE_HEAD_UNTIL(links, e)
  /\ queue' = SubSeq(queue, Place(e) + 1, Len(queue))
  /\ UNCHANGED qkind

QueueNext ==
  \/ \E e \in Elems : QInsertHead(e) \/ QInsertTail(e) \/ QRemove(e) \/ QRemoveUntil(e)
  \/ \E e, l \in Elems : QInsertAfter(l, e) \/ QInsertBefore(l, e)
  \/ QRemoveHead
QueueSpec == QueueInit /\ [][QueueNext]_queueVars

-----------------------------------------------------------------------------
\* After any sequence of insertions and removals, of elements with stale link
\* fields too, a traversal of each of the six lists meets exactly the elements
\* on it, in order; a backward traversal meets them in reverse, also where the
\* code reads an entry as if it were a head (TAILQ_LAST, TAILQ_PREV); and the
\* tail pointer of a STAILQ finds the last element.
TraversalsMeetQueue ==
  CASE qkind = "SLIST"  -> SLIST_FOREACH(links) = queue
    [] qkind = "STAILQ" ->
         /\ STAILQ_FOREACH(links) = queue
         /\ STAILQ_LAST(links) = IF queue = << >> THEN QNull ELSE Last(queue)
    [] qkind = "LIST"   -> LIST_FOREACH(links) = queue
    [] qkind = "TAILQ"  ->
         /\ TAILQ_FOREACH(links) = queue
         /\ TAILQ_FOREACH_REVERSE(links) = Reverse(queue)
    [] OTHER            ->
         /\ CIRCLEQ_FOREACH(links) = queue
         /\ CIRCLEQ_FOREACH_REVERSE(links) = Reverse(queue)
=============================================================================
