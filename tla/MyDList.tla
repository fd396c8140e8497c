------------------------------ MODULE MyDList ------------------------------
(***************************************************************************)
(* The intrusive doubly-linked list of DList-test/MyDList.hpp: lists and   *)
(* objects whose DListNode links them, and a callers' view of every list   *)
(* as a sequence.  getNode and getObject only add and subtract the offset  *)
(* of the node in its object, so an object and its node are one name, and  *)
(* a list's Null() is its own head.  CountedDList declares remove twice,   *)
(* static and not, which no compiler accepts; it is not modelled.          *)
(***************************************************************************)
EXTENDS Naturals, Sequences, FiniteSets, SequencesExt

CONSTANTS Objs, DLists, DNull, DGarbage

\* Objects and lists are different memory, and neither is at the null address.
ASSUME DListAssumption ==
  IsFiniteSet(Objs \cup DLists) /\ Objs \cap DLists = {} /\ DNull \notin Objs \cup DLists

VARIABLES
  dmem,    \* m_next and m_prev of every node and of every listHead
  dseq,    \* the objects on each list in order
  dmoved   \* lists whose objects moveList gave to another list

dlistVars == <<dmem, dseq, dmoved>>

DNodes == Objs \cup DLists

\* DListNode() leaves m_prev alone; DList() makes the head its own neighbour.
DListNode == [next |-> DNull, prev |-> DGarbage]
DList(h) == [next |-> h, prev |-> h]

isOnList(t) == dmem[t].next # DNull
isEmpty(h) == dmem[h].next = h
getHead(h) == dmem[h].next
getTail(h) == dmem[h].prev
getNext(t) == dmem[t].next
getPrev(t) == dmem[t].prev

\* The objects met from the list's head along a link, up to the first of stop.
\* It gives up at what is no node and after as many steps as there are nodes.
Along(link, h, stop) ==
  LET from[n \in Nat] ==
        [c \in DNodes \cup {DNull, DGarbage} |->
          IF n = 0 \/ c = h \/ c \notin DNodes THEN << >>
          ELSE IF c \in stop THEN <<c>> ELSE <<c>> \o from[n - 1][link[c]]]
  IN  from[Cardinality(DNodes)][link[h]]
\* foreach calls f on the objects in order until f returns nonzero; this is
\* the sequence of objects it is called on when f does so for those of stop.
foreach(h, stop) == Along([c \in DNodes |-> getNext(c)], h, stop)
backward(h) == Along([c \in DNodes |-> getPrev(c)], h, {})
isMember(h, t) == t \in ToSet(foreach(h, {t}))

-----------------------------------------------------------------------------
insertAfter(m, afterHere, n) ==
  [m EXCEPT ![n] = [next |-> m[afterHere].next, prev |-> afterHere],
            ![afterHere].next = n, ![m[afterHere].next].prev = n]
insertBefore(m, beforeHere, n) ==
  [m EXCEPT ![n] = [next |-> beforeHere, prev |-> m[beforeHere].prev],
            ![m[beforeHere].prev].next = n, ![beforeHere].prev = n]
remove_LeavesPrev(m, n) == [m EXCEPT ![m[n].prev].next = m[n].next, ![n].next = DNull]
remove(m, n) ==
  [m EXCEPT ![m[n].next].prev = m[n].prev, ![m[n].prev].next = m[n].next,
            ![n].next = DNull]

\* The first object, if there is one, is taken out.
withoutHead(m, h) == IF m[h].next = h THEN m ELSE remove(m, m[h].next)

\* swap takes both objects out and puts each behind the other's old
\* predecessor; neighbours would lose theirs and are exchanged in place.
swap(m, item1, item2) ==
  LET prev1 == m[item1].prev
      prev2 == m[item2].prev
  IN  CASE item1 = item2 -> m
        [] item1 # item2 /\ prev1 = item2 -> insertAfter(remove(m, item2), item1, item2)
        [] item1 # item2 /\ prev1 # item2 /\ prev2 = item1 ->
             insertAfter(remove(m, item1), item2, item1)
        [] OTHER ->
             insertAfter(insertAfter(remove(remove(m, item1), item2), prev1, item2),
                         prev2, item1)

\* moveList splices the source's objects in before the end of the list.  The
\* source's head still points to them.
moveList(m, h, source) ==
  IF m[source].next = source THEN m
  ELSE LET first == m[source].next
           last  == m[source].prev
       IN  [m EXCEPT ![last].next = h, ![first].prev = m[h].prev,
                     ![m[h].prev].next = first, ![h].prev = last]

-----------------------------------------------------------------------------
(* Calls.  A list that has been moved from is not used again: its head     *)
(* refers to objects of the other list.                                    *)

Usable == DLists \ dmoved
Loose == Objs \ UNION {ToSet(dseq[h]) : h \in Usable}
PlaceOf(h, t) == CHOOSE i \in 1..Len(dseq[h]) : dseq[h][i] = t

DListInit ==
  /\ dmem = [c \in DNodes |-> IF c \in DLists THEN DList(c) ELSE DListNode]
  /\ dseq = [h \in DLists |-> << >>]
  /\ dmoved = {}

addHead(h, t) ==
  /\ t \in Loose
  /\ dmem' = insertAfter(dmem, h, t)
  /\ dseq' = [dseq EXCEPT ![h] = <<t>> \o @]
  /\ UNCHANGED dmoved

addTail(h, t) ==
  /\ t \in Loose
  /\ dmem' = insertBefore(dmem, h, t)
  /\ dseq' = [dseq EXCEPT ![h] = Append(@, t)]
  /\ UNCHANGED dmoved

DInsert(h, t, here) ==
  /\ t \in Loose /\ here \in ToSet(dseq[h])
  /\ \/ /\ dmem' = insertAfter(dmem, here, t)
        /\ dseq' = [dseq EXCEPT ![h] = InsertAt(@, PlaceOf(h, here) + 1, t)]
     \/ /\ dmem' = insertBefore(dmem, here, t)
        /\ dseq' = [dseq EXCEPT ![h] = InsertAt(@, PlaceOf(h, here), t)]
  /\ UNCHANGED dmoved

DRemove(h, t) ==
  /\ t \in ToSet(dseq[h])
  /\ dmem' = remove(dmem, t)
  /\ dseq' = [dseq EXCEPT ![h] = RemoveAt(@, PlaceOf(h, t))]
  /\ UNCHANGED dmoved

removeHead(h) ==
  /\ dmem' = withoutHead(dmem, h)
  /\ dseq' = [dseq EXCEPT ![h] = IF @ = << >> THEN @ ELSE Tail(@)]
  /\ UNCHANGED dmoved

removeAll(h) ==
  /\ dmem' = LET rest[n \in Nat] ==   \* after n turns of the loop
                   IF n = 0 THEN dmem ELSE withoutHead(rest[n - 1], h)
             IN  rest[Len(foreach(h, {}))]
  /\ dseq' = [dseq EXCEPT ![h] = << >>]
  /\ UNCHANGED dmoved

\* The objects are deleted; a new object is constructed in their place.
deleteItems(h) ==
  /\ dmem' = [c \in DNodes |-> IF c = h THEN DList(h)
                               ELSE IF c \in ToSet(foreach(h, {})) THEN DListNode
                               ELSE dmem[c]]
  /\ dseq' = [dseq EXCEPT ![h] = << >>]
  /\ UNCHANGED dmoved

DSwap(h, item1, item2) ==
  /\ {item1, item2} \subseteq ToSet(dseq[h])
  /\ dmem' = swap(dmem, item1, item2)
  /\ dseq' = [dseq EXCEPT ![h][PlaceOf(h, item1)] = item2, ![h][PlaceOf(h, item2)] = item1]
  /\ UNCHANGED dmoved

DMove(h, source) ==
  /\ h # source /\ source \in Usable
  /\ dmem' = moveList(dmem, h, source)
  /\ dseq' = [dseq EXCEPT ![h] = @ \o dseq[source], ![source] = << >>]
  /\ dmoved' = IF isEmpty(source) THEN dmoved ELSE dmoved \cup {source}

DListNext ==
  \E h \in Usable :
    \/ removeHead(h) \/ removeAll(h) \/ deleteItems(h)
    \/ \E t \in Objs : addHead(h, t) \/ addTail(h, t) \/ DRemove(h, t)
    \/ \E t, s \in Objs : DInsert(h, t, s) \/ DSwap(h, t, s)
    \/ \E source \in DLists : DMove(h, source)
DListSpec == DListInit /\ [][DListNext]_dlistVars

-----------------------------------------------------------------------------
\* Every list that was not moved from is its sequence, read forwards, read
\* backwards and asked for members, whatever insertions, swaps of neighbours
\* or of the ends, moves and removals came before; and an object says it is on
\* a list exactly when it is on one.
DListIsSequence ==
  /\ \A h \in Usable :
       /\ foreach(h, {}) = dseq[h]
       /\ backward(h) = Reverse(dseq[h])
       /\ isEmpty(h) <=> dseq[h] = << >>
       /\ \A t \in Objs : isMember(h, t) <=> t \in ToSet(dseq[h])
  /\ \A t \in Objs : isOnList(t) <=> t \notin Loose
=============================================================================
