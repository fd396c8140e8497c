---------------------------- MODULE MCAlgorithms ----------------------------
(***************************************************************************)
(* The library components without concurrency, checked side by side.  They *)
(* share nothing: part says which of them a behaviour is about, and the    *)
(* others rest in their idle state.                                        *)
(***************************************************************************)
EXTENDS QueueMacros, MyDList, HashTable, BitList, SortedRanges, VamTime, NetAttr, NetUtils

VARIABLE part

MCKeyBuffers == {<<1, 0, 0>>, <<3, 0, 0>>, <<3, 1, 0>>, <<3, 3, 0>>}
MCPcr == -20..300
MCFactors == {-3, 2, 3}

Parts == {"queue", "dlist", "hash", "bitlist", "text", "ranges", "time", "attr", "util"}

MCInit ==
  /\ part \in Parts
  /\ QueueInit /\ (part # "queue" => qkind = "SLIST")
  /\ DListInit /\ HashInit
  /\ IF part = "text" THEN TextInit ELSE BitListInit
  /\ IF part = "ranges" THEN RangesInit ELSE RangesIdle
  /\ IF part = "time" THEN TimeInit ELSE TimeIdle
  /\ IF part = "attr" THEN AttrInit ELSE AttrIdle
  /\ IF part = "util" THEN UtilInit ELSE UtilIdle

MCNext ==
  \/ /\ part = "queue" /\ QueueNext
     /\ UNCHANGED <<part, dlistVars, hashVars, bitlistVars, rangeVars, tcase, attrVars, utilVars>>
  \/ /\ part = "dlist" /\ DListNext
     /\ UNCHANGED <<part, queueVars, hashVars, bitlistVars, rangeVars, tcase, attrVars, utilVars>>
  \/ /\ part = "hash" /\ HashNext
     /\ UNCHANGED <<part, queueVars, dlistVars, bitlistVars, rangeVars, tcase, attrVars, utilVars>>
  \/ /\ part = "bitlist" /\ BitListNext
     /\ UNCHANGED <<part, queueVars, dlistVars, hashVars, rangeVars, tcase, attrVars, utilVars>>
  \/ /\ part = "text" /\ TextNext
     /\ UNCHANGED <<part, queueVars, dlistVars, hashVars, rangeVars, tcase, attrVars, utilVars>>
  \/ /\ part = "ranges" /\ RangesNext
     /\ UNCHANGED <<part, queueVars, dlistVars, hashVars, bitlistVars, tcase, attrVars, utilVars>>
  \/ /\ part = "time" /\ TimeNext
     /\ UNCHANGED <<part, queueVars, dlistVars, hashVars, bitlistVars, rangeVars, attrVars, utilVars>>
  \/ /\ part = "attr" /\ AttrNext
     /\ UNCHANGED <<part, queueVars, dlistVars, hashVars, bitlistVars, rangeVars, tcase, utilVars>>
  \/ /\ part = "util" /\ UtilNext
     /\ UNCHANGED <<part, queueVars, dlistVars, hashVars, bitlistVars, rangeVars, tcase, attrVars>>
=============================================================================
