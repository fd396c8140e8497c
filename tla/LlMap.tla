------------------------------- MODULE LlMap -------------------------------
(***************************************************************************)
(* netlink/ll_map.c: what is known of the interfaces, from the RTM_NEWLINK *)
(* messages seen.  The map is a value here; Netlink holds it in a variable *)
(* and hands it the messages.  A chain is a sequence of entries.           *)
(***************************************************************************)
EXTENDS Naturals, Sequences

CONSTANTS
  LlBuckets,     \* 16
  NoName         \* the absent IFLA_IFNAME attribute

\* idxmap, and the one-entry cache of ll_name_to_index.
EmptyLl == [idxmap |-> [h \in 0..(LlBuckets - 1) |-> << >>], icache |-> 0, ncache |-> NoName]

Chain(ll, idx) == ll.idxmap[idx % LlBuckets]
At(ll, idx) == {i \in 1..Len(Chain(ll, idx)) : Chain(ll, idx)[i].index = idx}
Found(ll, idx) == Chain(ll, idx)[CHOOSE i \in At(ll, idx) : \A j \in At(ll, idx) : i <= j]

ll_remember_index_Appends(ll, link) ==
  IF link.name = NoName THEN ll
  ELSE [ll EXCEPT !.idxmap[link.idx % LlBuckets] =
          Append(@, [index |-> link.idx, name |-> link.name, flags |-> link.flags])]

\* A link without a name is ignored; a known index is overwritten, a new one
\* goes to the end of its chain.
ll_remember_index(ll, link) ==
  LET entry == [index |-> link.idx, name |-> link.name, flags |-> link.flags]
  IN  IF link.name = NoName THEN ll
      ELSE [ll EXCEPT !.idxmap[link.idx % LlBuckets] =
              IF At(ll, link.idx) = {} THEN Append(@, entry)
              ELSE [i \in DOMAIN @ |-> IF @[i].index = link.idx THEN entry ELSE @[i]]]

\* The name, or NoName where the code makes up "if<index>".
ll_idx_n2a(ll, idx) == IF idx = 0 \/ At(ll, idx) = {} THEN NoName ELSE Found(ll, idx).name
ll_index_to_flags(ll, idx) == IF idx = 0 \/ At(ll, idx) = {} THEN 0 ELSE Found(ll, idx).flags

\* The cache answers whatever the map says now; a name found in the map, chain
\* by chain, is cached; a name in neither is asked of the kernel.
ll_name_to_index(ll, name, if_nametoindex) ==
  LET hits(h) == {i \in DOMAIN ll.idxmap[h] : ll.idxmap[h][i].name = name}
      chains == {h \in DOMAIN ll.idxmap : hits(h) # {}}
      chain == CHOOSE h \in chains : \A k \in chains : h <= k
      first == ll.idxmap[chain][CHOOSE i \in hits(chain) : \A j \in hits(chain) : i <= j].index
  IN  IF ll.icache # 0 /\ ll.ncache = name THEN [ll |-> ll, ret |-> ll.icache]
      ELSE IF chains # {} THEN [ll |-> [ll EXCEPT !.icache = first, !.ncache = name], ret |-> first]
           ELSE [ll |-> ll, ret |-> if_nametoindex]
=============================================================================
