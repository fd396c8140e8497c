---------------------------- MODULE SortedRanges ----------------------------
(***************************************************************************)
(* sorted_array.c, ip_range.c and baseconv.c.  The sorted arrays are a     *)
(* state machine of additions; the address tool and the conversion are     *)
(* cases: an input, to which the next step adds the result.  Addresses     *)
(* have AddrBits bits, not 32.  Indices are 1 more than the code's.        *)
(***************************************************************************)
EXTENDS Integers, Sequences, SequencesExt, FiniteSets, FiniteSetsExt

CONSTANTS
  SValues,            \* numbers put in the array
  PValues1, PValues2, \* numbers put in the pair of arrays
  MIN_BINARY_SEARCH,
  AddrBits,
  MaxNets,            \* networks in a list to join, at most
  Digits16            \* largest number baseconv is given

VARIABLES
  sarray, swant,   \* a sorted array and the set it should be
  pairs, pwant,    \* a pair of arrays, as a sequence of pairs, and its set
  rcase            \* the case: [op, in, done, out]

rangeVars == <<sarray, swant, pairs, pwant, rcase>>

-----------------------------------------------------------------------------
(* sorted_array.c                                                          *)

\* Place n at position i, moving the rest up.
Shift(array, i, n) == SubSeq(array, 1, i - 1) \o <<n>> \o SubSeq(array, i, Len(array))

sorted_array_add(array, number) ==
  LET stop == {i \in DOMAIN array : array[i] >= number}
  IN  IF stop = {} THEN Append(array, number)
      ELSE IF array[Min(stop)] = number THEN array ELSE Shift(array, Min(stop), number)

\* The search narrows i..j until it is short, then walks it; an equal number met
\* on the way is followed down to its first occurrence.
sorted_array_get_index(array, number) ==
  LET first[k \in Nat] == IF k > 1 /\ array[k - 1] = number THEN first[k - 1] ELSE k
      search[i \in Int, j \in Int] ==
        LET k == (i + j) \div 2
            stop == {x \in i..j : array[x] >= number}
        IN  IF j - i < MIN_BINARY_SEARCH
            THEN IF stop = {} THEN [found |-> FALSE, index |-> IF i <= j THEN j + 1 ELSE i]
                 ELSE [found |-> array[Min(stop)] = number, index |-> Min(stop)]
            ELSE CASE number > array[k] -> search[k + 1, j]
                   [] number < array[k] -> search[i, k - 1]
                   [] number = array[k] -> [found |-> TRUE, index |-> first[k]]
  IN  search[1, Len(array)]

\* The first of each pair.
Firsts(ps) == [i \in DOMAIN ps |-> ps[i][1]]
sorted_array_get_index_2(ps, n1, n2) ==
  LET f == sorted_array_get_index(Firsts(ps), n1)
      walk[i \in Nat] ==
        IF i > Len(ps) THEN [found |-> FALSE, index |-> i]
        ELSE IF ps[i][1] # n1 THEN [found |-> FALSE, index |-> i]
        ELSE IF ps[i][2] < n2 THEN walk[i + 1]
        ELSE [found |-> ps[i][2] = n2, index |-> i]
  IN  IF ~f.found THEN f ELSE walk[f.index]
sorted_array_add_2(ps, n1, n2) ==
  LET f == sorted_array_get_index_2(ps, n1, n2)
  IN  IF f.found THEN ps ELSE Shift(ps, f.index, <<n1, n2>>)

sorted_array_partial_compare(a1, a2) ==
  /\ Len(a1) <= Len(a2)
  /\ IF Len(a1) = Len(a2) THEN a1 = a2
     ELSE \A i \in DOMAIN a1 : \E j \in DOMAIN a2 : a1[i] = a2[j]

-----------------------------------------------------------------------------
(* ip_range.c                                                              *)

Top == 2 ^ AddrBits
Block(prefix) == 2 ^ (AddrBits - prefix)        \* the addresses of a network
\* netmask is Top - Block(prefix): all zero for prefix 0.
network(addr, prefix) == addr - (addr % Block(prefix))
broadcast(addr, prefix) == network(addr, prefix) + Block(prefix) - 1
set_bit(addr, bitno) == IF (addr \div 2 ^ (AddrBits - bitno)) % 2 = 1 THEN addr
                        ELSE addr + 2 ^ (AddrBits - bitno)

\* The networks printed, or an element "exit" where the program gives up.
Exit == [addr |-> -1, pfx |-> -1]
RECURSIVE split_range(_, _, _, _)
split_range(addr, prefix, lo, hi) ==
  IF prefix > AddrBits THEN <<Exit>>
  ELSE LET bc == broadcast(addr, prefix)
           upper == set_bit(addr, prefix + 1)
       IN  IF lo < addr \/ hi > bc THEN <<Exit>>
           ELSE IF lo = addr /\ hi = bc THEN <<[addr |-> addr, pfx |-> prefix]>>
           ELSE IF prefix = AddrBits THEN <<Exit>>
           ELSE IF hi < upper THEN split_range(addr, prefix + 1, lo, hi)
           ELSE IF lo >= upper THEN split_range(upper, prefix + 1, lo, hi)
           ELSE split_range(addr, prefix + 1, lo, broadcast(addr, prefix + 1))
                \o split_range(upper, prefix + 1, upper, hi)

compar_netaddr(a, b) == a.addr < b.addr \/ (a.addr = b.addr /\ a.pfx < b.pfx)

netaddr_to_range_SkipsEqual(nets) ==
  LET s == SortSeq(nets, compar_netaddr)
      from[i \in Nat, lo \in Nat, hi \in Nat] ==
        IF i > Len(s) THEN <<<<lo, hi>>>>
        ELSE LET bc == broadcast(s[i].addr, s[i].pfx)
             IN  IF bc = hi THEN from[i + 1, lo, hi]
                 ELSE IF s[i].addr = (hi + 1) % Top THEN from[i + 1, lo, bc]
                 ELSE <<<<lo, hi>>>> \o from[i + 1, s[i].addr, bc]
  IN  IF s = << >> THEN << >> ELSE from[2, s[1].addr, broadcast(s[1].addr, s[1].pfx)]

\* Networks read from a file, sorted, and joined to ranges: one inside the range
\* so far is skipped, one just after it extends it (hi + 1 wraps).
netaddr_to_range(nets) ==
  LET s == SortSeq(nets, compar_netaddr)
      from[i \in Nat, lo \in Nat, hi \in Nat] ==
        IF i > Len(s) THEN <<<<lo, hi>>>>
        ELSE LET bc == broadcast(s[i].addr, s[i].pfx)
             IN  CASE bc <= hi -> from[i + 1, lo, hi]
                   [] bc > hi /\ s[i].addr = (hi + 1) % Top -> from[i + 1, lo, bc]
                   [] OTHER -> <<<<lo, hi>>>> \o from[i + 1, s[i].addr, bc]
  IN  IF s = << >> THEN << >> ELSE from[2, s[1].addr, broadcast(s[1].addr, s[1].pfx)]

\* main: -j prints the ranges, -J the networks that make them up, -s those of
\* the range from one network's first address to another's last.
Join(nets) == netaddr_to_range(nets)
JoinSplit(nets) ==
  LET r == netaddr_to_range(nets)
  IN  FlattenSeq([i \in DOMAIN r |-> split_range(0, 0, r[i][1], r[i][2])])
Split(a, b) == split_range(0, 0, network(a.addr, a.pfx), broadcast(b.addr, b.pfx))

\* Digits from the end of a buffer of as many digits as the number has bits.
baseconv(num, base) ==
  LET digits[n \in Nat] == (IF n >= base THEN digits[n \div base] ELSE << >>) \o <<n % base>>
  IN  digits[num]

-----------------------------------------------------------------------------
Networks == UNION {{[addr |-> a, pfx |-> p] : a \in {b \in 0..(Top - 1) : b % Block(p) = 0}} : p \in 0..AddrBits}
NoCase == [op |-> "none", in |-> << >>, done |-> FALSE, out |-> << >>]
NoArrays == sarray = << >> /\ swant = {} /\ pairs = << >> /\ pwant = {}

RangesIdle == NoArrays /\ rcase = NoCase
RangesInit ==
  /\ NoArrays
  /\ \/ rcase = [NoCase EXCEPT !.op = "arrays"]
     \/ \E nets \in BoundedSeq(Networks, MaxNets) : rcase = [NoCase EXCEPT !.op = "join", !.in = nets]
     \/ \E a, b \in Networks : rcase = [NoCase EXCEPT !.op = "split", !.in = <<a, b>>]
     \/ \E n \in 0..Digits16, b \in 2..16 : rcase = [NoCase EXCEPT !.op = "base", !.in = <<n, b>>]

AddNumber(n) ==
  /\ rcase.op = "arrays" /\ pairs = << >>
  /\ sarray' = sorted_array_add(sarray, n) /\ swant' = swant \cup {n}
  /\ UNCHANGED <<pairs, pwant, rcase>>
AddPair(n1, n2) ==
  /\ rcase.op = "arrays" /\ sarray = << >>
  /\ pairs' = sorted_array_add_2(pairs, n1, n2) /\ pwant' = pwant \cup {<<n1, n2>>}
  /\ UNCHANGED <<sarray, swant, rcase>>

ComputeRange ==
  /\ rcase.op \in {"join", "split", "base"} /\ ~rcase.done
  /\ rcase' = [rcase EXCEPT !.done = TRUE, !.out =
       CASE rcase.op = "join" -> [ranges |-> Join(rcase.in), blocks |-> JoinSplit(rcase.in)]
         [] rcase.op = "split" -> [blocks |-> Split(rcase.in[1], rcase.in[2])]
         [] rcase.op = "base" -> [digits |-> baseconv(rcase.in[1], rcase.in[2])]]
  /\ UNCHANGED <<sarray, swant, pairs, pwant>>

RangesNext ==
  \/ \E n \in SValues : AddNumber(n)
  \/ \E n1 \in PValues1, n2 \in PValues2 : AddPair(n1, n2)
  \/ ComputeRange

-----------------------------------------------------------------------------
Less(p, q) == p[1] < q[1] \/ (p[1] = q[1] /\ p[2] < q[2])
Ascending(set, Before(_, _)) ==
  [i \in 1..Cardinality(set) |-> CHOOSE x \in set : Cardinality({y \in set : Before(y, x)}) = i - 1]
\* The index of the first number not below n, and whether it is n.
Position(array, n) ==
  [found |-> \E i \in DOMAIN array : array[i] = n,
   index |-> 1 + Cardinality({i \in DOMAIN array : array[i] < n})]

\* Numbers added in any order make an ascending array without duplicates, and
\* the two arrays of pairs are ascending together; a search gives the first
\* occurrence or the place to insert, also where it is narrowed by halves and
\* meets a run of equal numbers; one array is reported to be part of another
\* exactly when it is.
ArraysSorted ==
  /\ sarray = Ascending(swant, <)
  /\ pairs = Ascending(pwant, Less)
  /\ \A n \in SValues : sorted_array_get_index(sarray, n) = Position(sarray, n)
  /\ \A n \in PValues1 : sorted_array_get_index(Firsts(pairs), n) = Position(Firsts(pairs), n)
  /\ pairs = << >> =>
       \A s \in SUBSET SValues :
         sorted_array_partial_compare(sarray, Ascending(s, <)) <=> swant \subseteq s

Addresses(net) == net.addr..broadcast(net.addr, net.pfx)
\* The fewest networks that make up a set of addresses are the largest ones
\* that lie inside it.
Largest(set) ==
  LET inside == {n \in Networks : Addresses(n) \subseteq set}
  IN  {n \in inside : \A m \in inside : Addresses(n) \subseteq Addresses(m) => n = m}
Minimal(blocks, set) == ToSet(blocks) = Largest(set) /\ Len(blocks) = Cardinality(Largest(set))

\* Joined networks are the maximal runs of the addresses they hold, from the
\* lowest to the one with all bits set; joined or split, they are printed as
\* the minimum number of networks, in order; a range that ends before it starts
\* prints nothing and ends the program.  Numbers converted to a base have that
\* value and fit the buffer.
RangesExact ==
  rcase.done =>
    /\ rcase.op = "join" =>
         LET set == UNION {Addresses(rcase.in[i]) : i \in DOMAIN rcase.in}
             r == rcase.out.ranges
         IN  /\ UNION {r[i][1]..r[i][2] : i \in DOMAIN r} = set
             /\ \A i, j \in DOMAIN r : i < j => r[i][2] + 1 < r[j][1]
             /\ Minimal(rcase.out.blocks, set)
    /\ rcase.op = "split" =>
         LET lo == rcase.in[1].addr
             hi == broadcast(rcase.in[2].addr, rcase.in[2].pfx)
         IN  IF lo > hi THEN rcase.out.blocks = <<Exit>>
             ELSE /\ Minimal(rcase.out.blocks, lo..hi)
                  /\ \A i, j \in DOMAIN rcase.out.blocks :
                       i < j => rcase.out.blocks[i].addr < rcase.out.blocks[j].addr
    /\ rcase.op = "base" =>
         LET d == rcase.out.digits
             value[i \in 0..Len(d)] == IF i = 0 THEN 0 ELSE value[i - 1] * rcase.in[2] + d[i]
         IN  value[Len(d)] = rcase.in[1] /\ 2 ^ (Len(d) - 1) <= IF rcase.in[1] = 0 THEN 1 ELSE rcase.in[1]

\* The arrays stay sorted and searchable, and address ranges are joined and split
\* without losing or adding an address (the two above).
OrderedExactly == ArraysSorted /\ RangesExact
=============================================================================
