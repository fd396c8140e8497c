------------------------------ MODULE BitList ------------------------------
(***************************************************************************)
(* The dynamic bit lists of bitlist.c/.h.  A bit list is its state record  *)
(* and its array of elements, which is modelled by the set of positions of *)
(* the bits that are 1: bit b of element e has position e * BITS_PER_ELEM  *)
(* + b.  The last element may have more bits than the list: positions from *)
(* max_bits on, which are part of the model because some calls set them.   *)
(*                                                                         *)
(* Part one is a state machine over two lists of one type (what the        *)
(* wrappers of bitlist.h ensure) and a shorter one, with the set of        *)
(* numbers each should hold.  Part two is the conversion to and from text. *)
(***************************************************************************)
EXTENDS Integers, Sequences, SequencesExt, FiniteSets, FiniteSetsExt

CONSTANTS
  BITS_PER_ELEM,
  Bits, ShortBits,   \* max_bits of the lists a and b, and of the list s
  Base,              \* base_bit of the three
  TextBits, TextBase,\* the list that is written and read as text
  LineSizes,         \* room for the numbers of a line, in characters
  MaxTokens          \* bound on the length of a text that is read

ASSUME BitListAssumption ==
  {BITS_PER_ELEM, Bits, ShortBits, TextBits} \subseteq Nat \ {0} /\ ShortBits <= Bits

VARIABLES
  lists,     \* the bit lists a, b and s
  members,   \* the numbers each should hold
  text       \* a conversion: the list, the lines written, the texts read

bitlistVars == <<lists, members, text>>

BITLIST_INVALID == -1
BITS_TO_ELEMS(bits) == (bits + BITS_PER_ELEM - 1) \div BITS_PER_ELEM
\* C truncates: the element of position -1 is 0, its bit the last one.
BIT_TO_ELEM(bit) == IF bit < 0 THEN 0 ELSE bit \div BITS_PER_ELEM
BIT_TO_BIT(bit) == bit % BITS_PER_ELEM

max_elems(bl) == BITS_TO_ELEMS(bl.max_bits)
\* Positions of n elements from element e.
Elements(e, n) == (e * BITS_PER_ELEM)..((e + n) * BITS_PER_ELEM - 1)

bitlist_validbit(bl, bit) == 0 <= bit /\ bit < bl.max_bits
bitlist_validrange(bl, bit, bits) ==
  bitlist_validbit(bl, bit - bl.base) /\ bitlist_validbit(bl, bit + bits - bl.base - 1)

bitlist_test(bl, bit) == bitlist_validbit(bl, bit - bl.base) /\ (bit - bl.base) \in bl.bits
bitlist_set(bl, bit) ==
  IF bitlist_validbit(bl, bit - bl.base) THEN [bl EXCEPT !.bits = @ \cup {bit - bl.base}] ELSE bl
bitlist_clear(bl, bit) ==
  IF bitlist_validbit(bl, bit - bl.base) THEN [bl EXCEPT !.bits = @ \ {bit - bl.base}] ELSE bl

bitlist_clearall(bits, base) ==
  [max_bits |-> bits, base |-> base, last_elem |-> 0, last_bit |-> 0, bits |-> {}]
\* All elements are filled, then the overflow bits of the last one are cleared.
bitlist_setall(bits, base) ==
  [bitlist_clearall(bits, base) EXCEPT !.bits =
     Elements(0, BITS_TO_ELEMS(bits)) \ {p \in Elements(BITS_TO_ELEMS(bits) - 1, 1) :
       BIT_TO_BIT(bits) # 0 /\ BIT_TO_BIT(p) >= BIT_TO_BIT(bits)}]
bitlist_clearall2(bl) == [bl EXCEPT !.bits = {}]

\* Whole elements only: a run that starts or ends inside one is left alone.
Aligned(bl, bit, bits) == BIT_TO_BIT(bit - bl.base) = 0 /\ bits % BITS_PER_ELEM = 0
Run(bl, bit, bits) == Elements(BIT_TO_ELEM(bit - bl.base), BITS_TO_ELEMS(bits))
bitlist_set_contiguous(bl, bit, bits) ==
  IF bitlist_validrange(bl, bit, bits) /\ Aligned(bl, bit, bits)
  THEN [bl EXCEPT !.bits = @ \cup Run(bl, bit, bits)] ELSE bl
bitlist_clear_contiguous(bl, bit, bits) ==
  IF bitlist_validrange(bl, bit, bits) /\ Aligned(bl, bit, bits)
  THEN [bl EXCEPT !.bits = @ \ Run(bl, bit, bits)] ELSE bl

bitlist_find_bit_SkipsElem(bl, first) ==
  LET start == IF first THEN 0 ELSE (bl.last_elem + 1) * BITS_PER_ELEM
      found == {p \in bl.bits : p >= start /\ p < bl.max_bits}
  IN  IF found = {} THEN [bl |-> [bl EXCEPT !.last_elem = max_elems(bl)], ret |-> BITLIST_INVALID]
      ELSE [bl |-> [bl EXCEPT !.last_elem = BIT_TO_ELEM(Min(found)), !.last_bit = BIT_TO_BIT(Min(found))],
            ret |-> Min(found) + bl.base]

\* The search goes on after (last_elem, last_bit) and remembers where it ended;
\* past the end it stays there.
bitlist_find_bit(bl, first) ==
  LET start == IF first THEN 0 ELSE bl.last_elem * BITS_PER_ELEM + bl.last_bit + 1
      found == {p \in bl.bits : p >= start}
      pos   == IF found = {} THEN max_elems(bl) * BITS_PER_ELEM ELSE Min(found)
      there == [bl EXCEPT !.last_elem = BIT_TO_ELEM(pos), !.last_bit = BIT_TO_BIT(pos)]
  IN  IF ~first /\ bl.last_elem >= max_elems(bl) THEN [bl |-> bl, ret |-> BITLIST_INVALID]
      ELSE IF pos >= bl.max_bits
           THEN [bl |-> [there EXCEPT !.last_elem = max_elems(bl)], ret |-> BITLIST_INVALID]
           ELSE [bl |-> there, ret |-> pos + bl.base]
bitlist_find_first(bl) == bitlist_find_bit(bl, TRUE)
bitlist_find_next(bl) == bitlist_find_bit(bl, FALSE)
bitlist_find_after(bl, bit) ==
  IF bitlist_validbit(bl, bit - bl.base)
  THEN bitlist_find_next([bl EXCEPT !.last_elem = BIT_TO_ELEM(bit - bl.base),
                                    !.last_bit = BIT_TO_BIT(bit - bl.base)])
  ELSE [bl |-> bl, ret |-> BITLIST_INVALID]

\* Elements copied to the start of the list or to the place of a bit.
bitlist_copy_from_position(from, to, bit, bits) ==
  IF /\ bitlist_validrange(from, bit, bits) /\ bitlist_validbit(to, bits - 1)
     /\ Aligned(from, bit, bits)
  THEN [to EXCEPT !.bits = (@ \ Elements(0, BITS_TO_ELEMS(bits)))
          \cup {p - (bit - from.base) : p \in from.bits \cap Run(from, bit, bits)}]
  ELSE to
bitlist_copy_in_position(from, to, bit, bits) ==
  IF /\ bitlist_validbit(from, bits - 1) /\ bitlist_validrange(to, bit, bits)
     /\ Aligned(from, bit, bits)
  THEN [to EXCEPT !.bits = (@ \ Run(to, bit, bits))
          \cup {p + BIT_TO_ELEM(bit - to.base) * BITS_PER_ELEM :
                  p \in from.bits \cap Elements(0, BITS_TO_ELEMS(bits))}]
  ELSE to

\* c gets the state of a when it is neither operand; then the elements.
Into(a, c, other, bits) == [(IF other THEN a ELSE c) EXCEPT !.bits = bits]
bitlist_or(a, b, c, other) == Into(a, c, other, a.bits \cup b.bits)
bitlist_and(a, b, c, other) == Into(a, c, other, a.bits \cap b.bits)
bitlist_and_not(a, b, c, other) == Into(a, c, other, a.bits \ b.bits)
bitlist_xor(a, b, c, other) == Into(a, c, other, (a.bits \cup b.bits) \ (a.bits \cap b.bits))
\* The overflow bits are inverted too.
bitlist_not(a) == [a EXCEPT !.bits = Elements(0, max_elems(a)) \ @]

bitlist_equal(a, b) == a.bits = b.bits
bitlist_count(bl) == Cardinality(bl.bits)
bitlist_size(bl) == bl.max_bits
bitlist_anybit_set(bl) == bl.bits # {}
bitlist_copy(from, to) == from
bitlist_alloc(bits, base) == bitlist_clearall(bits, base)
bitlist_clone(bl, copy_bitlist) ==
  LET new == bitlist_alloc(bl.max_bits, bl.base)
  IN  IF copy_bitlist THEN bitlist_copy(bl, new) ELSE new

-----------------------------------------------------------------------------
(* Text, as a sequence of tokens: numbers, "-", "," and other characters.  *)
(* Only the length of a number in characters matters.                      *)

Num(n) == [c |-> "num", v |-> n]
Dash == [c |-> "dash", v |-> 0]
Comma == [c |-> "comma", v |-> 0]
Digits(n) == IF n < 10 THEN 1 ELSE IF n < 100 THEN 2 ELSE 3

\* Reads items "n" or "n-m" separated by commas and sets their bits as it goes,
\* up to the first error: [error, the bits set].
bitlist_from_string(bl, list) ==
  LET min == bl.base
      max == bl.base + bl.max_bits - 1
      at(i) == IF i <= Len(list) THEN list[i].c ELSE "eol"
      num(i) == list[i].v
      Fail(e, set) == [error |-> e, set |-> set]
      item[i \in Nat] ==
        LET end == IF at(i + 1) = "dash" THEN i + 2 ELSE i
            set == IF end = i THEN {num(i)} ELSE num(i)..num(end)
        IN  CASE at(i) = "eol" -> Fail("none", {})
              [] at(i) \in {"dash", "comma", "other"} -> Fail("non_numeric", {})
              [] at(i) = "num" /\ num(i) \notin min..max -> Fail("out_of_bounds", {})
              [] at(i) = "num" /\ num(i) \in min..max ->
                   CASE at(end) = "eol" -> Fail("unexpected_eol", {})
                     [] at(end) \in {"dash", "comma", "other"} -> Fail("non_numeric", {})
                     [] at(end) = "num" /\ num(end) \notin min..max -> Fail("out_of_bounds", {})
                     [] at(end) = "num" /\ num(end) \in min..max /\ end # i /\ num(i) >= num(end) ->
                          Fail("inv_range", {})
                     [] OTHER ->
                          CASE at(end + 1) = "eol" -> Fail("none", set)
                            [] at(end + 1) = "comma" ->
                                 IF at(end + 2) = "eol" THEN Fail("unexpected_eol", set)
                                 ELSE [item[end + 2] EXCEPT !.set = @ \cup set]
                            [] OTHER -> Fail("exp_comma", set)
  IN  item[1]

\* The list with its search position moved to that of number n.
Reposition(bl, n) ==
  [bl EXCEPT !.last_elem = BIT_TO_ELEM(n - bl.base), !.last_bit = BIT_TO_BIT(n - bl.base)]

\* Where a run of consecutive numbers that has reached curr ends.
RECURSIVE RunEnd(_, _, _)
RunEnd(bl, curr, next) ==
  IF curr + 1 # next THEN [bl |-> bl, curr |-> curr, next |-> next]
  ELSE LET f == bitlist_find_bit(bl, FALSE) IN RunEnd(f.bl, next, f.ret)

\* The loop of bitlist_to_string, with line written so far in len characters.
\* What does not fit is left for the next call: the search position goes back
\* to before it.
RECURSIVE Convert(_, _, _, _, _)
Convert(bl, next, line, len, size) ==
  LET sep   == IF line = << >> THEN << >> ELSE <<Comma>>
      len1  == len + Len(sep) + Digits(next)
      line1 == line \o sep \o <<Num(next)>>
      f     == bitlist_find_bit(bl, FALSE)
      run   == RunEnd(f.bl, next, f.ret)
      len2  == len1 + 1 + Digits(run.curr)
  IN  CASE next = BITLIST_INVALID -> [bl |-> bl, line |-> line, ret |-> next]
        [] next # BITLIST_INVALID /\ len1 >= size ->
             [bl |-> Reposition(bl, next - 1), line |-> line, ret |-> next]
        [] next # BITLIST_INVALID /\ len1 < size /\ next + 1 # f.ret ->
             Convert(f.bl, f.ret, line1, len1, size)
        [] next # BITLIST_INVALID /\ len1 < size /\ next + 1 = f.ret /\ len2 < size ->
             Convert(run.bl, run.next, line1 \o <<Dash, Num(run.curr)>>, len2, size)
        [] OTHER -> [bl |-> Reposition(run.bl, next), line |-> line1, ret |-> next + 1]

\* Nothing printed at all reads as the end of the list.
bitlist_to_string(bl, size, begin) ==
  LET f == bitlist_find_bit(bl, begin)
      c == Convert(f.bl, f.ret, << >>, 0, size)
  IN  [c EXCEPT !.ret = IF c.line # << >> THEN @ ELSE BITLIST_INVALID]

\* The ranges bitlist_dump prints: it asks for the bit after each bit.
bitlist_dump(bl) ==
  LET from[bit \in Int, begin \in Int] ==
        LET next == bitlist_find_after(bl, bit).ret
        IN  IF next = bit + 1 THEN from[next, begin]
            ELSE <<<<begin, bit>>>> \o
                 (IF next = BITLIST_INVALID THEN << >> ELSE from[next, next])
      first == bitlist_find_first(bl).ret
  IN  IF first = BITLIST_INVALID THEN << >> ELSE from[first, first]

-----------------------------------------------------------------------------
(* Part one: calls on three lists.  Numbers range from one below the base  *)
(* to one past the end.                                                    *)

Names == {"a", "b", "s"}
Numbers == (Base - 1)..(Base + Bits)
NumbersOf(bl) == bl.base..(bl.base + bl.max_bits - 1)
NoText == [stage |-> "none"]

Fresh ==
  /\ lists = [x \in Names |-> bitlist_alloc(IF x = "s" THEN ShortBits ELSE Bits, Base)]
  /\ members = [x \in Names |-> {}]

BitListInit == Fresh /\ text = NoText

\* The list named x becomes bl and should then hold the numbers of set that
\* fit it.
Becomes(x, bl, set) ==
  /\ lists' = [lists EXCEPT ![x] = bl]
  /\ members' = [members EXCEPT ![x] = set \cap NumbersOf(bl)]
  /\ UNCHANGED text

SetOrClear(x, n) ==
  \/ Becomes(x, bitlist_set(lists[x], n), members[x] \cup {n})
  \/ Becomes(x, bitlist_clear(lists[x], n), members[x] \ {n})

SetOrClearAll(x) ==
  LET bl == lists[x]
  IN  \/ Becomes(x, bitlist_setall(bl.max_bits, bl.base), NumbersOf(bl))
      \/ Becomes(x, bitlist_clearall(bl.max_bits, bl.base), {})
      \/ Becomes(x, bitlist_clearall2(bl), {})

\* A run of whole elements inside the list is set or cleared; any other is not.
SetOrClearRun(x, n, k) ==
  LET bl == lists[x]
      run == n..(n + k - 1)
      whole == run \subseteq NumbersOf(bl) /\ (n - bl.base) % BITS_PER_ELEM = 0
               /\ k % BITS_PER_ELEM = 0
  IN  \/ Becomes(x, bitlist_set_contiguous(bl, n, k),
                 IF whole THEN members[x] \cup run ELSE members[x])
      \/ Becomes(x, bitlist_clear_contiguous(bl, n, k),
                 IF whole THEN members[x] \ run ELSE members[x])

\* The bits of the short list exchanged with a run of as many bits.
CopyRun(x, n) ==
  LET run == n..(n + ShortBits - 1)
      whole == run \subseteq NumbersOf(lists[x]) /\ (n - Base) % BITS_PER_ELEM = 0
               /\ ShortBits % BITS_PER_ELEM = 0
  IN  \/ Becomes(x, bitlist_copy_in_position(lists["s"], lists[x], n, ShortBits),
                 IF whole THEN (members[x] \ run) \cup {m + n - Base : m \in members["s"]}
                 ELSE members[x])
      \/ Becomes("s", bitlist_copy_from_position(lists[x], lists["s"], n, ShortBits),
                 IF whole THEN {m - (n - Base) : m \in members[x] \cap run}
                 ELSE members["s"])

Combine(x, y, z) ==
  LET a == lists[x]
      b == lists[y]
      other == z \notin {x, y}
      A == members[x]
      B == members[y]
  IN  \/ Becomes(z, bitlist_or(a, b, lists[z], other), A \cup B)
      \/ Becomes(z, bitlist_and(a, b, lists[z], other), A \cap B)
      \/ Becomes(z, bitlist_and_not(a, b, lists[z], other), A \ B)
      \/ Becomes(z, bitlist_xor(a, b, lists[z], other), (A \ B) \cup (B \ A))
      \/ Becomes(z, bitlist_not(a), NumbersOf(a) \ A)
      \/ Becomes(z, bitlist_copy(a, lists[z]), A)
      \/ Becomes(z, bitlist_clone(a, TRUE), A)

BitListNext ==
  \/ \E x \in Names :
       \/ SetOrClearAll(x)
       \/ \E n \in Numbers : SetOrClear(x, n) \/ \E k \in {1, 2, 4} : SetOrClearRun(x, n, k)
  \/ \E x \in {"a", "b"}, n \in Numbers : CopyRun(x, n)
  \/ \E x, y, z \in {"a", "b"} : Combine(x, y, z)

RECURSIVE Enumerate(_)
Enumerate(f) ==
  IF f.ret = BITLIST_INVALID THEN << >> ELSE <<f.ret>> \o Enumerate(bitlist_find_next(f.bl))

\* A bit list is the set of numbers its calls should have given it, although
\* some of them (not, setall) touch bits beyond its end: asked number by number,
\* enumerated from the first and asked for the next after any number.  Counting
\* and comparing do count the bits beyond the end, and agree with the set when
\* there are none.
BitlistIsSet ==
  \A x \in Names :
    LET bl == lists[x]
        clean == bl.bits \subseteq 0..(bl.max_bits - 1)
    IN  /\ {n \in Numbers : bitlist_test(bl, n)} = members[x]
        /\ Enumerate(bitlist_find_first(bl)) = SetToSortSeq(members[x], LAMBDA m, n : m < n)
        /\ \A n \in NumbersOf(bl) :
             bitlist_find_after(bl, n).ret =
               IF \E m \in members[x] : m > n THEN Min({m \in members[x] : m > n})
               ELSE BITLIST_INVALID
        /\ clean => /\ bitlist_count(bl) = Cardinality(members[x])
                    /\ bitlist_anybit_set(bl) <=> members[x] # {}
        /\ clean /\ x = "a" /\ lists["b"].bits \subseteq 0..(Bits - 1) =>
             (bitlist_equal(bl, lists["b"]) <=> members[x] = members["b"])

-----------------------------------------------------------------------------
(* Part two: bitlist_nv_write writes a list as lines of LineSizes, and     *)
(* texts are read.                                                         *)

TextNumbers == TextBase..(TextBase + TextBits - 1)
ListOf(set) == [bitlist_clearall(TextBits, TextBase) EXCEPT !.bits = {n - TextBase : n \in set}]
Tokens == {Num(TextBase - 1), Num(TextBase), Num(TextBase + 1), Num(TextBase + 2),
           Dash, Comma, [c |-> "other", v |-> 0]}
\* Two numbers in a row would be one number.
Readable(list) == \A i \in 1..(Len(list) - 1) : list[i].c = "num" => list[i + 1].c # "num"

TextInit ==
  /\ Fresh
  /\ \/ \E set \in SUBSET TextNumbers, size \in LineSizes :
          text = [stage |-> "write", set |-> set, size |-> size, bl |-> ListOf(set),
                  begin |-> TRUE, lines |-> << >>]
     \/ \E list \in {l \in BoundedSeq(Tokens, MaxTokens) : Readable(l)} :
          text = [stage |-> "read", list |-> list]

\* One turn of bitlist_nv_write's loop.
NvWriteLine ==
  /\ text.stage = "write"
  /\ LET c == bitlist_to_string(text.bl, text.size, text.begin)
     IN  text' = [text EXCEPT !.bl = c.bl, !.begin = FALSE,
                    !.lines = IF c.line = << >> THEN @ ELSE Append(@, c.line),
                    !.stage = IF c.ret = BITLIST_INVALID THEN "written" ELSE "write"]
  /\ UNCHANGED <<lists, members>>

ReadText ==
  /\ text.stage = "read"
  /\ text' = [stage |-> "done", list |-> text.list,
              got |-> bitlist_from_string(bitlist_clearall(TextBits, TextBase), text.list)]
  /\ UNCHANGED <<lists, members>>

TextNext == NvWriteLine \/ ReadText

Chars(line) ==
  LET sum[i \in 0..Len(line)] ==
        IF i = 0 THEN 0
        ELSE sum[i - 1] + (IF line[i].c = "num" THEN Digits(line[i].v) ELSE 1)
  IN  sum[Len(line)]

\* Lines that nv_write wrote, each within its room, restore the list when they
\* are read back one after the other, wherever the line breaks fell: between
\* numbers, before a number that just does not fit, or inside a range.
NvWriteRestores ==
  text.stage = "written" =>
    LET got(i) == bitlist_from_string(bitlist_clearall(TextBits, TextBase), text.lines[i])
        I == 1..Len(text.lines)
    IN  /\ UNION {got(i).set : i \in I} = text.set
        /\ \A i \in I : got(i).error = "none" /\ Chars(text.lines[i]) < text.size
        /\ UNION {r[1]..r[2] : r \in ToSet(bitlist_dump(ListOf(text.set)))} = text.set

\* The comma-separated items of a text, and what a well-formed one denotes.
Items(list) ==
  LET cuts == {0, Len(list) + 1} \cup {i \in 1..Len(list) : list[i].c = "comma"}
      next(i) == Min({j \in cuts : j > i})
  IN  {SubSeq(list, i + 1, next(i) - 1) : i \in cuts \ {Len(list) + 1}}
GoodItem(it) ==
  \/ Len(it) = 1 /\ it[1].c = "num" /\ it[1].v \in TextNumbers
  \/ /\ Len(it) = 3 /\ it[1].c = "num" /\ it[2].c = "dash" /\ it[3].c = "num"
     /\ {it[1].v, it[3].v} \subseteq TextNumbers /\ it[1].v < it[3].v

\* bitlist_from_string accepts exactly the texts that are empty or lists of
\* numbers and ascending ranges within bounds, and then sets just the bits they
\* name; in a text it rejects it never sets a bit outside the list.
ReadsExactly ==
  text.stage = "done" =>
    /\ text.got.error = "none" <=>
         (text.list = << >> \/ \A it \in Items(text.list) : GoodItem(it))
    /\ text.got.error = "none" /\ text.list # << >> =>
         text.got.set = UNION {it[1].v..it[Len(it)].v : it \in Items(text.list)}
    /\ text.got.set \subseteq TextNumbers

\* A bit list is the set of the numbers it should hold after any calls, and the
\* texts written from it and read into it denote that set (the three above).
BitListsExact == BitlistIsSet /\ NvWriteRestores /\ ReadsExactly
=============================================================================
