----------------------------- MODULE NetUtils ------------------------------
(***************************************************************************)
(* The command-line helpers of netlink/utils.c and the route types of      *)
(* netlink/rtm_map.c.  Each case is an input, to which the Next step adds  *)
(* the result; the cache of host names is a small state machine.           *)
(*                                                                         *)
(* Widths, radix and sizes are small: a long has LongBits bits where the   *)
(* code has 64, an int IntBits for 32, a short ShortBits for 16, a byte    *)
(* ByteBits for 8, so that every boundary is met.                          *)
(***************************************************************************)
EXTENDS Integers, Sequences, SequencesExt

CONSTANTS
  LongBits, IntBits, UShortBits, ByteBits,
  Radix,         \* ten, in addresses
  Dots,          \* three
  WordBits,      \* bits of a word of an address that is matched: 32
  NameLen,       \* bound on the characters of an address
  ArgLines,      \* bound on the lines of a command, and of its words
  Hosts          \* addresses to resolve

VARIABLES
  util,       \* the case: [op, arg, done, out]
  nht,        \* the cache: addresses to names, newest first
  resolver    \* for each address, what the name server says; how often it was asked

utilVars == <<util, nht, resolver>>

Error == -1000
None == "none"

-----------------------------------------------------------------------------
(* Numbers.  An argument has a sign, a value, digits or none, and perhaps  *)
(* characters after them.  strtol and strtoul are the C library's: they    *)
(* clamp, and strtoul negates modulo the width.                            *)

Lowest(bits) == -(2 ^ (bits - 1))
Highest(bits) == 2 ^ (bits - 1) - 1
UMax(bits) == 2 ^ bits - 1

strtol(a) ==
  LET v == IF a.neg THEN -a.v ELSE a.v
  IN  IF v > Highest(LongBits) THEN Highest(LongBits)
      ELSE IF v < Lowest(LongBits) THEN Lowest(LongBits) ELSE v
strtoul(a) ==
  IF a.v > UMax(LongBits) THEN UMax(LongBits)
  ELSE IF a.neg THEN (2 ^ LongBits - a.v) % 2 ^ LongBits ELSE a.v

Bad(a) == a.form # "number"       \* null or empty, no digits, or something after them
Signed(a, bits) ==
  IF Bad(a) \/ strtol(a) > Highest(bits) \/ strtol(a) < Lowest(bits) THEN Error ELSE strtol(a)
Unsigned(a, bits) == IF Bad(a) \/ strtoul(a) > UMax(bits) THEN Error ELSE strtoul(a)

get_integer(a) == Signed(a, IntBits)
get_unsigned(a) == Unsigned(a, IntBits)
\* The test is for one value of 32 bits; anything else is taken, clamped or not.
get_u64(a) == IF Bad(a) \/ strtoul(a) = UMax(IntBits) THEN Error ELSE strtoul(a)
get_u32(a) == Unsigned(a, IntBits)
get_u16(a) == Unsigned(a, UShortBits)
get_u8(a) == Unsigned(a, ByteBits)
get_s16(a) == Signed(a, UShortBits)
get_s8(a) == Signed(a, ByteBits)

-----------------------------------------------------------------------------
(* Addresses.  A name is one of the words default, all and any, contains a *)
(* colon, or is a sequence of digits, dots and other characters.           *)

Families == {"unspec", "inet", "inet6", "decnet"}
Addr(family, bytes, bitlen) == [family |-> family, bytes |-> bytes, bitlen |-> bitlen]
NoAddr == Addr("none", 0, 0)

\* The octets of the dotted form: digits of one octet accumulate modulo the
\* byte, a dot starts the next; octets not named are 0.
Octets(chars) ==
  LET at[i \in 0..Len(chars)] ==
        IF i = 0 THEN [ok |-> TRUE, n |-> 1, ap |-> [k \in 1..(Dots + 1) |-> 0]]
        ELSE LET a == at[i - 1]
                 c == chars[i]
             IN  CASE ~a.ok -> a
                   [] a.ok /\ c \in 0..(Radix - 1) ->
                        [a EXCEPT !.ap[a.n] = (Radix * @ + c) % 2 ^ ByteBits]
                   [] a.ok /\ c = 10 /\ a.n <= Dots -> [a EXCEPT !.n = @ + 1]    \* a dot
                   [] OTHER -> [a EXCEPT !.ok = FALSE]
  IN  at[Len(chars)]

get_addr_1(name, family) ==
  CASE name.kind = "word" ->
         IF family = "decnet" THEN NoAddr
         ELSE Addr(family, IF family = "inet6" THEN 16 ELSE 4, -1)
    [] name.kind = "colon" ->
         IF family \notin {"unspec", "inet6"} \/ ~name.valid THEN NoAddr ELSE Addr("inet6", 16, -1)
    [] OTHER ->
         IF family \notin {"unspec", "inet"} \/ ~Octets(name.chars).ok THEN NoAddr
         ELSE Addr("inet", 4, -1)

FullLength(addr) == CASE addr.family = "inet6" -> 128 [] addr.family = "decnet" -> 16 [] OTHER -> 32

\* A prefix: the words mean length 0; otherwise an address and perhaps a slash
\* and a length, which may not exceed the address.
get_prefix_1(name, slash, plen, family) ==
  IF name.kind = "word" /\ ~slash
  THEN IF family = "decnet" THEN NoAddr ELSE Addr(family, 0, 0)
  ELSE LET a == get_addr_1(name, family)
       IN  CASE a = NoAddr -> NoAddr
             [] a # NoAddr /\ ~slash -> [a EXCEPT !.bitlen = FullLength(a)]
             [] OTHER -> IF plen.form # "number" \/ plen.v > FullLength(a) THEN NoAddr
                         ELSE [a EXCEPT !.bitlen = plen.v]

\* get_addr, get_prefix and get_addr32 end the program where these fail, and
\* for the family of packets.
get_addr(name, family) == IF family = "packet" \/ get_addr_1(name, family) = NoAddr THEN "exit" ELSE "ok"
get_prefix(name, slash, plen, family) ==
  IF family = "packet" \/ get_prefix_1(name, slash, plen, family) = NoAddr THEN "exit" ELSE "ok"
get_addr32(name) == IF get_addr_1(name, "inet") = NoAddr THEN "exit" ELSE "ok"

\* Whether the first bits of two addresses differ: whole words, then the bits
\* of the next under a mask.  An address is a sequence of words.
inet_addr_match(a, b, bits) ==
  LET words == bits \div WordBits
      rest == bits % WordBits
  IN  IF SubSeq(a, 1, words) # SubSeq(b, 1, words) THEN -1
      ELSE IF rest # 0 /\ a[words + 1] \div 2 ^ (WordBits - rest) # b[words + 1] \div 2 ^ (WordBits - rest)
           THEN 1 ELSE 0

-----------------------------------------------------------------------------
(* Hexadecimal strings, as sequences of nibbles, with 16 for the colon.    *)

Colon == 16

\* Writes while there is room for a byte and the terminator; a colon takes one
\* more, and is not followed by a terminator of its own.
hexstring_n2a(str, blen) ==
  LET at[i \in 1..(Len(str) + 1), room \in Int] ==
        IF i > Len(str) \/ room < 3 THEN << >>
        ELSE LET colon == i # Len(str) /\ room - 2 > 1
             IN  <<str[i] \div 16, str[i] % 16>> \o (IF colon THEN <<Colon>> ELSE << >>)
                 \o at[i + 1, room - 2 - (IF colon THEN 1 ELSE 0)]
  IN  at[1, blen]

\* Numbers between colons, each below 256; those beyond the buffer are checked
\* and dropped, missing ones are 0.
hexstring_a2n(chars, blen) ==
  LET parts == LET from[i \in Nat, acc \in Nat] ==
                     IF i > Len(chars) THEN <<acc>>
                     ELSE IF chars[i] = Colon THEN <<acc>> \o from[i + 1, 0]
                          ELSE from[i + 1, acc * 16 + chars[i]]
               IN  from[1, 0]
  IN  IF \E k \in DOMAIN parts : parts[k] > 255 THEN Error
      ELSE [k \in 1..blen |-> IF k <= Len(parts) THEN parts[k] ELSE 0]

-----------------------------------------------------------------------------
(* Command files.  A line is a sequence of words, "#" and, last, "\" where *)
(* it is continued.                                                        *)

Strip(line) ==
  IF \E i \in DOMAIN line : line[i] = "#"
  THEN SubSeq(line, 1, (CHOOSE i \in DOMAIN line : line[i] = "#" /\ \A j \in 1..(i - 1) : line[j] # "#") - 1)
  ELSE line
Continued(line) == line # << >> /\ line[Len(line)] = "\\"

\* One command from the head of the lines: the lines it took, joined.
RECURSIVE getcmdline(_)
getcmdline(lines) ==
  LET line == Strip(Head(lines))
  IN  IF ~Continued(line) THEN [line |-> line, lineno |-> 1]
      ELSE LET more == getcmdline(Tail(lines))
           IN  [line |-> SubSeq(line, 1, Len(line) - 1) \o more.line, lineno |-> more.lineno + 1]

\* The words, and the null pointer that ends them; too many end the program.
makeargs(line, maxargs) == IF Len(line) >= maxargs THEN <<"exit">> ELSE Append(line, None)

-----------------------------------------------------------------------------
(* Route types.  RTN_UNSPEC is 0, RTN_UNICAST 1 and so on to RTN_XRESOLVE. *)

RtnNames == <<"unicast", "local", "broadcast", "anycast", "multicast", "blackhole",
              "unreachable", "prohibit", "throw", "nat", "xresolve">>
Id(name) == CHOOSE i \in DOMAIN RtnNames : RtnNames[i] = name

\* A word is a name or a number.
rtnl_rtntype_n2a(id) ==
  [number |-> id \notin 0..Len(RtnNames), value |-> id,
   name |-> IF id = 0 THEN "none" ELSE IF id \in DOMAIN RtnNames THEN RtnNames[id] ELSE ""]

matches(cmd, pattern) == Len(cmd) <= Len(pattern) /\ SubSeq(pattern, 1, Len(cmd)) = cmd

\* Some names may be abbreviated, the first that fits is taken; some may not.
Abbreviable == <<"broadcast", "anycast", "multicast", "prohibit", "unreachable", "blackhole",
                 "xresolve", "unicast">>
rtnl_rtntype_a2n(word) ==
  IF word.number THEN IF word.value > 255 THEN Error ELSE word.value
  ELSE LET arg == word.name
           fits == {i \in DOMAIN Abbreviable : matches(arg, Abbreviable[i])}
       IN  CASE arg \in {"local", "nat"} -> Id(arg)
             [] arg = "brd" -> Id("broadcast")
             [] arg \notin {"local", "nat", "brd"} /\ fits # {} ->
                  Id(Abbreviable[CHOOSE i \in fits : \A j \in fits : i <= j])
             [] OTHER -> IF arg = "throw" THEN Id(arg) ELSE Error

\* Two realms: the one before the slash in the upper half.  A realm that does
\* not exist is Error; nothing after the slash is 0.
get_rt_realms(upper, lower) ==
  IF upper = Error \/ lower = Error THEN Error ELSE upper * 2 ^ UShortBits + lower

-----------------------------------------------------------------------------
(* resolve_address: the cache is asked first; a new address is put in the  *)
(* cache before the name server is asked, and stays there when it fails.   *)

Cached(a) == {i \in DOMAIN nht : nht[i].addr = a}
\* An IPv4 address inside an IPv6 one is that IPv4 address.
Unmapped(a) == IF a.mapped THEN [a EXCEPT !.mapped = FALSE] ELSE a

resolve_address_PositiveOnly(addr) ==
  LET a == Unmapped(addr)
  IN  IF Cached(a) # {} THEN UNCHANGED <<nht, resolver>>
      ELSE /\ nht' = IF resolver.names[a.id] = None THEN nht
                     ELSE <<[addr |-> a, name |-> resolver.names[a.id]]>> \o nht
           /\ resolver' = [resolver EXCEPT !.asked[a.id] = @ + 1]
resolve_address(addr) ==
  LET a == Unmapped(addr)
  IN  IF Cached(a) # {} THEN UNCHANGED <<nht, resolver>>
      ELSE /\ nht' = <<[addr |-> a, name |-> resolver.names[a.id]]>> \o nht
           /\ resolver' = [resolver EXCEPT !.asked[a.id] = @ + 1]

-----------------------------------------------------------------------------
Args == [neg : BOOLEAN, v : 0..(2 ^ LongBits + 1), form : {"number", "trailing"}]
AddrNames == {[kind |-> "word", valid |-> TRUE, chars |-> << >>],
          [kind |-> "colon", valid |-> TRUE, chars |-> << >>],
          [kind |-> "colon", valid |-> FALSE, chars |-> << >>]}
DottedNames == {[kind |-> "dotted", valid |-> TRUE, chars |-> s] :
                  s \in BoundedSeq({0, Radix - 1, 10, 11}, NameLen)}
Plens == {[form |-> f, v |-> v] : f \in {"number", "trailing"}, v \in {0, 32, 33, 128, 129}}
Words == BoundedSeq({"w", "#"}, ArgLines)
\* Lines of which the last is not continued.
Scripts == {<<l>> : l \in Words} \cup {<<Append(l, "\\"), m>> : l, m \in Words}

Case(op, arg) == util = [op |-> op, arg |-> arg, done |-> FALSE, out |-> << >>]

UtilStart ==
  \/ \E a \in Args : Case("number", a)
  \/ \E n \in AddrNames \cup DottedNames, f \in Families : Case("addr", [name |-> n, family |-> f])
  \/ \E n \in AddrNames, f \in Families, s \in BOOLEAN, p \in Plens :
       Case("prefix", [name |-> n, family |-> f, slash |-> s, plen |-> p])
  \/ \E a, b \in [1..2 -> 0..(2 ^ WordBits - 1)], n \in 0..(2 * WordBits) :
       Case("match", [a |-> a, b |-> b, bits |-> n])
  \/ \E s \in BoundedSeq({0, 31, 255}, 3), n \in 0..9 : Case("hex", [str |-> s, blen |-> n])
  \/ \E l \in Scripts, n \in 1..(ArgLines + 2) : Case("script", [lines |-> l, maxargs |-> n])
  \/ \E i \in 0..20 \cup 254..256 : Case("rtntype", i)
  \/ \E u, l \in {Error, 0, 1, 2} : Case("realms", [upper |-> u, lower |-> l])

NoResolver == [names |-> [a \in Hosts |-> None], asked |-> [a \in Hosts |-> 0]]
UtilIdle == Case("idle", 0) /\ nht = << >> /\ resolver = NoResolver
UtilInit ==
  \/ UtilStart /\ nht = << >> /\ resolver = NoResolver
  \/ /\ Case("hosts", 0) /\ nht = << >>
     /\ \E f \in [Hosts -> {None, "name"}] : resolver = [NoResolver EXCEPT !.names = f]

Result(c) ==
  LET a == c.arg
  IN  CASE c.op = "number" ->
             [integer |-> get_integer(a), unsigned |-> get_unsigned(a), u64 |-> get_u64(a),
              u32 |-> get_u32(a), u16 |-> get_u16(a), u8 |-> get_u8(a), s16 |-> get_s16(a), s8 |-> get_s8(a)]
        [] c.op = "addr" -> [addr |-> get_addr_1(a.name, a.family), exit |-> get_addr(a.name, a.family),
                             exit32 |-> get_addr32(a.name)]
        [] c.op = "prefix" -> [prefix |-> get_prefix_1(a.name, a.slash, a.plen, a.family),
                               exit |-> get_prefix(a.name, a.slash, a.plen, a.family)]
        [] c.op = "match" -> [match |-> inet_addr_match(a.a, a.b, a.bits)]
        [] c.op = "hex" -> [word |-> hexstring_n2a(a.str, a.blen)]
        [] c.op = "script" -> LET l == getcmdline(a.lines)
                              IN  [cmd |-> l, argv |-> makeargs(l.line, a.maxargs)]
        [] c.op = "rtntype" -> [back |-> rtnl_rtntype_a2n(rtnl_rtntype_n2a(a))]
        [] c.op = "realms" -> [realms |-> get_rt_realms(a.upper, a.lower)]

Compute ==
  /\ util.op \notin {"idle", "hosts"} /\ ~util.done
  /\ util' = [util EXCEPT !.done = TRUE, !.out = Result(util)]
  /\ UNCHANGED <<nht, resolver>>

Resolve(id, mapped) ==
  /\ util.op = "hosts"
  /\ resolve_address([id |-> id, mapped |-> mapped])
  /\ UNCHANGED util

UtilNext == Compute \/ \E id \in Hosts, mapped \in BOOLEAN : Resolve(id, mapped)

-----------------------------------------------------------------------------
Done(op) == util.op = op /\ util.done

\* A number that is accepted fits the type it is stored in, so the assignment
\* does not truncate it, and a plain number that fits is accepted: except that
\* get_u64 takes a number of 32 ones for a failure.
NumbersFit ==
  Done("number") =>
    LET a == util.arg
        o == util.out
        plain == a.form = "number" /\ ~a.neg
        Fits(res, lo, hi) ==
          /\ res # Error => res \in lo..hi
          /\ plain /\ a.v <= hi => res = a.v
    IN  /\ Fits(o.integer, Lowest(IntBits), Highest(IntBits)) /\ Fits(o.s16, Lowest(UShortBits), Highest(UShortBits))
        /\ Fits(o.s8, Lowest(ByteBits), Highest(ByteBits)) /\ Fits(o.unsigned, 0, UMax(IntBits))
        /\ Fits(o.u32, 0, UMax(IntBits)) /\ Fits(o.u16, 0, UMax(UShortBits)) /\ Fits(o.u8, 0, UMax(ByteBits))
        /\ a.v # UMax(IntBits) => Fits(o.u64, 0, UMax(LongBits))

BitAt(a, k) == (a[(k \div WordBits) + 1] \div 2 ^ (WordBits - 1 - (k % WordBits))) % 2

\* Addresses and prefixes: an address of the wrong family is refused, a prefix
\* is never longer than its address, the programs end exactly where the parser
\* fails, and two addresses match on n bits when those n bits are the same,
\* across the boundary of a word.
AddressesAgree ==
  /\ Done("addr") =>
       LET a == util.arg
           o == util.out.addr
       IN  /\ o # NoAddr /\ a.family # "unspec" => o.family = a.family
           /\ (o = NoAddr) <=> (util.out.exit = "exit")
           /\ a.name.kind = "dotted" /\ a.family \in {"inet", "unspec"} =>
                ((o # NoAddr) <=>
                   Len(SelectSeq(a.name.chars, LAMBDA c : c = 10)) <= Dots
                   /\ \A i \in DOMAIN a.name.chars : a.name.chars[i] # 11)
  /\ Done("prefix") /\ util.out.prefix # NoAddr =>
       /\ util.out.prefix.bitlen \in 0..FullLength(util.out.prefix) /\ util.out.exit = "ok"
       /\ util.arg.name.kind = "word" /\ ~util.arg.slash => util.out.prefix.bitlen = 0
  /\ Done("match") =>
       ((util.out.match = 0) <=>
          \A k \in 0..(util.arg.bits - 1) : BitAt(util.arg.a, k) = BitAt(util.arg.b, k))

\* What is written as text reads back: bytes that had room for their colons, in
\* a text that never exceeds the buffer; commands continued over lines, without
\* comments, split to a null-terminated vector that fits; the names of route
\* types, except "none", which is written and not read; two realms.
TextReadsBack ==
  /\ Done("hex") =>
       LET n == Len(util.arg.str)
           t == util.out.word
       IN  /\ Len(t) <= util.arg.blen
           /\ util.arg.blen >= 3 * n /\ n > 0 => hexstring_a2n(t, n) = util.arg.str
           /\ LET m == (Len(t) + 1) \div 3
              IN  m > 0 => hexstring_a2n(t, m) = SubSeq(util.arg.str, 1, m)
  /\ Done("script") =>
       LET words == FlattenSeq([i \in DOMAIN util.arg.lines |->
                      SelectSeq(Strip(util.arg.lines[i]), LAMBDA c : c = "w")])
           all == Len(util.arg.lines) = 1 \/ Continued(Strip(util.arg.lines[1]))
           argv == util.out.argv
       IN  /\ util.out.cmd.lineno = IF all THEN Len(util.arg.lines) ELSE 1
           /\ all => util.out.cmd.line = words
           /\ argv # <<"exit">> => Len(argv) <= util.arg.maxargs /\ argv[Len(argv)] = None
           /\ argv = <<"exit">> => Len(util.out.cmd.line) >= util.arg.maxargs
  /\ Done("rtntype") => util.out.back = IF util.arg \in {0, 256} THEN Error ELSE util.arg
  /\ Done("realms") /\ util.out.realms # Error =>
       util.out.realms \div 2 ^ UShortBits = util.arg.upper /\ util.out.realms % 2 ^ UShortBits = util.arg.lower

\* The name server is asked once for each host, also when it has no name for it
\* and also when the host is named by its IPv4 and by its mapped IPv6 address;
\* the cache then says what it said.
ResolvedOnce ==
  /\ \A a \in Hosts : resolver.asked[a] <= 1
  /\ \A i \in DOMAIN nht : nht[i].name = resolver.names[nht[i].addr.id]

\* What a parser accepts is in range and means what the text says, and a printed
\* text parses back (the four above).
ParsedExactly == NumbersFit /\ AddressesAgree /\ TextReadsBack /\ ResolvedOnce
=============================================================================
