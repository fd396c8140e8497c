------------------------------ MODULE NetAttr ------------------------------
(***************************************************************************)
(* Attributes of netlink messages: how netlink/libnetlink.c, routeadd.c    *)
(* and netlink/set_routing_table.c append them and how they are parsed,    *)
(* with the lengths and paddings in bytes; and rtnl_from_file, which reads *)
(* messages back from a file.  Attribute values are not modelled, only     *)
(* where they lie.  A nested attribute is built in the same way inside an  *)
(* attribute instead of a message.                                         *)
(***************************************************************************)
EXTENDS Integers, Sequences, FiniteSets

CONSTANTS
  AttrTypes,      \* types of attributes
  AttrMax,        \* the largest type the parser's table has
  AttrLens,       \* lengths of attribute values
  MaxLens,        \* room for a message, header included
  FileLens,       \* lengths of message bodies in a file
  FileBuf         \* the longest body rtnl_from_file takes

\* Lengths are numbers, and a message has room for its header.
ASSUME AttrAssumption == AttrTypes \subseteq Nat /\ AttrMax \in Nat /\ AttrLens \subseteq Nat
ASSUME LensAssumption == MaxLens \subseteq Nat /\ (\A max \in MaxLens : max >= 4) /\ FileLens \subseteq Nat

VARIABLES
  attrs,      \* a message or attribute under construction
  nfile       \* a file and what reading it gave

attrVars == <<attrs, nfile>>

ALIGN(n) == 4 * ((n + 3) \div 4)       \* NLMSG_ALIGN and RTA_ALIGN
RTA_LENGTH(n) == 4 + n                 \* the header of an attribute is aligned
NLHDR == 4                             \* the header of the message, aligned

-----------------------------------------------------------------------------
(* Building.  kind says who builds; len is nlmsg_len or the outer rta_len; *)
(* hdrs are the headers written, in order; top is the end of what was      *)
(* written.                                                                *)

NewMessage(kind, max) ==
  [kind |-> kind, max |-> max, len |-> NLHDR, start |-> NLHDR, hdrs |-> << >>, top |-> NLHDR]

Put(b, type, rtalen, end, newlen) ==
  [b EXCEPT !.hdrs = Append(@, [off |-> ALIGN(b.len), type |-> type, len |-> rtalen]),
            !.top = end, !.len = newlen]

addattr_l_Unaligned(b, type, alen) ==
  LET len == RTA_LENGTH(alen)
  IN  IF ALIGN(b.len) + len > b.max THEN b
      ELSE Put(b, type, len, b.len + len, b.len + len)

\* The library's: the padding must fit too.
addattr_l(b, type, alen) ==
  LET len == RTA_LENGTH(alen)
  IN  IF ALIGN(b.len) + ALIGN(len) > b.max THEN b
      ELSE Put(b, type, len, ALIGN(b.len) + len, ALIGN(b.len) + ALIGN(len))
addattr32(b, type) ==
  LET len == RTA_LENGTH(4)
  IN  IF ALIGN(b.len) + len > b.max THEN b ELSE Put(b, type, len, ALIGN(b.len) + len, ALIGN(b.len) + len)
rta_addattr_l(b, type, alen) ==
  LET len == RTA_LENGTH(alen)
  IN  IF ALIGN(b.len) + ALIGN(len) > b.max THEN b
      ELSE Put(b, type, len, ALIGN(b.len) + len, ALIGN(b.len) + ALIGN(len))
rta_addattr32(b, type) ==
  LET len == RTA_LENGTH(4)
  IN  IF ALIGN(b.len) + len > b.max THEN b ELSE Put(b, type, len, ALIGN(b.len) + len, ALIGN(b.len) + len)
\* Data without a header, padded with zeroes; what follows starts after it.
addraw_l(b, len) ==
  IF ALIGN(b.len) + ALIGN(len) > b.max THEN b
  ELSE [b EXCEPT !.top = ALIGN(b.len) + ALIGN(len), !.len = ALIGN(b.len) + ALIGN(len),
                 !.start = ALIGN(b.len) + ALIGN(len)]
\* routeadd.c's copy: the length is left unaligned.
addattr_l_routeadd(b, type, alen) ==
  LET len == RTA_LENGTH(alen)
  IN  IF ALIGN(b.len) + len > b.max THEN b
      ELSE Put(b, type, len, ALIGN(b.len) + len, ALIGN(b.len) + len)

\* route_add's two attributes; form_request of set_routing_table lays the same
\* two out by hand, without a check.
route_add(b, dst, gateway) == addattr_l_routeadd(addattr_l_routeadd(b, dst, 4), gateway, 4)
form_request(b, dst, oif) ==
  LET one == [off |-> NLHDR, type |-> dst, len |-> RTA_LENGTH(4)]
      two == [off |-> NLHDR + one.len, type |-> oif, len |-> RTA_LENGTH(4)]
      rtl == NLHDR + one.len + two.len
  IN  [b EXCEPT !.hdrs = <<one, two>>, !.len = rtl, !.top = rtl]

-----------------------------------------------------------------------------
(* Parsing.                                                                *)

\* The header at a place; memory nobody wrote is zero.
HdrAt(b, off) ==
  IF \E k \in DOMAIN b.hdrs : b.hdrs[k].off = off
  THEN b.hdrs[CHOOSE k \in DOMAIN b.hdrs : b.hdrs[k].off = off]
  ELSE [off |-> off, type |-> 0, len |-> 0]
RTA_OK(h, len) == len >= 4 /\ h.len >= 4 /\ h.len <= len

\* The headers a parser visits from off on, and the bytes left at the end (the
\* code's "deficit"); the length left goes down as the place goes up.
AttrWalk(b) ==
  LET visit[off \in Int] ==
        LET h == HdrAt(b, off)
        IN  IF RTA_OK(h, b.len - off)
            THEN [visit[off + ALIGN(h.len)] EXCEPT !.seen = <<h>> \o @]
            ELSE [seen |-> << >>, left |-> b.len - off]
  IN  visit[b.start]

\* For each type up to AttrMax, where its last attribute is; 0 for none.
parse_rtattr(b) ==
  LET w == AttrWalk(b)
      Of(t) == {k \in DOMAIN w.seen : w.seen[k].type = t}
  IN  [tb |-> [t \in 0..AttrMax |->
                 IF Of(t) = {} THEN 0
                 ELSE w.seen[CHOOSE k \in Of(t) : \A j \in Of(t) : j <= k].off],
       deficit |-> w.left]
\* The attributes in order, as many as the table has room for.
KnownHdrs(hdrs) == SelectSeq(hdrs, LAMBDA h : h.type <= AttrMax)
parse_rtattr_byindex(b) ==
  LET s == KnownHdrs(AttrWalk(b).seen)
  IN  [i \in 1..(IF Len(s) < AttrMax THEN Len(s) ELSE AttrMax) |-> s[i].off]

-----------------------------------------------------------------------------
(* Reading a file.  A record is a message with a body of len bytes, the    *)
(* last one perhaps cut inside its body or its header.                     *)

NoFile == [recs |-> << >>, handed |-> << >>, ret |-> "none"]

\* What the header in the buffer says of the length when the file ends inside
\* it: the part that was read over the one read before.
StaleLens(recs, k) == {recs[k].len} \cup (IF k = 1 THEN FileLens ELSE {recs[k - 1].len})

\* The second fread got less than the header says.
Truncated(rec, len) == rec.cut # "none" /\ len > 0

\* The possible results of reading the records; the handler stops at record stop.
rtnl_from_file(recs, stop) ==
  LET from[k \in 1..(Len(recs) + 1)] ==
        IF k > Len(recs) THEN {[handed |-> << >>, ret |-> "ok"]}
        ELSE UNION {
               IF len > FileBuf THEN {[handed |-> << >>, ret |-> "malformed"]}
               ELSE IF Truncated(recs[k], len) THEN {[handed |-> << >>, ret |-> "truncated"]}
               ELSE IF k = stop THEN {[handed |-> <<k>>, ret |-> "handler"]}
               ELSE {[r EXCEPT !.handed = <<k>> \o @] : r \in from[k + 1]}
             : len \in IF recs[k].cut = "header" THEN StaleLens(recs, k) ELSE {recs[k].len}}
  IN  from[1]

-----------------------------------------------------------------------------
Records == {[len |-> n, cut |-> "none"] : n \in FileLens}
Ends == {[len |-> n, cut |-> c] : n \in FileLens \ {0}, c \in {"header", "body"}}
Files ==
  LET whole == {<< >>} \cup {<<a>> : a \in Records} \cup {<<a, b>> : a, b \in Records}
  IN  whole \cup {Append(f, e) : f \in whole, e \in Ends}

AttrIdle == attrs = NewMessage("none", 0) /\ nfile = NoFile
AttrInit ==
  \/ /\ \E kind \in {"message", "nested", "routeadd"}, max \in MaxLens : attrs = NewMessage(kind, max)
     /\ nfile = NoFile
  \/ /\ attrs = NewMessage("none", 0)
     /\ \E f \in Files : nfile = [NoFile EXCEPT !.recs = f]

Build(b) == attrs' = b /\ b # attrs /\ UNCHANGED nfile

AttrNext ==
  \/ \E type \in AttrTypes :
       \/ attrs.kind = "message" /\ Build(addattr32(attrs, type))
       \/ attrs.kind = "nested" /\ Build(rta_addattr32(attrs, type))
       \/ \E alen \in AttrLens :
            \/ attrs.kind = "message" /\ Build(addattr_l(attrs, type, alen))
            \/ attrs.kind = "nested" /\ Build(rta_addattr_l(attrs, type, alen))
            \/ attrs.kind = "routeadd" /\ Build(addattr_l_routeadd(attrs, type, alen))
  \/ \E len \in AttrLens :
       attrs.kind = "message" /\ attrs.hdrs = << >> /\ attrs.len = NLHDR /\ Build(addraw_l(attrs, len))
  \/ \E dst, other \in AttrTypes :
       /\ attrs.kind = "routeadd" /\ attrs.hdrs = << >> /\ attrs.max >= 20
       /\ Build(route_add(attrs, dst, other)) \/ Build(form_request(attrs, dst, other))
  \/ /\ nfile.recs # << >> /\ nfile.ret = "none"
     /\ \E stop \in 0..Len(nfile.recs) : \E r \in rtnl_from_file(nfile.recs, stop) :
          nfile' = [nfile EXCEPT !.handed = r.handed, !.ret = r.ret]
     /\ UNCHANGED attrs

AttrSpec == AttrInit /\ [][AttrNext]_attrVars

-----------------------------------------------------------------------------
\* What was appended is what a parser finds, whatever the lengths, paddings and
\* order: every attribute by index, the last of each type the table has by
\* type, nothing else, no remainder where the library built it, and never a
\* byte beyond the room the caller gave.
AttrsReadBack ==
  attrs.kind # "none" =>
    LET known == KnownHdrs(attrs.hdrs)
        Of(t) == {attrs.hdrs[k].off : k \in {j \in DOMAIN attrs.hdrs : attrs.hdrs[j].type = t}}
        p == parse_rtattr(attrs)
    IN  /\ attrs.top <= attrs.max /\ attrs.len <= attrs.max
        /\ \A t \in 0..AttrMax :
             p.tb[t] = IF Of(t) = {} THEN 0 ELSE CHOOSE o \in Of(t) : \A q \in Of(t) : q <= o
        /\ parse_rtattr_byindex(attrs) =
             [i \in 1..(IF Len(known) < AttrMax THEN Len(known) ELSE AttrMax) |-> known[i].off]
        /\ attrs.kind # "routeadd" => p.deficit = 0

\* The handler gets the messages of the file in order and none twice; success
\* means all of them were whole, except that a file that ends inside a header
\* may repeat the bodiless message before it as if it were one more.
FileReadThrough ==
  nfile.ret # "none" =>
    LET n == Len(nfile.recs)
        Whole(k) == nfile.recs[k].cut = "none"
    IN  /\ \A i \in DOMAIN nfile.handed : nfile.handed[i] = i
        /\ nfile.ret = "ok" =>
             Len(nfile.handed) = n /\
             (Whole(n) \/ (nfile.recs[n].cut = "header" /\ (n = 1 \/ nfile.recs[n - 1].len = 0)))
        /\ nfile.ret = "truncated" => ~Whole(n) /\ Len(nfile.handed) = n - 1

\* Messages hold what was put into them, in memory and read from a file (the two
\* above).
MessagesReadBack == AttrsReadBack /\ FileReadThrough
=============================================================================
