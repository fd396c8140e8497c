---------------------------- MODULE NetlinkProofs ----------------------------
(***************************************************************************)
(* What holds of the netlink library, of the interface map and of the      *)
(* attributes of messages, for any interfaces and names, any socket and    *)
(* buffer sizes, any lengths and types of attributes and any number of     *)
(* requests, notices and foreign datagrams. The library's invariant        *)
(* follows a call through the socket: which queued messages are its own    *)
(* (Mine), that those of a dump continue what was handed out, in order and *)
(* without a gap, up to the part still to be sent (Flow), and that an      *)
(* answer which ends the call is queued, to be sent or lost (Coming). That *)
(* of a message under construction is that its attributes lie one behind   *)
(* the other, aligned, up to its end (Laid).                               *)
(***************************************************************************)
EXTENDS Netlink, NetAttr, NatRecursion, SequenceTheorems

-----------------------------------------------------------------------------
(* The invariant.                                                          *)

NLinks == Cardinality(Indexes)
Talks == {"set", "get"}
Dumps == {"dump", "ll_init_map"}
LinkMsgs == [pid : {Me, Other, Kernel}, seq : Nat, type : {"link"}, idx : Indexes,
             name : LinkNames \cup {NoName}, flags : Nat]
ControlMsgs == [pid : {Me}, seq : Nat, type : {"done", "ack", "fail"}, idx : {0}, name : {NoName}, flags : {0}]
Msgs == LinkMsgs \cup ControlMsgs
Datagrams == [from : {Other, Kernel}, msgs : Seq(Msgs) \ {<< >>}]
Socks == [q : Seq(Datagrams), overrun : BOOLEAN, groups : BOOLEAN, dump : Seq(Nat), open : BOOLEAN,
          sent : BOOLEAN, before : Nat \X Nat]
Calls == [op : Talks \cup Dumps \cup {"readSock", "recv_reply", "listen"}, seq : Nat, answer : BOOLEAN,
          junk : BOOLEAN, stop : Nat, verdict : {"ack", "fail"},
          ret : {"wait", "ok", "error", "junk", "filter"}, got : Seq(Msgs), lost : BOOLEAN, cut : BOOLEAN]
ShortCalls == [op : {"none", "unopened", "exited"}, ret : {"ok", "error"}]

\* A dump under way has a number given out before, and interfaces in order.
DumpOK(dump) ==
  dump # << >> =>
    /\ dump[1] \in Nat /\ dump[1] <= nlseq
    /\ \A x \in 2..Len(dump) : dump[x] \in Indexes
    /\ \A x, y \in 2..Len(dump) : x < y => dump[x] < dump[y]
\* No answer is from a request not yet made.
NumbersOK ==
  /\ \A k \in DOMAIN sock.q : \A j \in DOMAIN sock.q[k].msgs :
       sock.q[k].from = Kernel /\ sock.q[k].msgs[j].pid = Me => sock.q[k].msgs[j].seq <= nlseq
  /\ DumpOK(sock.dump)
  /\ call \in Calls => call.seq <= nlseq
\* A closed socket has no call.
NetTyped ==
  /\ links \in [Indexes -> LinkNames] /\ sock \in Socks /\ Len(sock.q) <= QLen /\ nlseq \in Nat /\ events \in Nat
  /\ call \in Calls \cup ShortCalls
  /\ ~sock.open => sock = NoSock /\ call \notin Calls

\* Message j of datagram k of queue q is one the call looks at.
MineAt(c, q, k, j) ==
  k \in DOMAIN q /\ j \in DOMAIN q[k].msgs /\ Mine(c, q[k].from, q[k].msgs[j])
\* n messages of the first datagram have been read.
Ahead(n, k, j) == k > 1 \/ j > n
Earlier(k, j, l, i) == k < l \/ (k = l /\ j < i)
\* The rest of the dump is for this call.
MyDump(c, dump) == dump # << >> /\ dump[1] = c.seq

\* Refusals, and only they, answer a request that was refused.
TalkConforms(c, q) ==
  \A k, j \in Nat : MineAt(c, q, k, j) =>
    q[k].msgs[j].type = "fail" <=> c.verdict = "fail"

\* An interface was handed out, is queued or is to be sent.
Seen(c, i) == \E g \in DOMAIN c.got : c.got[g].idx = i
InQueue(c, q, n, i) ==
  \E k, j \in Nat : MineAt(c, q, k, j) /\ Ahead(n, k, j) /\ q[k].msgs[j].type = "link" /\ q[k].msgs[j].idx = i
InDump(c, dump, i) == MyDump(c, dump) /\ \E x \in 2..Len(dump) : dump[x] = i

\* What is to come of a dump is links and the end, or a refusal; it ascends,
\* past what was handed out, with the end last; and nothing is missing.
FlowTyped(c, q, n, dump) ==
  /\ \A k, j \in Nat : MineAt(c, q, k, j) /\ Ahead(n, k, j) =>
       q[k].msgs[j].type \in (IF c.verdict = "fail" THEN {"fail"} ELSE {"link", "done"})
  /\ MyDump(c, dump) => c.verdict = "ack"
  /\ \A g \in DOMAIN c.got : c.got[g].idx \in Indexes
FlowOrdered(c, q, n, dump) ==
  /\ Ascending(IndexesOf(c.got))
  /\ \A g \in DOMAIN c.got : \A k, j \in Nat :
       MineAt(c, q, k, j) /\ Ahead(n, k, j) /\ q[k].msgs[j].type = "link" => c.got[g].idx < q[k].msgs[j].idx
  /\ \A k, j, l, i \in Nat :
       MineAt(c, q, k, j) /\ Ahead(n, k, j) /\ MineAt(c, q, l, i) /\ Earlier(k, j, l, i) =>
         /\ q[k].msgs[j].type # "done"
         /\ q[l].msgs[i].type = "link" => q[k].msgs[j].idx < q[l].msgs[i].idx
  /\ MyDump(c, dump) => \A x \in 2..Len(dump) :
       /\ \A g \in DOMAIN c.got : c.got[g].idx < dump[x]
       /\ \A k, j \in Nat : MineAt(c, q, k, j) /\ Ahead(n, k, j) => q[k].msgs[j].idx < dump[x]
  /\ MyDump(c, dump) => \A k, j \in Nat : MineAt(c, q, k, j) /\ Ahead(n, k, j) => q[k].msgs[j].type # "done"
FlowWhole(c, q, n, dump) ==
  c.verdict = "ack" /\ ~c.cut => \A i \in Indexes : Seen(c, i) \/ InQueue(c, q, n, i) \/ InDump(c, dump, i)
Flow(c, q, n, dump) ==
  FlowTyped(c, q, n, dump) /\ FlowOrdered(c, q, n, dump) /\ FlowWhole(c, q, n, dump)

\* An answer that ends the call is in the queue, alone in its datagram.
Final(c, m) ==
  \/ m.type \in {"fail", "ack"} \/ (m.type = "done" /\ c.op \notin Talks)
  \/ m.type = "link" /\ c.op \in Talks /\ c.answer
AnswerQueued(c, q) ==
  \E k \in DOMAIN q : Len(q[k].msgs) = 1 /\ MineAt(c, q, k, 1) /\ Final(c, q[k].msgs[1])
Waits(c) == c.ret = "wait" /\ c.op \in Talks \cup Dumps \cup {"readSock"}
Coming(c, q, dump) == c.lost \/ AnswerQueued(c, q) \/ (c.op \notin Talks /\ MyDump(c, dump))
AnswerComes == Waits(call) => Coming(call, sock.q, sock.dump)

\* The queue holds nothing else, links apart from the end.
OwnOnly(c, q) ==
  \A k \in DOMAIN q : /\ \A j \in DOMAIN q[k].msgs : MineAt(c, q, k, j)
                      /\ q[k].msgs[1].type = "link" => \A j \in DOMAIN q[k].msgs : q[k].msgs[j].type = "link"
                      /\ q[k].msgs[1].type # "link" => Len(q[k].msgs) = 1

\* The calls that wait: a request, a dump, and readSock on a socket to which
\* nobody else sent.
TalkInv(c, q, dump) ==
  c.op \in Talks =>
    /\ c.answer => c.op = "get"
    /\ c.ret = "wait" => c.got = << >> /\ TalkConforms(c, q) /\ ~MyDump(c, dump)
DumpInv(c, q, dump) == c.op \in Dumps /\ c.ret = "wait" => Flow(c, q, 0, dump)
ReadInv(c, s, n) ==
  c.op = "readSock" /\ c.ret = "wait" /\ n = s.before[2] =>
    /\ Flow(c, s.q, 0, s.dump) /\ OwnOnly(c, s.q) /\ ~s.groups /\ c.verdict = "ack"
    /\ s.dump # << >> => MyDump(c, s.dump)
CallInv ==
  /\ TalkInv(call, sock.q, sock.dump) /\ DumpInv(call, sock.q, sock.dump) /\ ReadInv(call, sock, events)
  /\ AnswersBelong
\* Nothing has been asked or heard on a socket that was just opened.
FreshSocket ==
  sock.open /\ ~sock.groups /\ nlseq = sock.before[1] /\ ~sock.sent /\ events = sock.before[2] =>
    sock.q = << >> /\ sock.dump = << >>
BeforeOK == sock.open => sock.before[1] <= nlseq /\ sock.before[2] <= events
NetlinkInv == NetTyped /\ NumbersOK /\ CallInv /\ AnswerComes /\ FreshSocket /\ BeforeOK

-----------------------------------------------------------------------------
(* The socket.                                                             *)

\* The elements of a sequence.
LEMMA SeqElements ==
  ASSUME NEW S, NEW s \in Seq(S)
  PROVE  Len(s) \in Nat /\ DOMAIN s = 1..Len(s) /\ \A x \in DOMAIN s : s[x] \in S
OBVIOUS

\* The interfaces are numbered from 1, and so is the table of their names.
LEMMA Interfaces ==
  /\ NLinks \in Nat \ {0} /\ Indexes = 1..NLinks /\ Indexes \subseteq Nat /\ 1 \in Indexes
  /\ \A f \in [Indexes -> LinkNames] : Len(f) = NLinks
<1>1. NLinks \in Nat \ {0} /\ Indexes = 1..NLinks
  BY LinksAssumption DEF NLinks
<1>2. ASSUME NEW f \in [Indexes -> LinkNames]
      PROVE  Len(f) = NLinks
  <2>1. f \in [1..NLinks -> LinkNames]
    BY <1>1, <1>2
  <2> QED
    BY <1>1, <2>1
<1> QED
  BY <1>1, <1>2

\* What is in a queue stays in it, at its place, when datagrams arrive.
Grown(q, r) == Len(q) <= Len(r) /\ \A k \in DOMAIN q : r[k] = q[k]

\* What arrives goes to the end of the queue, and what does not fit makes it overrun.
LEMMA Delivered ==
  ASSUME NEW s \in Socks, Len(s.q) <= QLen, NEW ds \in Seq(Datagrams)
  PROVE  LET t == Deliver(s, ds)
         IN  /\ t \in Socks /\ Len(t.q) <= QLen /\ Grown(s.q, t.q)
             /\ t.groups = s.groups /\ t.dump = s.dump /\ t.open = s.open /\ t.sent = s.sent
             /\ t.before = s.before
             /\ \A k \in DOMAIN t.q \ DOMAIN s.q : k - Len(s.q) \in DOMAIN ds /\ t.q[k] = ds[k - Len(s.q)]
             /\ Fits(s, Len(ds)) => Len(t.q) = Len(s.q) + Len(ds)
<1> DEFINE all == s.q \o ds
           r == AtMost(all, QLen)
           t == Deliver(s, ds)
<1>1. s.q \in Seq(Datagrams) /\ Len(s.q) \in Nat /\ Len(ds) \in Nat /\ QLen \in Nat
  BY SizesAssumption DEF Socks
<1>2. all \in Seq(Datagrams) /\ Len(all) = Len(s.q) + Len(ds)
  BY <1>1
<1>3. /\ \A k \in 1..Len(s.q) : all[k] = s.q[k]
      /\ \A k \in (Len(s.q) + 1)..Len(all) : all[k] = ds[k - Len(s.q)] /\ k - Len(s.q) \in 1..Len(ds)
  BY <1>1, <1>2
<1> HIDE DEF all
<1>4. /\ r \in Seq(Datagrams) /\ Len(r) = (IF Len(all) <= QLen THEN Len(all) ELSE QLen)
      /\ \A k \in 1..Len(r) : r[k] = all[k]
  <2>1. CASE Len(all) <= QLen
    BY <1>2, <2>1 DEF AtMost
  <2>2. CASE ~(Len(all) <= QLen)
    <3>1. r = SubSeq(all, 1, QLen) /\ QLen \in 0..Len(all)
      BY <1>1, <1>2, <2>2 DEF AtMost
    <3> HIDE DEF r
    <3> QED
      BY <1>2, <2>2, <3>1
  <2> QED
    BY <2>1, <2>2
<1>5. t = [q |-> r, overrun |-> s.overrun \/ ~Fits(s, Len(ds)), groups |-> s.groups, dump |-> s.dump,
           open |-> s.open, sent |-> s.sent, before |-> s.before]
  <2>1. s = [q |-> s.q, overrun |-> s.overrun, groups |-> s.groups, dump |-> s.dump, open |-> s.open,
             sent |-> s.sent, before |-> s.before]
    BY DEF Socks
  <2>2. t = [s EXCEPT !.q = r, !.overrun = s.overrun \/ ~Fits(s, Len(ds))]
    BY DEF Deliver, all
  <2> HIDE DEF t, r
  <2> QED
    BY <2>1, <2>2
<1> HIDE DEF r
<1>6. t \in Socks /\ t.q = r /\ t.groups = s.groups /\ t.dump = s.dump /\ t.open = s.open /\ t.sent = s.sent
      /\ t.before = s.before
  BY <1>4, <1>5 DEF Socks
<1>7. Len(s.q) <= Len(r) /\ Len(r) <= QLen /\ Len(r) <= Len(all) /\ Len(r) \in Nat
  BY <1>1, <1>2, <1>4
<1>8. \A k \in DOMAIN s.q : r[k] = s.q[k]
  <2> SUFFICES ASSUME NEW k \in DOMAIN s.q
               PROVE  r[k] = s.q[k]
    OBVIOUS
  <2>1. k \in 1..Len(s.q) /\ k \in 1..Len(r)
    BY <1>1, <1>7
  <2> QED
    BY <1>3, <1>4, <2>1
<1>9. \A k \in DOMAIN r \ DOMAIN s.q : k - Len(s.q) \in DOMAIN ds /\ r[k] = ds[k - Len(s.q)]
  <2> SUFFICES ASSUME NEW k \in DOMAIN r \ DOMAIN s.q
               PROVE  k - Len(s.q) \in DOMAIN ds /\ r[k] = ds[k - Len(s.q)]
    OBVIOUS
  <2>1. k \in 1..Len(r) /\ k \notin 1..Len(s.q)
    BY <1>1, <1>4
  <2>2. k \in (Len(s.q) + 1)..Len(all)
    BY <2>1, <1>1, <1>7, <1>2
  <2> QED
    BY <1>3, <1>4, <2>1, <2>2
<1>10. Fits(s, Len(ds)) => Len(r) = Len(s.q) + Len(ds)
  BY <1>1, <1>2, <1>4 DEF Fits
<1> HIDE DEF t
<1> QED
  BY <1>6, <1>7, <1>8, <1>9, <1>10 DEF t, Grown

\* What a message can be.
LEMMA MessageTypes ==
  /\ \A m \in Msgs : /\ m.pid \in {Me, Other, Kernel} /\ m.seq \in Nat /\ m.type \in {"link", "done", "ack", "fail"}
                     /\ m.idx \in Nat
                     /\ m.type = "link" => m \in LinkMsgs /\ m.idx \in Indexes
                     /\ m.type # "link" => m.idx = 0
  /\ LinkMsgs \subseteq Msgs
BY Interfaces DEF Msgs, LinkMsgs, ControlMsgs

\* An answer that is not a link.
LEMMA ControlTyped ==
  ASSUME NEW type \in {"done", "ack", "fail"}, NEW seq \in Nat
  PROVE  Control(type, seq) \in Msgs /\ Control(type, seq).pid = Me /\ Control(type, seq).seq = seq
         /\ Control(type, seq).type = type
BY DEF Control, Msgs, ControlMsgs

\* A message about an interface.
LEMMA LinkTyped ==
  ASSUME links \in [Indexes -> LinkNames], NEW i \in Indexes, NEW seq \in Nat, NEW pid \in {Me, Other, Kernel}
  PROVE  /\ Link(i, seq, pid) \in LinkMsgs /\ Link(i, seq, pid) \in Msgs
         /\ Link(i, seq, pid).pid = pid /\ Link(i, seq, pid).seq = seq /\ Link(i, seq, pid).type = "link"
         /\ Link(i, seq, pid).idx = i
<1>1. i % 2 \in Nat
  BY Interfaces
<1> QED
  BY <1>1 DEF Link, Msgs, LinkMsgs

\* A datagram of one message.
LEMMA OneMessage ==
  ASSUME NEW m \in Msgs, NEW from \in {Other, Kernel}
  PROVE  LET d == Datagram(from, <<m>>)
         IN  d \in Datagrams /\ d.from = from /\ d.msgs = <<m>> /\ Len(d.msgs) = 1 /\ d.msgs[1] = m
BY DEF Datagram, Datagrams

-----------------------------------------------------------------------------
(* What does not concern a call leaves it as it is.                        *)

\* To the call the two queues are the same.
SameView(c, q, r) ==
  \A k, j \in Nat : /\ MineAt(c, r, k, j) <=> MineAt(c, q, k, j)
                    /\ MineAt(c, q, k, j) => r[k] = q[k]

\* A call sees nothing of datagrams that arrive with no message of its own.
LEMMA NotMine ==
  ASSUME NEW q \in Seq(Datagrams), NEW r \in Seq(Datagrams), Grown(q, r), NEW c,
         \A k \in DOMAIN r \ DOMAIN q : \A j \in DOMAIN r[k].msgs : ~Mine(c, r[k].from, r[k].msgs[j])
  PROVE  SameView(c, q, r)
<1>1. \A k \in DOMAIN q : k \in DOMAIN r /\ r[k] = q[k]
  BY DEF Grown
<1>2. ASSUME NEW k \in Nat, NEW j \in Nat
      PROVE  /\ MineAt(c, r, k, j) <=> MineAt(c, q, k, j)
             /\ MineAt(c, q, k, j) => r[k] = q[k]
  BY <1>1, Zenon DEF MineAt
<1> QED
  BY <1>2 DEF SameView

\* A dump goes on as before while the call sees the same messages.
LEMMA FlowKept ==
  ASSUME NEW c, NEW q, NEW r, NEW n, NEW dump, NEW rest, SameView(c, q, r),
         Flow(c, q, n, dump), MyDump(c, rest) => rest = dump /\ MyDump(c, dump),
         MyDump(c, dump) => MyDump(c, rest)
  PROVE  Flow(c, r, n, rest)
<1>1. \A k, j \in Nat : /\ MineAt(c, r, k, j) <=> MineAt(c, q, k, j)
                        /\ MineAt(c, q, k, j) => r[k] = q[k]
  BY DEF SameView
<1>2. MyDump(c, rest) <=> MyDump(c, dump)
  OBVIOUS
<1>3. FlowTyped(c, r, n, rest)
  <2>1. FlowTyped(c, q, n, dump)
    BY DEF Flow
  <2> QED
    BY <1>1, <1>2, <2>1 DEF FlowTyped
<1>4. FlowOrdered(c, r, n, rest)
  <2>1. FlowOrdered(c, q, n, dump)
    BY DEF Flow
  <2>2. Ascending(IndexesOf(c.got))
    BY <2>1 DEF FlowOrdered
  <2>3. ASSUME NEW g \in DOMAIN c.got, NEW k \in Nat, NEW j \in Nat, MineAt(c, r, k, j), Ahead(n, k, j),
               r[k].msgs[j].type = "link"
        PROVE  c.got[g].idx < r[k].msgs[j].idx
    BY <1>1, <2>1, <2>3 DEF FlowOrdered
  <2>4. ASSUME NEW k \in Nat, NEW j \in Nat, NEW l \in Nat, NEW i \in Nat,
               MineAt(c, r, k, j), Ahead(n, k, j), MineAt(c, r, l, i), Earlier(k, j, l, i)
        PROVE  /\ r[k].msgs[j].type # "done"
               /\ r[l].msgs[i].type = "link" => r[k].msgs[j].idx < r[l].msgs[i].idx
    <3>1. MineAt(c, q, k, j) /\ MineAt(c, q, l, i) /\ r[k] = q[k] /\ r[l] = q[l]
      BY <1>1, <2>4
    <3> QED
      BY <2>1, <2>4, <3>1 DEF FlowOrdered
  <2>5. ASSUME MyDump(c, rest), NEW x \in 2..Len(rest)
        PROVE  /\ \A g \in DOMAIN c.got : c.got[g].idx < rest[x]
               /\ \A k, j \in Nat : MineAt(c, r, k, j) /\ Ahead(n, k, j) => r[k].msgs[j].idx < rest[x]
    BY <1>1, <2>1, <2>5 DEF FlowOrdered
  <2>6. ASSUME MyDump(c, rest), NEW k \in Nat, NEW j \in Nat, MineAt(c, r, k, j), Ahead(n, k, j)
        PROVE  r[k].msgs[j].type # "done"
    BY <1>1, <1>2, <2>1, <2>6 DEF FlowOrdered
  <2> QED
    BY <2>2, <2>3, <2>4, <2>5, <2>6 DEF FlowOrdered
<1>5. FlowWhole(c, r, n, rest)
  <2>1. FlowWhole(c, q, n, dump)
    BY DEF Flow
  <2>2. \A i : InQueue(c, q, n, i) => InQueue(c, r, n, i)
    BY <1>1 DEF InQueue
  <2>3. \A i : InDump(c, dump, i) => InDump(c, rest, i)
    BY <1>2 DEF InDump
  <2> QED
    BY <2>1, <2>2, <2>3 DEF FlowWhole
<1> QED
  BY <1>3, <1>4, <1>5 DEF Flow

\* So does a request.
LEMMA TalkKept ==
  ASSUME NEW c, NEW q, NEW r, NEW dump, NEW rest, SameView(c, q, r), TalkInv(c, q, dump),
         MyDump(c, rest) => MyDump(c, dump)
  PROVE  TalkInv(c, r, rest)
<1>1. TalkConforms(c, q) => TalkConforms(c, r)
  BY DEF SameView, TalkConforms
<1> QED
  BY <1>1 DEF TalkInv

\* An answer that is queued stays queued when more arrives.
LEMMA AnswerStays ==
  ASSUME NEW c, NEW q \in Seq(Datagrams), NEW r \in Seq(Datagrams), Grown(q, r), AnswerQueued(c, q)
  PROVE  AnswerQueued(c, r)
<1>1. PICK k \in DOMAIN q : Len(q[k].msgs) = 1 /\ MineAt(c, q, k, 1) /\ Final(c, q[k].msgs[1])
  BY DEF AnswerQueued
<1>2. k \in DOMAIN r /\ r[k] = q[k]
  BY DEF Grown
<1> QED
  BY <1>1, <1>2 DEF AnswerQueued, MineAt

\* AnswersBelong stays when neither the call nor the names of the interfaces in use change.
LEMMA BelongKept ==
  ASSUME links \in [Indexes -> LinkNames], links' \in [Indexes -> LinkNames], AnswersBelong, call' = call,
         events' = sock'.before[2] => events = sock.before[2]
  PROVE  AnswersBelong'
<1>1. Len(links') = Len(links)
  BY Interfaces
<1>2. All' = All
  BY <1>1 DEF All
<1> QED
  BY <1>2 DEF AnswersBelong

\* A step of others that does not touch the call.
LEMMA CallKept ==
  ASSUME NetTyped, CallInv, AnswerComes, call' = call, call \in Calls => SameView(call, sock.q, sock'.q),
         links' \in [Indexes -> LinkNames], sock'.q \in Seq(Datagrams), Grown(sock.q, sock'.q),
         sock'.dump = sock.dump \/ (call \in Calls => ~MyDump(call, sock.dump) /\ ~MyDump(call, sock'.dump)),
         ~(call.op = "readSock" /\ call.ret = "wait" /\ events' = sock'.before[2]),
         events' = sock'.before[2] => events = sock.before[2]
  PROVE  CallInv' /\ AnswerComes'
<1>1. AnswersBelong'
  BY BelongKept DEF CallInv, NetTyped
<1>2. call.op \in Talks \cup Dumps \cup {"readSock"} => call \in Calls
  BY DEF NetTyped, ShortCalls, Talks, Dumps
<1>3. TalkInv(call, sock'.q, sock'.dump)
  BY <1>2, TalkKept DEF CallInv, TalkInv
<1>4. DumpInv(call, sock'.q, sock'.dump)
  BY <1>2, FlowKept DEF CallInv, DumpInv
<1>5. ReadInv(call, sock', events')
  BY DEF ReadInv
<1>6. Waits(call) => Coming(call, sock'.q, sock'.dump)
  <2> SUFFICES ASSUME Waits(call)
               PROVE  Coming(call, sock'.q, sock'.dump)
    OBVIOUS
  <2>1. Coming(call, sock.q, sock.dump) /\ call \in Calls
    BY <1>2 DEF AnswerComes, Waits
  <2>2. sock.q \in Seq(Datagrams)
    BY DEF NetTyped, Socks
  <2> QED
    BY <2>1, <2>2, AnswerStays DEF Coming
<1> QED
  BY <1>1, <1>3, <1>4, <1>5, <1>6 DEF CallInv, AnswerComes

-----------------------------------------------------------------------------
(* A dump goes on.                                                         *)

\* d, a part of the dump or its end, joins the queue, and rest is still to come.
DumpGoesOn(c, q, r, dump, rest) ==
  LET d == r[Len(r)]
      n == Len(d.msgs)
  IN  /\ Len(r) = Len(q) + 1 /\ Grown(q, r) /\ MyDump(c, dump)
      /\ \A j \in 1..n : Mine(c, d.from, d.msgs[j])
      /\ \/ Len(dump) = 1 /\ n = 1 /\ d.msgs[1].type = "done" /\ d.msgs[1].idx = 0 /\ rest = << >>
         \/ /\ n \in 1..(Len(dump) - 1) /\ Len(rest) = Len(dump) - n /\ rest # << >> /\ rest[1] = dump[1]
            /\ \A j \in 1..n : d.msgs[j].type = "link" /\ d.msgs[j].idx = dump[j + 1]
            /\ \A x \in 2..Len(rest) : rest[x] = dump[x + n]

\* The part the kernel sends continues the dump where the queue ends.
LEMMA FlowGoesOn ==
  ASSUME NEW c \in Calls, NEW q \in Seq(Datagrams), NEW r \in Seq(Datagrams), NEW dump \in Seq(Nat),
         NEW rest \in Seq(Nat), DumpGoesOn(c, q, r, dump, rest), DumpOK(dump), Flow(c, q, 0, dump)
  PROVE  Flow(c, r, 0, rest)
<1> DEFINE d == r[Len(r)]
           n == Len(d.msgs)
           New(k, j) == k = Len(r) /\ j \in 1..n
<1>1. /\ Len(q) \in Nat /\ Len(r) = Len(q) + 1 /\ d \in Datagrams /\ n \in Nat /\ DOMAIN d.msgs = 1..n
      /\ DOMAIN q = 1..Len(q) /\ DOMAIN r = 1..Len(r) /\ d.msgs \in Seq(Msgs)
  <2>1. Len(q) \in Nat /\ Len(r) = Len(q) + 1 /\ DOMAIN q = 1..Len(q) /\ DOMAIN r = 1..Len(r)
    BY DEF DumpGoesOn
  <2>2. d \in Datagrams
    BY <2>1
  <2>3. d.msgs \in Seq(Msgs)
    BY <2>2 DEF Datagrams
  <2> QED
    BY <2>1, <2>2, <2>3
<1>2. \A j \in 1..n : Mine(c, d.from, d.msgs[j])
  BY DEF DumpGoesOn
<1>3. \A k \in DOMAIN q : r[k] = q[k]
  BY DEF DumpGoesOn, Grown
<1>4. MyDump(c, dump) /\ Len(dump) \in Nat
  BY DEF DumpGoesOn
<1> HIDE DEF d, n
<1>5. ASSUME NEW k \in Nat, NEW j \in Nat
      PROVE  /\ MineAt(c, r, k, j) <=> MineAt(c, q, k, j) \/ New(k, j)
             /\ MineAt(c, q, k, j) => r[k] = q[k] /\ k < Len(r)
             /\ New(k, j) => r[k] = d
             /\ MineAt(c, r, k, j) => Ahead(0, k, j)
  <2>1. k \in DOMAIN r <=> k \in DOMAIN q \/ k = Len(r)
    BY <1>1
  <2>2. k \in DOMAIN q => r[k] = q[k] /\ k < Len(r)
    <3>1. DOMAIN q = 1..Len(q) /\ Len(q) \in Nat /\ Len(r) = Len(q) + 1
      BY <1>1
    <3>2. k \in 1..Len(q) => k < Len(r)
      BY <3>1
    <3> QED
      BY <1>3, <3>1, <3>2
  <2>3. ~(Len(r) \in DOMAIN q)
    BY <1>1
  <2>4. k = Len(r) => (MineAt(c, r, k, j) <=> New(k, j))
    BY <1>1, <1>2, <2>1 DEF MineAt, d
  <2>5. k \in DOMAIN q => (MineAt(c, r, k, j) <=> MineAt(c, q, k, j))
    BY <2>1, <2>2, Zenon DEF MineAt
  <2>6. MineAt(c, r, k, j) => Ahead(0, k, j)
    <3> SUFFICES ASSUME MineAt(c, r, k, j)
                 PROVE  Ahead(0, k, j)
      OBVIOUS
    <3>1. r[k] \in Datagrams /\ j \in DOMAIN r[k].msgs
      BY <1>1 DEF MineAt
    <3>2. r[k].msgs \in Seq(Msgs)
      BY <3>1 DEF Datagrams
    <3> QED
      BY <3>1, <3>2 DEF Ahead
  <2>7. MineAt(c, r, k, j) => k \in DOMAIN r
    BY DEF MineAt
  <2>8. MineAt(c, q, k, j) => k \in DOMAIN q
    BY DEF MineAt
  <2> QED
    BY <2>1, <2>2, <2>3, <2>4, <2>5, <2>6, <2>7, <2>8 DEF d
<1>6. FlowTyped(c, q, 0, dump) /\ FlowOrdered(c, q, 0, dump) /\ FlowWhole(c, q, 0, dump)
  BY DEF Flow
<1>7. \A k, j \in Nat : MineAt(c, q, k, j) => Ahead(0, k, j) /\ r[k] = q[k] /\ k < Len(r)
  BY <1>5
<1>8. /\ c.verdict = "ack"
      /\ MyDump(c, rest) => rest # << >>
      /\ \A k, j \in Nat : MineAt(c, q, k, j) => q[k].msgs[j].type = "link"
  <2>1. c.verdict = "ack"
    BY <1>4, <1>6 DEF FlowTyped
  <2>2. \A k, j \in Nat : MineAt(c, q, k, j) => q[k].msgs[j].type \in {"link", "done"}
    BY <1>6, <1>7, <2>1 DEF FlowTyped
  <2>3. \A k, j \in Nat : MineAt(c, q, k, j) => q[k].msgs[j].type # "done"
    BY <1>4, <1>6, <1>7 DEF FlowOrdered
  <2> QED
    BY <2>1, <2>2, <2>3 DEF MyDump
<1>9. \A k, j \in Nat : MineAt(c, q, k, j) => \A x \in 2..Len(dump) : q[k].msgs[j].idx < dump[x]
  BY <1>4, <1>6, <1>7 DEF FlowOrdered
<1>10. \A g \in DOMAIN c.got : \A x \in 2..Len(dump) : c.got[g].idx < dump[x]
  BY <1>4, <1>6 DEF FlowOrdered
<1>11. /\ \A x \in 2..Len(dump) : dump[x] \in Nat
       /\ \A x, y \in 2..Len(dump) : x < y => dump[x] < dump[y]
  BY <1>4, Interfaces DEF DumpOK, MyDump
<1> DEFINE Stops == Len(dump) = 1 /\ n = 1 /\ rest = << >>
           Goes == n \in 1..(Len(dump) - 1) /\ Len(rest) = Len(dump) - n /\ rest # << >> /\ rest[1] = dump[1]
<1>12. /\ Stops \/ Goes
       /\ \A j \in 1..n : /\ Stops => j = 1 /\ d.msgs[j].type = "done" /\ d.msgs[j].idx = 0
                          /\ Goes => /\ d.msgs[j].type = "link" /\ d.msgs[j].idx = dump[j + 1]
                                     /\ j + 1 \in 2..Len(dump)
       /\ Goes => \A x \in 2..Len(rest) : rest[x] = dump[x + n] /\ x + n \in 2..Len(dump)
       /\ Goes => n \in Nat
  <2>1. \/ Stops /\ d.msgs[1].type = "done" /\ d.msgs[1].idx = 0
        \/ /\ Goes
           /\ \A j \in 1..n : d.msgs[j].type = "link" /\ d.msgs[j].idx = dump[j + 1]
           /\ \A x \in 2..Len(rest) : rest[x] = dump[x + n]
    BY DEF DumpGoesOn, d, n
  <2>2. ~(Stops /\ Goes)
    BY <1>4
  <2>3. Goes => /\ \A j \in 1..n : j + 1 \in 2..Len(dump)
                /\ \A x \in 2..Len(rest) : x + n \in 2..Len(dump)
                /\ n \in Nat
    BY <1>4
  <2>4. Stops => \A j \in 1..n : j = 1
    OBVIOUS
  <2> HIDE DEF Stops, Goes
  <2> QED
    BY <2>1, <2>2, <2>3, <2>4
<1>16. Goes => n # 0 /\ Len(rest) = Len(dump) - n /\ (MyDump(c, rest) <=> MyDump(c, dump))
  BY <1>4 DEF MyDump
<1>17. Stops => n = 1 /\ Len(dump) = 1 /\ ~MyDump(c, rest)
  BY DEF MyDump
<1> HIDE DEF Stops, Goes
<1>13. FlowTyped(c, r, 0, rest)
  <2>1. ASSUME NEW k \in Nat, NEW j \in Nat, MineAt(c, r, k, j)
        PROVE  r[k].msgs[j].type \in {"link", "done"}
    <3>1. CASE MineAt(c, q, k, j)
      BY <1>5, <1>8, <3>1
    <3>2. CASE New(k, j)
      BY <1>5, <1>12, <3>2
    <3> QED
      BY <1>5, <2>1, <3>1, <3>2
  <2>2. \A g \in DOMAIN c.got : c.got[g].idx \in Indexes
    BY <1>6 DEF FlowTyped
  <2> QED
    BY <1>8, <2>1, <2>2 DEF FlowTyped
<1>14. FlowOrdered(c, r, 0, rest)
  <2>1. Ascending(IndexesOf(c.got))
    BY <1>6 DEF FlowOrdered
  <2>2. ASSUME NEW g \in DOMAIN c.got, NEW k \in Nat, NEW j \in Nat, MineAt(c, r, k, j), r[k].msgs[j].type = "link"
        PROVE  c.got[g].idx < r[k].msgs[j].idx
    <3>1. CASE MineAt(c, q, k, j)
      BY <1>6, <1>7, <2>2, <3>1 DEF FlowOrdered
    <3>2. CASE New(k, j)
      <4>1. r[k] = d /\ j \in 1..n
        BY <1>5, <3>2
      <4>2. d.msgs[j].type # "done"
        BY <2>2, <4>1
      <4>3. d.msgs[j].idx = dump[j + 1] /\ j + 1 \in 2..Len(dump)
        BY <1>12, <4>1, <4>2
      <4> QED
        BY <1>10, <4>1, <4>3
    <3> QED
      BY <1>5, <2>2, <3>1, <3>2
  <2>3. ASSUME NEW k \in Nat, NEW j \in Nat, NEW l \in Nat, NEW i \in Nat,
               MineAt(c, r, k, j), MineAt(c, r, l, i), Earlier(k, j, l, i)
        PROVE  /\ r[k].msgs[j].type # "done"
               /\ r[l].msgs[i].type = "link" => r[k].msgs[j].idx < r[l].msgs[i].idx
    <3>1. CASE MineAt(c, q, l, i)
      <4>1. MineAt(c, q, k, j)
        BY <1>5, <1>7, <2>3, <3>1 DEF Earlier
      <4> QED
        BY <1>6, <1>7, <2>3, <3>1, <4>1 DEF FlowOrdered
    <3>2. CASE New(l, i) /\ MineAt(c, q, k, j)
      <4>1. r[k].msgs[j].type = "link" /\ r[k] = q[k] /\ r[l] = d
        BY <1>5, <1>8, <3>2
      <4>2. ASSUME r[l].msgs[i].type = "link"
            PROVE  r[k].msgs[j].idx < r[l].msgs[i].idx
        <5>1. d.msgs[i].type # "done"
          BY <4>1, <4>2
        <5>2. d.msgs[i].idx = dump[i + 1] /\ i + 1 \in 2..Len(dump)
          BY <1>12, <3>2, <5>1
        <5> QED
          BY <1>9, <3>2, <4>1, <5>2
      <4> QED
        BY <4>1, <4>2
    <3>3. CASE New(l, i) /\ New(k, j)
      <4>1. j < i /\ n # 1 /\ r[k] = d /\ r[l] = d
        BY <1>1, <1>5, <2>3, <3>3 DEF Earlier
      <4>2. Goes
        BY <1>12, <1>17, <4>1
      <4>3. /\ d.msgs[i].idx = dump[i + 1] /\ d.msgs[j].idx = dump[j + 1] /\ d.msgs[j].type = "link"
            /\ i + 1 \in 2..Len(dump) /\ j + 1 \in 2..Len(dump)
        BY <1>12, <3>3, <4>2
      <4>4. j + 1 < i + 1
        BY <4>1
      <4> QED
        BY <1>11, <4>1, <4>3, <4>4
    <3> QED
      BY <1>5, <2>3, <3>1, <3>2, <3>3
  <2>4. ASSUME MyDump(c, rest), NEW x \in 2..Len(rest)
        PROVE  /\ \A g \in DOMAIN c.got : c.got[g].idx < rest[x]
               /\ \A k, j \in Nat : MineAt(c, r, k, j) => r[k].msgs[j].idx < rest[x]
    <3>1. Goes /\ rest[x] = dump[x + n] /\ x + n \in 2..Len(dump) /\ n \in Nat
      BY <1>12, <1>17, <2>4
    <3>2. ASSUME NEW k \in Nat, NEW j \in Nat, MineAt(c, r, k, j)
          PROVE  r[k].msgs[j].idx < rest[x]
      <4>1. CASE MineAt(c, q, k, j)
        BY <1>7, <1>9, <3>1, <4>1
      <4>2. CASE New(k, j)
        <5>1. d.msgs[j].idx = dump[j + 1] /\ r[k] = d /\ j + 1 \in 2..Len(dump)
          BY <1>5, <1>12, <3>1, <4>2
        <5>2. j + 1 < x + n
          BY <1>1, <3>1, <4>2
        <5> QED
          BY <1>11, <3>1, <5>1, <5>2
      <4> QED
        BY <1>5, <3>2, <4>1, <4>2
    <3> QED
      BY <1>10, <3>1, <3>2
  <2>5. ASSUME MyDump(c, rest), NEW k \in Nat, NEW j \in Nat, MineAt(c, r, k, j)
        PROVE  r[k].msgs[j].type # "done"
    <3>1. Goes
      BY <1>12, <1>17, <2>5
    <3>2. CASE MineAt(c, q, k, j)
      BY <1>5, <1>8, <3>2
    <3>3. CASE New(k, j)
      BY <1>5, <1>12, <3>1, <3>3
    <3> QED
      BY <1>5, <2>5, <3>2, <3>3
  <2> QED
    BY <2>1, <2>2, <2>3, <2>4, <2>5 DEF FlowOrdered
<1>15. FlowWhole(c, r, 0, rest)
  <2> SUFFICES ASSUME ~c.cut, NEW i \in Indexes
               PROVE  Seen(c, i) \/ InQueue(c, r, 0, i) \/ InDump(c, rest, i)
    BY DEF FlowWhole
  <2>1. Seen(c, i) \/ InQueue(c, q, 0, i) \/ InDump(c, dump, i)
    BY <1>6, <1>8 DEF FlowWhole
  <2>2. InQueue(c, q, 0, i) => InQueue(c, r, 0, i)
    BY <1>5, <1>7 DEF InQueue
  <2>3. ASSUME InDump(c, dump, i)
        PROVE  InQueue(c, r, 0, i) \/ InDump(c, rest, i)
    <3>1. PICK x \in 2..Len(dump) : dump[x] = i
      BY <2>3 DEF InDump
    <3>2. Goes
      BY <1>12, <1>17, <3>1
    <3>3. CASE x <= n + 1
      <4>1. x - 1 \in 1..n /\ (x - 1) + 1 = x /\ x - 1 \in Nat /\ Len(r) \in Nat
        <5>1. \A m, y \in Nat : \A l \in 2..m : l <= y + 1 => l - 1 \in 1..y /\ (l - 1) + 1 = l /\ l - 1 \in Nat
          OBVIOUS
        <5>2. n \in Nat /\ Len(dump) \in Nat /\ Len(r) \in Nat
          BY <1>1, <1>4
        <5> QED
          BY <3>1, <3>3, <5>1, <5>2
      <4>2. New(Len(r), x - 1)
        BY <4>1
      <4>3. MineAt(c, r, Len(r), x - 1) /\ Ahead(0, Len(r), x - 1) /\ r[Len(r)] = d
        BY <1>5, <4>1, <4>2
      <4>4. d.msgs[x - 1].type = "link" /\ d.msgs[x - 1].idx = i
        <5>1. d.msgs[x - 1].type = "link" /\ d.msgs[x - 1].idx = dump[(x - 1) + 1]
          BY <1>12, <3>2, <4>1
        <5> QED
          BY <3>1, <4>1, <5>1
      <4> QED
        BY <4>1, <4>3, <4>4 DEF InQueue
    <3>4. CASE ~(x <= n + 1)
      <4>1. x - n \in 2..Len(rest) /\ (x - n) + n = x
        BY <1>1, <1>4, <1>16, <3>1, <3>2, <3>4
      <4>2. rest[x - n] = i
        <5>1. rest[x - n] = dump[(x - n) + n]
          BY <1>12, <3>2, <4>1
        <5> QED
          BY <3>1, <4>1, <5>1
      <4> QED
        BY <1>4, <1>16, <3>2, <4>1, <4>2 DEF InDump
    <3> QED
      BY <3>3, <3>4
  <2> QED
    BY <2>1, <2>2, <2>3
<1> QED
  BY <1>13, <1>14, <1>15 DEF Flow

-----------------------------------------------------------------------------
(* The kernel and other processes.                                         *)

\* The parts of the socket.
LEMMA SockTyped ==
  ASSUME NetTyped
  PROVE  /\ sock \in Socks /\ sock.q \in Seq(Datagrams) /\ Len(sock.q) \in Nat /\ DOMAIN sock.q = 1..Len(sock.q)
         /\ \A k \in DOMAIN sock.q : sock.q[k] \in Datagrams /\ sock.q[k].msgs \in Seq(Msgs)
         /\ sock.before[1] \in Nat /\ sock.before[2] \in Nat /\ sock.dump \in Seq(Nat)
<1>1. sock \in Socks /\ sock.q \in Seq(Datagrams) /\ sock.before \in Nat \X Nat /\ sock.dump \in Seq(Nat)
  BY DEF NetTyped, Socks
<1>2. \A k \in DOMAIN sock.q : sock.q[k] \in Datagrams
  BY <1>1
<1> QED
  BY <1>1, <1>2 DEF Datagrams

\* Something happens outside; at most a datagram d that is no answer arrives.
LEMMA NoiseKept ==
  ASSUME NetlinkInv, call' = call, nlseq' = nlseq, events' = events + 1, links' \in [Indexes -> LinkNames],
         NEW d \in Datagrams, \A j \in DOMAIN d.msgs : ~(d.from = Kernel /\ d.msgs[j].pid = Me),
         sock' = sock \/ (sock.open /\ sock' = Deliver(sock, <<d>>))
  PROVE  NetlinkInv'
<1> USE DEF NetlinkInv
<1>1. NetTyped /\ sock.q \in Seq(Datagrams) /\ <<d>> \in Seq(Datagrams) /\ Len(sock.q) <= QLen /\ events \in Nat
  BY SockTyped DEF NetTyped
<1>2. /\ sock' \in Socks /\ Len(sock'.q) <= QLen /\ Grown(sock.q, sock'.q) /\ sock'.dump = sock.dump
      /\ sock'.open = sock.open /\ sock'.groups = sock.groups /\ sock'.sent = sock.sent /\ sock'.before = sock.before
      /\ \A k \in DOMAIN sock'.q \ DOMAIN sock.q : sock'.q[k] = d
  <2>1. CASE sock' = sock
    BY <1>1, <2>1, SockTyped DEF Grown
  <2>2. CASE sock' = Deliver(sock, <<d>>)
    <3>1. /\ sock' \in Socks /\ Len(sock'.q) <= QLen /\ Grown(sock.q, sock'.q) /\ sock'.dump = sock.dump
          /\ sock'.open = sock.open /\ sock'.groups = sock.groups /\ sock'.sent = sock.sent
          /\ sock'.before = sock.before
          /\ \A k \in DOMAIN sock'.q \ DOMAIN sock.q :
               k - Len(sock.q) \in DOMAIN <<d>> /\ sock'.q[k] = <<d>>[k - Len(sock.q)]
      BY <1>1, <2>2, SockTyped, Delivered
    <3>2. \A k \in DOMAIN sock'.q \ DOMAIN sock.q : sock'.q[k] = d
      BY <3>1
    <3> QED
      BY <3>1, <3>2
  <2> QED
    BY <2>1, <2>2
<1>3. \A k \in DOMAIN sock.q : sock'.q[k] = sock.q[k]
  BY <1>2 DEF Grown
<1>4. NetTyped'
  <2>1. ~sock'.open => sock' = NoSock /\ call \notin Calls
    BY <1>1, <1>2 DEF NetTyped
  <2> QED
    BY <1>1, <1>2, <2>1 DEF NetTyped
<1>5. NumbersOK'
  <2>1. ASSUME NEW k \in DOMAIN sock'.q, NEW j \in DOMAIN sock'.q[k].msgs,
               sock'.q[k].from = Kernel, sock'.q[k].msgs[j].pid = Me
        PROVE  sock'.q[k].msgs[j].seq <= nlseq
    <3>1. k \in DOMAIN sock.q
      BY <1>2, <2>1
    <3> QED
      BY <1>3, <2>1, <3>1 DEF NumbersOK
  <2> QED
    BY <1>2, <2>1 DEF NumbersOK, DumpOK
<1>6. events' # sock'.before[2]
  <2>1. sock.open => sock.before[2] <= events
    BY DEF BeforeOK
  <2>2. ~sock.open => sock.before[2] = 0
    BY <1>1 DEF NetTyped, NoSock
  <2> QED
    BY <1>1, <1>2, <2>1, <2>2, SockTyped
<1>7. SameView(call, sock.q, sock'.q)
  <2>1. \A k \in DOMAIN sock'.q \ DOMAIN sock.q :
          \A j \in DOMAIN sock'.q[k].msgs : ~Mine(call, sock'.q[k].from, sock'.q[k].msgs[j])
    BY <1>2 DEF Mine
  <2>2. sock'.q \in Seq(Datagrams)
    BY <1>2 DEF Socks
  <2> QED
    BY <1>1, <1>2, <2>1, <2>2, NotMine
<1>8. CallInv' /\ AnswerComes'
  <2>1. sock'.q \in Seq(Datagrams)
    BY <1>2 DEF Socks
  <2> QED
    BY <1>1, <1>2, <1>6, <1>7, <2>1, CallKept
<1>9. FreshSocket' /\ BeforeOK'
  BY <1>1, <1>2, <1>6, SockTyped DEF FreshSocket, BeforeOK
<1> QED
  BY <1>4, <1>5, <1>8, <1>9

\* A rename and its notice.
LEMMA RenameKept ==
  ASSUME NetlinkInv, NEW i \in Indexes, NEW name \in LinkNames, KernelRenames(i, name)
  PROVE  NetlinkInv'
<1> DEFINE m == [Link(i, nlseq, Other) EXCEPT !.name = name]
           d == Datagram(Kernel, <<m>>)
<1>1. links \in [Indexes -> LinkNames] /\ nlseq \in Nat
  BY DEF NetlinkInv, NetTyped
<1>2. m \in Msgs /\ m.pid = Other
  <2>1. Link(i, nlseq, Other) \in LinkMsgs /\ Link(i, nlseq, Other).pid = Other
    BY <1>1, LinkTyped
  <2>2. m \in LinkMsgs /\ m.pid = Other
    BY <2>1 DEF LinkMsgs
  <2> QED
    BY <2>2, MessageTypes
<1> HIDE DEF m
<1>3. d \in Datagrams /\ d.msgs = <<m>>
  BY <1>2, OneMessage
<1>4. \A j \in DOMAIN d.msgs : ~(d.from = Kernel /\ d.msgs[j].pid = Me)
  BY <1>2, <1>3 DEF Me, Other
<1>5. /\ call' = call /\ nlseq' = nlseq /\ events' = events + 1 /\ links' = [links EXCEPT ![i] = name]
      /\ sock' = sock \/ (sock.open /\ sock' = Deliver(sock, <<d>>))
  BY DEF KernelRenames, m
<1>6. links' \in [Indexes -> LinkNames]
  BY <1>1, <1>5
<1> HIDE DEF d
<1> QED
  BY <1>3, <1>4, <1>5, <1>6, NoiseKept

\* A notice without a name.
LEMMA NoticeKept ==
  ASSUME NetlinkInv, NEW i \in Indexes, KernelNotices(i)
  PROVE  NetlinkInv'
<1> DEFINE m == [Link(i, 0, Kernel) EXCEPT !.name = NoName]
           d == Datagram(Kernel, <<m>>)
<1>1. links \in [Indexes -> LinkNames]
  BY DEF NetlinkInv, NetTyped
<1>2. m \in Msgs /\ m.pid = Kernel
  <2>1. Link(i, 0, Kernel) \in LinkMsgs /\ Link(i, 0, Kernel).pid = Kernel
    BY <1>1, LinkTyped
  <2>2. m \in LinkMsgs /\ m.pid = Kernel
    BY <2>1 DEF LinkMsgs
  <2> QED
    BY <2>2, MessageTypes
<1> HIDE DEF m
<1>3. d \in Datagrams /\ d.msgs = <<m>>
  BY <1>2, OneMessage
<1>4. \A j \in DOMAIN d.msgs : ~(d.from = Kernel /\ d.msgs[j].pid = Me)
  BY <1>2, <1>3 DEF Me, Kernel
<1>5. /\ call' = call /\ nlseq' = nlseq /\ events' = events + 1 /\ links' = links
      /\ sock.open /\ sock' = Deliver(sock, <<d>>)
  BY DEF KernelNotices, m
<1> HIDE DEF d
<1> QED
  BY <1>1, <1>3, <1>4, <1>5, NoiseKept

\* A datagram of another process.
LEMMA ForeignKept ==
  ASSUME NetlinkInv, NEW type \in {"done", "ack"}, ForeignArrives(type)
  PROVE  NetlinkInv'
<1> DEFINE m == Control(type, nlseq)
           d == Datagram(Other, <<m>>)
<1>1. links \in [Indexes -> LinkNames] /\ nlseq \in Nat
  BY DEF NetlinkInv, NetTyped
<1>2. m \in Msgs
  BY <1>1, ControlTyped
<1> HIDE DEF m
<1>3. d \in Datagrams /\ d.from = Other
  BY <1>2, OneMessage
<1>4. \A j \in DOMAIN d.msgs : ~(d.from = Kernel /\ d.msgs[j].pid = Me)
  BY <1>3 DEF Other, Kernel
<1>5. /\ call' = call /\ nlseq' = nlseq /\ events' = events + 1 /\ links' = links
      /\ sock.open /\ sock' = Deliver(sock, <<d>>)
  BY DEF ForeignArrives, m
<1> HIDE DEF d
<1> QED
  BY <1>1, <1>3, <1>4, <1>5, NoiseKept

\* The queue, the dump and the other fields after a part or the end of a dump.
LEMMA DumpSteps ==
  ASSUME NetTyped, NumbersOK, KernelDumps
  PROVE  /\ sock' \in Socks /\ Len(sock'.q) <= QLen /\ Grown(sock.q, sock'.q) /\ Len(sock'.q) = Len(sock.q) + 1
         /\ sock'.open = sock.open /\ sock'.groups = sock.groups /\ sock'.sent = sock.sent
         /\ sock'.before = sock.before
         /\ LET d == sock'.q[Len(sock'.q)]
                n == Len(d.msgs)
            IN  /\ d.from = Kernel /\ \A j \in 1..n : d.msgs[j].pid = Me /\ d.msgs[j].seq = sock.dump[1]
                /\ \/ /\ Len(sock.dump) = 1 /\ n = 1 /\ d.msgs[1].type = "done" /\ d.msgs[1].idx = 0
                      /\ sock'.dump = << >>
                   \/ /\ n \in 1..(Len(sock.dump) - 1) /\ Len(sock'.dump) = Len(sock.dump) - n
                      /\ sock'.dump # << >> /\ sock'.dump[1] = sock.dump[1]
                      /\ \A j \in 1..n : d.msgs[j].type = "link" /\ d.msgs[j].idx = sock.dump[j + 1]
                      /\ \A x \in 2..Len(sock'.dump) : sock'.dump[x] = sock.dump[x + n]
<1> DEFINE dump == sock.dump
           seq == dump[1]
           left == Tail(dump)
<1>1. /\ sock \in Socks /\ Len(sock.q) <= QLen /\ Len(sock.q) \in Nat /\ dump \in Seq(Nat) /\ dump # << >>
      /\ links \in [Indexes -> LinkNames] /\ Fits(sock, 1)
  BY SockTyped DEF KernelDumps, NetTyped
<1>2. /\ Len(dump) \in Nat \ {0} /\ seq \in Nat /\ left \in Seq(Nat) /\ Len(left) = Len(dump) - 1
      /\ \A x \in 1..Len(left) : left[x] = dump[x + 1] /\ left[x] \in Indexes
  <2>1. Len(dump) \in Nat \ {0} /\ seq \in Nat /\ left \in Seq(Nat) /\ Len(left) = Len(dump) - 1
        /\ \A x \in 1..Len(left) : left[x] = dump[x + 1]
    BY <1>1
  <2>2. \A x \in 2..Len(dump) : dump[x] \in Indexes
    BY <1>1 DEF NumbersOK, DumpOK
  <2>3. ASSUME NEW x \in 1..Len(left)
        PROVE  left[x] \in Indexes
    <3>1. x + 1 \in 2..Len(dump)
      BY <2>1
    <3> QED
      BY <2>1, <2>2, <3>1
  <2> QED
    BY <2>1, <2>3
<1> DEFINE Follows(d, rest) ==
             /\ d \in Datagrams /\ d.from = Kernel
             /\ \A j \in 1..Len(d.msgs) : d.msgs[j].pid = Me /\ d.msgs[j].seq = seq
             /\ rest \in Seq(Nat)
             /\ \/ /\ Len(dump) = 1 /\ Len(d.msgs) = 1 /\ d.msgs[1].type = "done" /\ d.msgs[1].idx = 0
                   /\ rest = << >>
                \/ /\ Len(d.msgs) \in 1..(Len(dump) - 1) /\ Len(rest) = Len(dump) - Len(d.msgs)
                   /\ rest # << >> /\ rest[1] = seq
                   /\ \A j \in 1..Len(d.msgs) : d.msgs[j].type = "link" /\ d.msgs[j].idx = dump[j + 1]
                   /\ \A x \in 2..Len(rest) : rest[x] = dump[x + Len(d.msgs)]
<1>3. \E d, rest : Follows(d, rest) /\ sock' = [Deliver(sock, <<d>>) EXCEPT !.dump = rest]
  <2>1. CASE left = << >>
    <3> DEFINE d == Datagram(Kernel, <<Control("done", seq)>>)
    <3>1. sock' = [Deliver(sock, <<d>>) EXCEPT !.dump = << >>]
      BY <2>1 DEF KernelDumps
    <3>2. Control("done", seq) \in Msgs /\ Control("done", seq).pid = Me /\ Control("done", seq).seq = seq
          /\ Control("done", seq).type = "done" /\ Control("done", seq).idx = 0
      BY <1>2, ControlTyped DEF Control
    <3>3. d \in Datagrams /\ d.from = Kernel /\ d.msgs = <<Control("done", seq)>>
      BY <3>2, OneMessage
    <3>4. Len(dump) = 1
      <4> HIDE DEF left, dump
      <4>1. Len(left) = 0
        BY <2>1
      <4> QED
        BY <1>2, <4>1
    <3> HIDE DEF dump, d
    <3>5. Follows(d, << >>)
      BY <3>2, <3>3, <3>4
    <3> QED
      BY <3>1, <3>5
  <2>2. CASE left # << >>
    <3>1. PICK n \in 1..PartMsgs :
            /\ n <= Len(left)
            /\ sock' = [Deliver(sock, <<Datagram(Kernel, [k \in 1..n |-> Link(left[k], seq, Me)])>>)
                          EXCEPT !.dump = <<seq>> \o SubSeq(left, n + 1, Len(left))]
      BY <2>2 DEF KernelDumps
    <3> DEFINE d == Datagram(Kernel, [k \in 1..n |-> Link(left[k], seq, Me)])
               more == SubSeq(left, n + 1, Len(left))
               rest == <<seq>> \o more
    <3>2. n \in Nat /\ n >= 1
      BY SizesAssumption
    <3> HIDE DEF left, seq
    <3>3. \A k \in 1..n : /\ Link(left[k], seq, Me) \in Msgs /\ Link(left[k], seq, Me).pid = Me
                          /\ Link(left[k], seq, Me).seq = seq /\ Link(left[k], seq, Me).type = "link"
                          /\ Link(left[k], seq, Me).idx = left[k]
      <4>1. \A k \in 1..n : left[k] \in Indexes
        BY <1>2, <3>1, <3>2
      <4> QED
        BY <1>1, <1>2, <4>1, LinkTyped
    <3>4. d.from = Kernel /\ d.msgs = [k \in 1..n |-> Link(left[k], seq, Me)]
      BY DEF Datagram
    <3>5. d.msgs \in Seq(Msgs) /\ Len(d.msgs) = n /\ \A k \in 1..n : d.msgs[k] = Link(left[k], seq, Me)
      BY <3>2, <3>3, <3>4
    <3>6. d \in Datagrams
      <4>1. d = [from |-> Kernel, msgs |-> d.msgs]
        BY DEF Datagram
      <4> HIDE DEF d
      <4>2. d.msgs # << >>
        BY <3>2, <3>5
      <4> QED
        BY <3>5, <4>1, <4>2 DEF Datagrams
    <3>7. more \in Seq(Nat) /\ Len(more) = Len(left) - n /\ \A x \in 1..Len(more) : more[x] = left[x + n]
      <4>1. left \in Seq(Nat) /\ Len(left) \in Nat /\ n <= Len(left)
        BY <1>2, <3>1
      <4>2. n + 1 \in 1..(Len(left) + 1) /\ Len(left) \in n..Len(left)
        BY <3>2, <4>1
      <4>3. more \in Seq(Nat) /\ Len(more) = Len(left) - n
        BY <4>1, <4>2, SubSeqProperties
      <4>4. ASSUME NEW x \in 1..Len(more)
            PROVE  more[x] = left[x + n]
        <5>1. more[x] = left[(n + 1) + x - 1] /\ (n + 1) + x - 1 = x + n
          BY <3>2, <4>1, <4>3
        <5> QED
          BY <5>1
      <4> QED
        BY <4>3, <4>4
    <3> HIDE DEF more
    <3>8. /\ rest \in Seq(Nat) /\ Len(rest) = Len(more) + 1 /\ rest[1] = seq
          /\ \A x \in 2..Len(rest) : rest[x] = more[x - 1]
      BY <1>2, <3>7
    <3> HIDE DEF d, rest
    <3>9. Len(rest) = Len(dump) - n /\ rest # << >> /\ n \in 1..(Len(dump) - 1)
      <4>1. Len(left) = Len(dump) - 1 /\ Len(dump) \in Nat /\ Len(more) = Len(left) - n /\ n <= Len(left)
        BY <1>2, <3>1, <3>7
      <4>2. Len(rest) = Len(more) + 1 /\ rest \in Seq(Nat)
        BY <3>8
      <4> HIDE DEF dump
      <4>3. Len(rest) = Len(dump) - n /\ n \in 1..(Len(dump) - 1) /\ Len(rest) > 0
        BY <3>2, <4>1, <4>2
      <4>4. rest # << >>
        BY <4>2, <4>3
      <4> QED
        BY <4>3, <4>4
    <3>10. ASSUME NEW x \in 2..Len(rest)
           PROVE  rest[x] = dump[x + n]
      <4>1. x - 1 \in 1..Len(more) /\ (x - 1) + n \in 1..Len(left) /\ ((x - 1) + n) + 1 = x + n
        <5>1. Len(rest) = Len(left) - n + 1 /\ Len(left) \in Nat /\ Len(more) = Len(left) - n /\ n <= Len(left)
          BY <1>2, <3>1, <3>7, <3>8
        <5>2. x \in Nat /\ 2 <= x /\ x <= Len(rest)
          BY <5>1, <3>2
        <5> QED
          BY <3>2, <5>1, <5>2
      <4>2. rest[x] = more[x - 1] /\ more[x - 1] = left[(x - 1) + n]
            /\ left[(x - 1) + n] = dump[((x - 1) + n) + 1]
        BY <1>2, <3>7, <3>8, <4>1
      <4> QED
        BY <4>1, <4>2
    <3>11. ASSUME NEW j \in 1..n
           PROVE  d.msgs[j].type = "link" /\ d.msgs[j].idx = dump[j + 1] /\ d.msgs[j].pid = Me /\ d.msgs[j].seq = seq
      <4>1. j \in 1..Len(left)
        BY <1>2, <3>1, <3>2
      <4> QED
        BY <1>2, <3>3, <3>5, <4>1
    <3> HIDE DEF dump
    <3>12. Follows(d, rest)
      BY <3>4, <3>5, <3>6, <3>8, <3>9, <3>10, <3>11
    <3>13. sock' = [Deliver(sock, <<d>>) EXCEPT !.dump = rest]
      BY <3>1 DEF d, rest, more
    <3> QED
      BY <3>12, <3>13
  <2> QED
    BY <2>1, <2>2
<1>4. PICK d, rest : Follows(d, rest) /\ sock' = [Deliver(sock, <<d>>) EXCEPT !.dump = rest]
  BY <1>3
<1> DEFINE t == Deliver(sock, <<d>>)
<1>5. d \in Datagrams /\ rest \in Seq(Nat) /\ <<d>> \in Seq(Datagrams) /\ Len(<<d>>) = 1 /\ <<d>>[1] = d
  BY <1>4
<1> HIDE DEF Follows
<1>6. /\ t \in Socks /\ Len(t.q) <= QLen /\ Grown(sock.q, t.q)
      /\ t.open = sock.open /\ t.groups = sock.groups /\ t.sent = sock.sent /\ t.before = sock.before
      /\ \A k \in DOMAIN t.q \ DOMAIN sock.q : k - Len(sock.q) \in DOMAIN <<d>> /\ t.q[k] = <<d>>[k - Len(sock.q)]
      /\ Len(t.q) = Len(sock.q) + 1
  BY <1>1, <1>5, Delivered
<1>7. t.q[Len(t.q)] = d
  <2>1. Len(t.q) \in DOMAIN t.q \ DOMAIN sock.q /\ Len(t.q) - Len(sock.q) = 1
    <3>1. t.q \in Seq(Datagrams) /\ sock.q \in Seq(Datagrams)
      BY <1>1, <1>6 DEF Socks
    <3> QED
      BY <1>1, <1>6, <3>1
  <2>2. t.q[Len(t.q)] = <<d>>[Len(t.q) - Len(sock.q)]
    BY <1>6, <2>1
  <2> QED
    BY <1>5, <2>1, <2>2
<1>8. sock' = [t EXCEPT !.dump = rest]
  BY <1>4
<1> HIDE DEF t
<1>9. /\ sock' \in Socks /\ sock'.q = t.q /\ sock'.dump = rest
      /\ sock'.open = t.open /\ sock'.groups = t.groups /\ sock'.sent = t.sent /\ sock'.before = t.before
  BY <1>5, <1>6, <1>8 DEF Socks
<1>10. Follows(d, rest)
  BY <1>4
<1>11. sock'.q[Len(sock'.q)] = d
  BY <1>7, <1>9
<1> QED
  BY <1>6, <1>9, <1>10, <1>11 DEF Follows

\* The kernel sends a part of the dump under way.
LEMMA DumpKept ==
  ASSUME NetlinkInv, KernelDumps
  PROVE  NetlinkInv'
<1> DEFINE q == sock.q
           r == sock'.q
           dump == sock.dump
           rest == sock'.dump
           d == r[Len(r)]
           n == Len(d.msgs)
           Stops == Len(dump) = 1 /\ n = 1 /\ d.msgs[1].type = "done" /\ d.msgs[1].idx = 0 /\ rest = << >>
           Goes == /\ n \in 1..(Len(dump) - 1) /\ Len(rest) = Len(dump) - n /\ rest # << >> /\ rest[1] = dump[1]
                   /\ \A j \in 1..n : d.msgs[j].type = "link" /\ d.msgs[j].idx = dump[j + 1]
                   /\ \A x \in 2..Len(rest) : rest[x] = dump[x + n]
<1>1. NetTyped /\ NumbersOK /\ CallInv /\ AnswerComes /\ FreshSocket /\ BeforeOK
  BY DEF NetlinkInv
<1>2. /\ call' = call /\ nlseq' = nlseq /\ events' = events /\ links' = links /\ dump # << >>
  BY DEF KernelDumps
<1>3. /\ sock' \in Socks /\ Len(r) <= QLen /\ Grown(q, r) /\ Len(r) = Len(q) + 1
      /\ sock'.open = sock.open /\ sock'.groups = sock.groups /\ sock'.sent = sock.sent
      /\ sock'.before = sock.before
      /\ d.from = Kernel
      /\ \A j \in 1..n : d.msgs[j].pid = Me /\ d.msgs[j].seq = dump[1]
      /\ Stops \/ Goes
  BY <1>1, DumpSteps
<1>4. /\ q \in Seq(Datagrams) /\ r \in Seq(Datagrams) /\ Len(q) \in Nat /\ DOMAIN q = 1..Len(q)
      /\ DOMAIN r = 1..Len(r) /\ dump \in Seq(Nat) /\ rest \in Seq(Nat) /\ Len(dump) \in Nat
  <2>1. /\ q \in Seq(Datagrams) /\ dump \in Seq(Nat)
    BY <1>1, SockTyped
  <2>2. /\ r \in Seq(Datagrams) /\ rest \in Seq(Nat)
    BY <1>3 DEF Socks
  <2> HIDE DEF q, r, dump, rest
  <2> QED
    BY <2>1, <2>2
<1> HIDE DEF q, r, dump, rest
<1>5. /\ \A k \in DOMAIN q : r[k] = q[k]
      /\ \A k \in DOMAIN r \ DOMAIN q : k = Len(r)
  <2>1. \A k \in DOMAIN q : r[k] = q[k]
    BY <1>3 DEF Grown
  <2>2. Len(r) = Len(q) + 1 /\ DOMAIN r = 1..Len(r) /\ DOMAIN q = 1..Len(q) /\ Len(q) \in Nat
    BY <1>3, <1>4
  <2>3. \A k \in 1..Len(r) : k \notin 1..Len(q) => k = Len(r)
    BY <2>2
  <2> QED
    BY <2>1, <2>2, <2>3
<1>6. d \in Datagrams /\ d.msgs \in Seq(Msgs) /\ n \in Nat /\ DOMAIN d.msgs = 1..n
  <2>1. d \in Datagrams
    <3>1. Len(r) \in 1..Len(r)
      BY <1>3, <1>4
    <3> QED
      BY <1>4, <3>1
  <2> HIDE DEF d
  <2> QED
    BY <2>1 DEF Datagrams
<1>7. dump[1] \in Nat /\ dump[1] <= nlseq /\ DumpOK(dump)
  BY <1>1, <1>2 DEF NumbersOK, DumpOK, dump
<1> HIDE DEF d, n
<1>8. NetTyped'
  <2>1. ~sock'.open => sock' = NoSock /\ call \notin Calls
    <3>1. sock.open
      BY <1>1, <1>2 DEF NetTyped, NoSock, dump
    <3> QED
      BY <1>3, <3>1
  <2> QED
    BY <1>1, <1>2, <1>3, <2>1 DEF NetTyped, r
<1>9. NumbersOK'
  <2>1. ASSUME NEW k \in DOMAIN r, NEW j \in DOMAIN r[k].msgs, r[k].from = Kernel, r[k].msgs[j].pid = Me
        PROVE  r[k].msgs[j].seq <= nlseq
    <3>1. CASE k \in DOMAIN q
      BY <1>1, <1>5, <2>1, <3>1 DEF NumbersOK, q
    <3>2. CASE k \notin DOMAIN q
      <4>1. r[k] = d
        BY <1>5, <3>2 DEF d
      <4> QED
        BY <1>3, <1>6, <1>7, <2>1, <4>1
    <3> QED
      BY <3>1, <3>2
  <2>2. DumpOK(rest)
    <3> SUFFICES ASSUME rest # << >>
                 PROVE  DumpOK(rest)
      BY DEF DumpOK
    <3>1. Goes
      BY <1>3
    <3>2. n \in Nat /\ rest[1] = dump[1] /\ Len(rest) = Len(dump) - n
          /\ \A x \in 2..Len(rest) : rest[x] = dump[x + n] /\ x + n \in 2..Len(dump)
      <4>1. n \in Nat /\ rest[1] = dump[1] /\ Len(rest) = Len(dump) - n
            /\ \A x \in 2..Len(rest) : rest[x] = dump[x + n]
        BY <1>6, <3>1
      <4>2. \A x \in 2..Len(rest) : x + n \in 2..Len(dump)
        BY <1>4, <4>1
      <4> QED
        BY <4>1, <4>2
    <3>3. /\ \A x \in 2..Len(dump) : dump[x] \in Indexes
          /\ \A x, y \in 2..Len(dump) : x < y => dump[x] < dump[y]
      BY <1>2, <1>7 DEF DumpOK
    <3>4. ASSUME NEW x \in 2..Len(rest), NEW y \in 2..Len(rest), x < y
          PROVE  rest[x] < rest[y]
      <4>1. x + n < y + n
        BY <1>4, <3>2, <3>4
      <4> QED
        BY <3>2, <3>3, <4>1
    <3> QED
      BY <1>7, <3>2, <3>3, <3>4 DEF DumpOK
  <2> QED
    BY <1>1, <1>2, <2>1, <2>2 DEF NumbersOK, DumpOK, r, rest
<1>10. FreshSocket' /\ BeforeOK'
  <2>1. FreshSocket'
    BY <1>1, <1>2, <1>3 DEF FreshSocket, dump
  <2>2. BeforeOK'
    BY <1>1, <1>2, <1>3 DEF BeforeOK
  <2> QED
    BY <2>1, <2>2
<1>11. CallInv' /\ AnswerComes'
  <2>1. CASE ~(call \in Calls /\ MyDump(call, dump))
    <3>1. call \in Calls => ~MyDump(call, rest)
      BY <1>2, <1>3, <2>1 DEF MyDump
    <3>2. call \in Calls => SameView(call, q, r)
      <4> SUFFICES ASSUME call \in Calls
                   PROVE  SameView(call, q, r)
        OBVIOUS
      <4>1. call.seq # dump[1]
        BY <1>2, <2>1 DEF MyDump
      <4>2. \A k \in DOMAIN r \ DOMAIN q : \A j \in DOMAIN r[k].msgs : ~Mine(call, r[k].from, r[k].msgs[j])
        BY <1>3, <1>5, <1>6, <4>1 DEF Mine, d
      <4> QED
        BY <1>3, <1>4, <4>2, NotMine
    <3>3. ~(call.op = "readSock" /\ call.ret = "wait" /\ events' = sock'.before[2])
      <4> SUFFICES ASSUME call.op = "readSock", call.ret = "wait", events' = sock'.before[2]
                   PROVE  FALSE
        OBVIOUS
      <4>1. events = sock.before[2]
        BY <1>2, <1>3
      <4>2. MyDump(call, dump)
        BY <1>1, <1>2, <4>1 DEF CallInv, ReadInv, dump
      <4>3. call \in Calls
        BY <1>1 DEF NetTyped, ShortCalls
      <4> QED
        BY <2>1, <4>2, <4>3
    <3>4. events' = sock'.before[2] => events = sock.before[2]
      BY <1>2, <1>3
    <3>5. links' \in [Indexes -> LinkNames]
      BY <1>1, <1>2 DEF NetTyped
    <3>6. call \in Calls => ~MyDump(call, sock.dump) /\ ~MyDump(call, sock'.dump)
      BY <2>1, <3>1 DEF dump, rest
    <3>7. sock'.q \in Seq(Datagrams) /\ Grown(sock.q, sock'.q)
      BY <1>3, <1>4 DEF q, r
    <3>8. call \in Calls => SameView(call, sock.q, sock'.q)
      BY <3>2 DEF q, r
    <3> QED
      BY <1>1, <1>2, <3>3, <3>4, <3>5, <3>6, <3>7, <3>8, CallKept
  <2>2. CASE call \in Calls /\ MyDump(call, dump)
    <3>1. \A j \in 1..n : Mine(call, d.from, d.msgs[j])
      BY <1>3, <2>2 DEF Mine, MyDump
    <3>2. DumpGoesOn(call, q, r, dump, rest)
      BY <1>3, <2>2, <3>1 DEF DumpGoesOn, d, n
    <3>3. Flow(call, q, 0, dump) => Flow(call, r, 0, rest)
      BY <1>4, <1>7, <2>2, <3>2, FlowGoesOn
    <3>4. AnswersBelong'
      BY <1>1, <1>2, <1>3, BelongKept DEF CallInv, NetTyped
    <3>5. TalkInv(call, r, rest)
      <4>1. ~(call.op \in Talks /\ call.ret = "wait")
        BY <1>1, <2>2 DEF CallInv, TalkInv, dump
      <4>2. call.op \in Talks => (call.answer => call.op = "get")
        BY <1>1 DEF CallInv, TalkInv
      <4> QED
        BY <4>1, <4>2 DEF TalkInv
    <3>6. DumpInv(call, r, rest)
      BY <1>1, <3>3 DEF CallInv, DumpInv, q, dump
    <3>7. ReadInv(call, sock', events')
      <4> SUFFICES ASSUME call.op = "readSock", call.ret = "wait", events = sock.before[2]
                   PROVE  /\ Flow(call, r, 0, rest) /\ OwnOnly(call, r) /\ ~sock'.groups /\ call.verdict = "ack"
                          /\ rest # << >> => MyDump(call, rest)
        BY <1>2, <1>3 DEF ReadInv, r, rest
      <4>1. /\ Flow(call, q, 0, dump) /\ OwnOnly(call, q) /\ ~sock.groups /\ call.verdict = "ack"
        BY <1>1 DEF CallInv, ReadInv, q, dump
      <4>2. rest # << >> => MyDump(call, rest)
        BY <1>3, <2>2 DEF MyDump
      <4>3. OwnOnly(call, r)
        <5> SUFFICES ASSUME NEW k \in DOMAIN r
                     PROVE  /\ \A j \in DOMAIN r[k].msgs : MineAt(call, r, k, j)
                            /\ r[k].msgs[1].type = "link" => \A j \in DOMAIN r[k].msgs : r[k].msgs[j].type = "link"
                            /\ r[k].msgs[1].type # "link" => Len(r[k].msgs) = 1
          BY DEF OwnOnly
        <5>1. CASE k \in DOMAIN q
          <6>1. r[k] = q[k]
            BY <1>5, <5>1
          <6> QED
            BY <4>1, <5>1, <6>1, Zenon DEF OwnOnly, MineAt
        <5>2. CASE k \notin DOMAIN q
          <6>1. r[k] = d
            BY <1>5, <5>2 DEF d
          <6>2. \A j \in DOMAIN d.msgs : MineAt(call, r, k, j)
            BY <1>6, <3>1, <6>1 DEF MineAt
          <6>3. /\ d.msgs[1].type = "link" => \A j \in DOMAIN d.msgs : d.msgs[j].type = "link"
                /\ d.msgs[1].type # "link" => Len(d.msgs) = 1
            <7>1. CASE Stops
              BY <7>1 DEF n
            <7>2. CASE Goes
              <8>1. 1 \in 1..n
                BY <1>6, <7>2
              <8> QED
                BY <1>6, <7>2, <8>1
            <7> QED
              BY <1>3, <7>1, <7>2
          <6> QED
            BY <6>1, <6>2, <6>3
        <5> QED
          BY <5>1, <5>2
      <4> QED
        BY <1>3, <3>3, <4>1, <4>2, <4>3
    <3>8. Waits(call) => Coming(call, r, rest)
      <4> SUFFICES ASSUME Waits(call)
                   PROVE  Coming(call, r, rest)
        OBVIOUS
      <4>3. call.op \notin Talks
        BY <1>1, <2>2 DEF CallInv, TalkInv, dump, Waits
      <4>1. CASE rest # << >>
        <5>1. MyDump(call, rest)
          BY <1>3, <2>2, <4>1 DEF MyDump
        <5> QED
          BY <4>3, <5>1 DEF Coming
      <4>2. CASE rest = << >>
        <5>1. n = 1 /\ d.msgs[1].type = "done"
          BY <1>3, <4>2
        <5>2. Len(r) \in DOMAIN r
          BY <1>3, <1>4
        <5>3. MineAt(call, r, Len(r), 1)
          BY <1>6, <3>1, <5>1, <5>2 DEF MineAt, d
        <5>4. Len(r[Len(r)].msgs) = 1 /\ Final(call, r[Len(r)].msgs[1])
          BY <4>3, <5>1 DEF d, n, Final
        <5> QED
          BY <5>2, <5>3, <5>4 DEF Coming, AnswerQueued
      <4> QED
        BY <4>1, <4>2
    <3> QED
      BY <1>2, <3>4, <3>5, <3>6, <3>7, <3>8 DEF CallInv, AnswerComes, r, rest
  <2> QED
    BY <2>1, <2>2
<1> QED
  BY <1>8, <1>9, <1>10, <1>11 DEF NetlinkInv

-----------------------------------------------------------------------------
(* Opening, closing and requests.                                          *)

\* Nothing is claimed of a call that is over before it waits.
LEMMA ShortKept ==
  ASSUME call' \in ShortCalls
  PROVE  CallInv' /\ AnswerComes'
<1>1. call'.op \notin Talks /\ call'.op \notin Dumps /\ call'.op # "readSock"
  BY DEF ShortCalls, Talks, Dumps
<1>2. AnswersBelong'
  BY <1>1 DEF AnswersBelong, Talks, Dumps
<1> QED
  BY <1>1, <1>2 DEF CallInv, TalkInv, DumpInv, ReadInv, AnswerComes, Waits

\* Such a call is none that waits.
LEMMA ShortApart == ShortCalls \cap Calls = {}
BY DEF ShortCalls, Calls, Talks, Dumps

\* A socket is opened.
LEMMA OpenKept ==
  ASSUME NetlinkInv, NEW groups \in BOOLEAN, rtnl_open(groups)
  PROVE  NetlinkInv'
<1>1. NetTyped
  BY DEF NetlinkInv
<1>2. /\ sock' = [NoSock EXCEPT !.open = TRUE, !.groups = groups, !.before = <<nlseq, events>>]
      /\ links' = links /\ nlseq' = nlseq /\ events' = events
      /\ call' \in ShortCalls
  BY DEF rtnl_open, ShortCalls
<1>3. sock' = [q |-> << >>, overrun |-> FALSE, groups |-> groups, dump |-> << >>, open |-> TRUE,
               sent |-> FALSE, before |-> <<nlseq, events>>]
  BY <1>2 DEF NoSock
<1>4. sock' \in Socks /\ Len(sock'.q) <= QLen
  BY <1>1, <1>3, SizesAssumption DEF Socks, NetTyped
<1>5. NetTyped'
  BY <1>1, <1>2, <1>3, <1>4 DEF NetTyped
<1>6. NumbersOK' /\ FreshSocket' /\ BeforeOK'
  <2>1. call' \notin Calls
    BY <1>2, ShortApart
  <2>2. nlseq <= nlseq /\ events <= events
    BY <1>1 DEF NetTyped
  <2>3. sock'.q = << >> /\ sock'.dump = << >> /\ sock'.before[1] = nlseq /\ sock'.before[2] = events
    BY <1>3
  <2>4. NumbersOK'
    BY <1>2, <2>1, <2>3 DEF NumbersOK, DumpOK
  <2>5. FreshSocket' /\ BeforeOK'
    BY <1>2, <2>2, <2>3 DEF FreshSocket, BeforeOK
  <2> QED
    BY <2>4, <2>5
<1> QED
  BY <1>2, <1>5, <1>6, ShortKept DEF NetlinkInv

\* The socket is closed.
LEMMA CloseKept ==
  ASSUME NetlinkInv, rtnl_close
  PROVE  NetlinkInv'
<1>1. NetTyped
  BY DEF NetlinkInv
<1>2. sock' = NoSock /\ call' = NoCall /\ links' = links /\ nlseq' = nlseq /\ events' = events
  BY DEF rtnl_close
<1>3. call' \in ShortCalls /\ call' \notin Calls
  BY <1>2, ShortApart DEF NoCall, ShortCalls
<1>4. NoSock \in Socks /\ Len(NoSock.q) <= QLen
  BY SizesAssumption DEF Socks, NoSock
<1>5. NetTyped'
  BY <1>1, <1>2, <1>3, <1>4 DEF NetTyped
<1>6. NumbersOK' /\ FreshSocket' /\ BeforeOK'
  BY <1>2, <1>3 DEF NumbersOK, DumpOK, FreshSocket, BeforeOK, NoSock
<1> QED
  BY <1>3, <1>5, <1>6, ShortKept DEF NetlinkInv

NumberedUpTo(r, q, n) ==
  \A k \in DOMAIN r \ DOMAIN q : \A j \in DOMAIN r[k].msgs : r[k].msgs[j].seq <= n

\* All but what is said of the call, when the program asks something.
LEMMA RequestFrame ==
  ASSUME NetlinkInv, links' = links, events' = events, nlseq' \in Nat, nlseq <= nlseq', sock.open,
         sock' \in Socks, Len(sock'.q) <= QLen, sock'.open, sock'.before = sock.before, Grown(sock.q, sock'.q),
         NumberedUpTo(sock'.q, sock.q, nlseq'),
         DumpOK(sock.dump)', nlseq < nlseq' \/ sock'.sent \/ sock' = sock,
         call' \in Calls \cup ShortCalls, call' \in Calls => call'.seq <= nlseq'
  PROVE  NetTyped' /\ NumbersOK' /\ FreshSocket' /\ BeforeOK'
<1>1. NetTyped /\ NumbersOK /\ FreshSocket /\ BeforeOK
  BY DEF NetlinkInv
<1>2. nlseq \in Nat /\ sock.before[1] \in Nat /\ sock.before[1] <= nlseq /\ sock.q \in Seq(Datagrams)
      /\ sock.before[2] <= events
  BY <1>1, SockTyped DEF NetTyped, BeforeOK
<1>3. NetTyped'
  BY <1>1 DEF NetTyped
<1>4. NumbersOK'
  <2>1. ASSUME NEW k \in DOMAIN sock'.q, NEW j \in DOMAIN sock'.q[k].msgs,
               sock'.q[k].from = Kernel, sock'.q[k].msgs[j].pid = Me
        PROVE  sock'.q[k].msgs[j].seq <= nlseq'
    <3>1. CASE k \in DOMAIN sock.q
      <4>1. sock'.q[k] = sock.q[k]
        BY <3>1 DEF Grown
      <4>2. sock.q[k].msgs[j].seq <= nlseq
        BY <1>1, <2>1, <3>1, <4>1 DEF NumbersOK
      <4>3. sock.q[k].msgs[j].seq \in Nat
        <5>1. sock.q[k].msgs \in Seq(Msgs) /\ j \in DOMAIN sock.q[k].msgs
          BY <1>1, <2>1, <3>1, <4>1, SockTyped
        <5>2. sock.q[k].msgs[j] \in Msgs
          BY <5>1
        <5> QED
          BY <5>2, MessageTypes
      <4> QED
        BY <1>2, <4>1, <4>2, <4>3
    <3>2. CASE k \notin DOMAIN sock.q
      BY <2>1, <3>2 DEF NumberedUpTo
    <3> QED
      BY <3>1, <3>2
  <2> QED
    BY <2>1 DEF NumbersOK, DumpOK
<1>5. FreshSocket' /\ BeforeOK'
  <2>1. FreshSocket'
    BY <1>1, <1>2 DEF FreshSocket
  <2>2. sock.before[1] <= nlseq'
    BY <1>2
  <2> QED
    BY <1>2, <2>1, <2>2 DEF BeforeOK
<1> QED
  BY <1>3, <1>4, <1>5

\* Two sequences of one element.
LEMMA TwoInARow ==
  ASSUME NEW S, NEW a \in S, NEW b \in S
  PROVE  <<a>> \o <<b>> = <<a, b>>
<1> DEFINE u == <<a, b>>
           v == <<a>> \o <<b>>
<1>1. /\ u \in Seq(S) /\ Len(u) = 2 /\ u[1] = a /\ u[2] = b
      /\ <<a>> \in Seq(S) /\ <<b>> \in Seq(S)
  OBVIOUS
<1>2. v \in Seq(S) /\ Len(v) = 2 /\ v[1] = a /\ v[2] = b
  BY <1>1
<1> HIDE DEF u, v
<1>3. \A i \in 1..2 : i = 1 \/ i = 2
  OBVIOUS
<1>4. \A i \in 1..Len(u) : u[i] = v[i]
  BY <1>1, <1>2, <1>3
<1>5. u = v
  BY <1>1, <1>2, <1>4, SeqEqual
<1> QED
  BY <1>5 DEF u, v

\* Datagrams of one message each, which answer request seq.
AnswersTo(as, seq, verdict) ==
  \A x \in DOMAIN as : /\ as[x].from = Kernel /\ Len(as[x].msgs) = 1 /\ as[x].msgs[1].pid = Me
                       /\ as[x].msgs[1].seq = seq
                       /\ as[x].msgs[1].type = "fail" <=> verdict = "fail"
OneEnds(as, op, ack) ==
  \E x \in DOMAIN as : \/ as[x].msgs[1].type \in {"fail", "ack"}
                       \/ as[x].msgs[1].type = "link" /\ op = "get" /\ ~ack

\* What the kernel answers.
LEMMA AnswersShape ==
  ASSUME links \in [Indexes -> LinkNames], NEW op, NEW seq \in Nat, NEW ack \in BOOLEAN, NEW i \in Indexes,
         NEW verdict \in {"ack", "fail"}
  PROVE  LET as == Answers(op, seq, ack, i, verdict)
         IN  /\ as \in Seq(Datagrams) /\ AnswersTo(as, seq, verdict)
             /\ ack \/ op = "get" \/ verdict = "fail" => OneEnds(as, op, ack)
<1> USE DEF AnswersTo, OneEnds
<1> DEFINE F == Datagram(Kernel, <<Control("fail", seq)>>)
           A == Datagram(Kernel, <<Control("ack", seq)>>)
           L == Datagram(Kernel, <<Link(i, seq, Me)>>)
           as == Answers(op, seq, ack, i, verdict)
           Is(d, type) == /\ d \in Datagrams /\ d.from = Kernel /\ Len(d.msgs) = 1 /\ d.msgs[1].pid = Me
                          /\ d.msgs[1].seq = seq /\ d.msgs[1].type = type
<1>1. Is(F, "fail") /\ Is(A, "ack")
  <2>1. \A type \in {"fail", "ack"} : Control(type, seq) \in Msgs /\ Control(type, seq).pid = Me
          /\ Control(type, seq).seq = seq /\ Control(type, seq).type = type
    BY ControlTyped
  <2>2. Control("fail", seq) \in Msgs /\ Control("ack", seq) \in Msgs /\ Kernel \in {Other, Kernel}
    BY <2>1
  <2>3. F \in Datagrams /\ F.from = Kernel /\ Len(F.msgs) = 1 /\ F.msgs[1] = Control("fail", seq)
    BY <2>2, OneMessage
  <2>4. A \in Datagrams /\ A.from = Kernel /\ Len(A.msgs) = 1 /\ A.msgs[1] = Control("ack", seq)
    BY <2>2, OneMessage
  <2> HIDE DEF F, A
  <2> QED
    BY <2>1, <2>3, <2>4
<1>2. Is(L, "link")
  <2>1. Link(i, seq, Me) \in Msgs /\ Link(i, seq, Me).pid = Me /\ Link(i, seq, Me).seq = seq
        /\ Link(i, seq, Me).type = "link"
    BY LinkTyped
  <2>2. L \in Datagrams /\ L.from = Kernel /\ Len(L.msgs) = 1 /\ L.msgs[1] = Link(i, seq, Me)
    BY <2>1, OneMessage
  <2> HIDE DEF L
  <2> QED
    BY <2>1, <2>2
<1>3. as = IF verdict = "fail" THEN <<F>>
           ELSE (IF op = "get" THEN <<L>> ELSE << >>) \o (IF ack THEN <<A>> ELSE << >>)
  BY DEF Answers
<1> HIDE DEF F, A, L, as
<1>4. \/ as = <<F>> /\ verdict = "fail"
      \/ as = <<L, A>> /\ verdict = "ack" /\ op = "get" /\ ack
      \/ as = <<L>> /\ verdict = "ack" /\ op = "get" /\ ~ack
      \/ as = <<A>> /\ verdict = "ack" /\ op # "get" /\ ack
      \/ as = << >> /\ verdict = "ack" /\ op # "get" /\ ~ack
  <2>1. <<L>> \o <<A>> = <<L, A>> /\ <<L>> \o << >> = <<L>> /\ << >> \o <<A>> = <<A>> /\ << >> \o << >> = << >>
    <3>1. L \in Datagrams /\ A \in Datagrams
      BY <1>1, <1>2
    <3>2. <<L>> \in Seq(Datagrams) /\ <<A>> \in Seq(Datagrams)
      BY <3>1
    <3>3. <<L>> \o <<A>> = <<L, A>>
      BY <3>1, TwoInARow
    <3>4. <<L>> \o << >> = <<L>> /\ << >> \o <<A>> = <<A>> /\ << >> \o << >> = << >>
      BY <3>2, EmptySeq, ConcatEmptySeq
    <3> QED
      BY <3>3, <3>4
  <2> QED
    BY <1>3, <2>1
<1>10. /\ Is(F, "fail") => F \in Datagrams
       /\ Is(A, "ack") => A \in Datagrams
       /\ Is(L, "link") => L \in Datagrams
  OBVIOUS
<1> HIDE DEF Is
<1>5. CASE as = <<F>> /\ verdict = "fail"
  BY <1>1, <1>5 DEF Is, as
<1>6. CASE as = <<L, A>> /\ verdict = "ack" /\ op = "get" /\ ack
  <2>1. as \in Seq(Datagrams) /\ DOMAIN as = 1..2 /\ as[1] = L /\ as[2] = A
    BY <1>1, <1>2, <1>6, <1>10
  <2>2. \A x \in 1..2 : x = 1 \/ x = 2
    OBVIOUS
  <2>3. /\ L.from = Kernel /\ Len(L.msgs) = 1 /\ L.msgs[1].pid = Me /\ L.msgs[1].seq = seq /\ L.msgs[1].type = "link"
        /\ A.from = Kernel /\ Len(A.msgs) = 1 /\ A.msgs[1].pid = Me /\ A.msgs[1].seq = seq /\ A.msgs[1].type = "ack"
    BY <1>1, <1>2 DEF Is
  <2>4. 2 \in DOMAIN as
    BY <2>1
  <2> HIDE DEF as
  <2>5. \A x \in DOMAIN as : /\ as[x].from = Kernel /\ Len(as[x].msgs) = 1 /\ as[x].msgs[1].pid = Me
                              /\ as[x].msgs[1].seq = seq /\ as[x].msgs[1].type # "fail"
    BY <2>1, <2>2, <2>3
  <2>6. \E x \in DOMAIN as : as[x].msgs[1].type \in {"fail", "ack"}
    BY <2>1, <2>3, <2>4
  <2>7. verdict # "fail"
    BY <1>6
  <2> QED
    BY <2>1, <2>5, <2>6, <2>7 DEF as
<1>7. CASE as = <<L>> /\ verdict = "ack" /\ op = "get" /\ ~ack
  BY <1>2, <1>7 DEF Is, as
<1>8. CASE as = <<A>> /\ verdict = "ack" /\ op # "get" /\ ack
  <2>1. as \in Seq(Datagrams) /\ DOMAIN as = 1..1 /\ as[1] = A /\ 1 \in DOMAIN as
    BY <1>1, <1>8, <1>10
  <2>2. A.from = Kernel /\ Len(A.msgs) = 1 /\ A.msgs[1].pid = Me /\ A.msgs[1].seq = seq /\ A.msgs[1].type = "ack"
    BY <1>1 DEF Is
  <2>3. \A x \in 1..1 : x = 1
    OBVIOUS
  <2>4. \A x \in DOMAIN as : as[x].from = Kernel /\ Len(as[x].msgs) = 1 /\ as[x].msgs[1].pid = Me
                            /\ as[x].msgs[1].seq = seq /\ as[x].msgs[1].type # "fail"
    BY <2>1, <2>2, <2>3
  <2>5. \E x \in DOMAIN as : as[x].msgs[1].type \in {"fail", "ack"}
    BY <2>1, <2>2
  <2>6. verdict # "fail"
    BY <1>8
  <2> QED
    BY <2>1, <2>4, <2>5, <2>6 DEF as
<1>9. CASE as = << >> /\ verdict = "ack" /\ op # "get" /\ ~ack
  BY <1>9 DEF as
<1> QED
  BY <1>4, <1>5, <1>6, <1>7, <1>8, <1>9

\* A call with the next number finds these answers only, or all of them.
OnlyAnswers(r, as) ==
  \A c : c.seq = nlseq + 1 =>
    \A k, j \in Nat : MineAt(c, r, k, j) => j = 1 /\ \E x \in DOMAIN as : r[k] = as[x]
AllThere(r, q, as) ==
  \A x \in DOMAIN as : Len(q) + x \in DOMAIN r /\ r[Len(q) + x] = as[x]

\* Nothing on the socket is for a new call, and what is answered is all there is.
LEMMA Asked ==
  ASSUME NetTyped, NumbersOK, NEW seq \in Nat, seq = 0 \/ seq = nlseq + 1, NEW n \in Nat, seq <= n,
         NEW as \in Seq(Datagrams), NEW verdict, AnswersTo(as, seq, verdict)
  PROVE  LET s == Deliver(sock, as)
         IN  /\ s \in Socks /\ Len(s.q) <= QLen /\ Grown(sock.q, s.q)
             /\ s.groups = sock.groups /\ s.dump = sock.dump /\ s.open = sock.open /\ s.sent = sock.sent
             /\ s.before = sock.before
             /\ NumberedUpTo(s.q, sock.q, n) /\ OnlyAnswers(s.q, as)
             /\ Fits(sock, Len(as)) => AllThere(s.q, sock.q, as)
<1> DEFINE s == Deliver(sock, as)
           q == sock.q
           r == s.q
<1>1. sock \in Socks /\ Len(q) <= QLen /\ Len(q) \in Nat /\ q \in Seq(Datagrams) /\ DOMAIN q = 1..Len(q)
      /\ nlseq \in Nat
  BY SockTyped DEF NetTyped
<1>2. /\ s \in Socks /\ Len(r) <= QLen /\ Grown(q, r)
      /\ s.groups = sock.groups /\ s.dump = sock.dump /\ s.open = sock.open /\ s.sent = sock.sent
      /\ s.before = sock.before
      /\ \A k \in DOMAIN r \ DOMAIN q : k - Len(q) \in DOMAIN as /\ r[k] = as[k - Len(q)]
      /\ Fits(sock, Len(as)) => Len(r) = Len(q) + Len(as)
  BY <1>1, Delivered
<1>3. r \in Seq(Datagrams) /\ DOMAIN r = 1..Len(r) /\ Len(r) \in Nat
  <2>1. r \in Seq(Datagrams)
    BY <1>2 DEF Socks
  <2> HIDE DEF r
  <2> QED
    BY <2>1
<1> HIDE DEF s, q, r
<1> USE DEF AnswersTo
<1>4. \A x \in DOMAIN as : DOMAIN as[x].msgs = {1} /\ as[x].msgs[1].seq = seq
  <2> SUFFICES ASSUME NEW x \in DOMAIN as
               PROVE  DOMAIN as[x].msgs = {1}
    OBVIOUS
  <2>1. as[x] \in Datagrams /\ Len(as[x].msgs) = 1
    BY SeqElements
  <2>2. as[x].msgs \in Seq(Msgs)
    BY <2>1 DEF Datagrams
  <2>3. DOMAIN as[x].msgs = 1..1
    BY <2>1, <2>2, SeqElements
  <2>4. 1..1 = {1}
    OBVIOUS
  <2> QED
    BY <2>3, <2>4
<1>5. \A k \in DOMAIN r \ DOMAIN q : \A j \in DOMAIN r[k].msgs : r[k].msgs[j].seq <= n
  <2> SUFFICES ASSUME NEW k \in DOMAIN r \ DOMAIN q, NEW j \in DOMAIN r[k].msgs
               PROVE  r[k].msgs[j].seq <= n
    OBVIOUS
  <2>1. k - Len(q) \in DOMAIN as /\ r[k] = as[k - Len(q)]
    BY <1>2
  <2>2. j = 1 /\ r[k].msgs[1].seq = seq
    BY <1>4, <2>1
  <2> QED
    BY <2>2
<1>6. ASSUME NEW c, c.seq = nlseq + 1, NEW k \in Nat, NEW j \in Nat, MineAt(c, r, k, j)
      PROVE  j = 1 /\ \E x \in DOMAIN as : r[k] = as[x]
  <2>1. k \in DOMAIN r /\ j \in DOMAIN r[k].msgs /\ r[k].from = Kernel /\ r[k].msgs[j].pid = Me
        /\ r[k].msgs[j].seq = nlseq + 1
    BY <1>6 DEF MineAt, Mine
  <2>2. k \notin DOMAIN q
    <3> SUFFICES ASSUME k \in DOMAIN q
                 PROVE  FALSE
      OBVIOUS
    <3>1. r[k] = q[k]
      BY <1>2 DEF Grown
    <3>2. nlseq + 1 <= nlseq
      BY <2>1, <3>1 DEF NumbersOK, q
    <3> QED
      BY <1>1, <3>2
  <2>3. k - Len(q) \in DOMAIN as /\ r[k] = as[k - Len(q)]
    BY <1>2, <2>1, <2>2
  <2> QED
    BY <1>4, <2>1, <2>3
<1>7. ASSUME Fits(sock, Len(as)), NEW x \in DOMAIN as
      PROVE  Len(q) + x \in DOMAIN r /\ r[Len(q) + x] = as[x]
  <2>1. x \in 1..Len(as) /\ Len(as) \in Nat /\ Len(r) = Len(q) + Len(as)
    BY <1>2, <1>7, SeqElements
  <2>2. Len(q) + x \in 1..Len(r) /\ Len(q) + x \notin 1..Len(q) /\ (Len(q) + x) - Len(q) = x
    <3>1. Len(q) \in Nat
      BY <1>1
    <3>2. \A a, b \in Nat : \A y \in 1..b : a + y \in 1..(a + b) /\ a + y \notin 1..a /\ (a + y) - a = y
      OBVIOUS
    <3> QED
      <4>1. Len(as) \in Nat /\ x \in 1..Len(as)
        BY <2>1
      <4>2. Len(q) + x \in 1..(Len(q) + Len(as)) /\ Len(q) + x \notin 1..Len(q) /\ (Len(q) + x) - Len(q) = x
        BY <3>1, <3>2, <4>1
      <4> QED
        BY <2>1, <4>2
  <2>3. Len(q) + x \in DOMAIN r \ DOMAIN q
    BY <1>1, <1>3, <2>2
  <2>4. r[Len(q) + x] = as[(Len(q) + x) - Len(q)]
    BY <1>2, <2>3
  <2> QED
    BY <2>2, <2>3, <2>4
<1> QED
  BY <1>2, <1>5, <1>6, <1>7 DEF s, q, r, NumberedUpTo, OnlyAnswers, AllThere

\* rth->dump is not the number of a call still to be made.
LEMMA NewNumber ==
  ASSUME NetTyped, NumbersOK, NEW c, c.seq = nlseq + 1
  PROVE  ~MyDump(c, sock.dump) /\ \A k, j \in Nat : ~MineAt(c, sock.q, k, j)
<1>1. nlseq \in Nat /\ ~(nlseq + 1 <= nlseq)
  BY DEF NetTyped
<1>2. ~MyDump(c, sock.dump)
  BY <1>1 DEF MyDump, NumbersOK, DumpOK
<1>3. \A k, j \in Nat : ~MineAt(c, sock.q, k, j)
  BY <1>1 DEF NumbersOK, MineAt, Mine
<1> QED
  BY <1>2, <1>3

\* A call that starts.
LEMMA NewCallTyped ==
  ASSUME NEW op \in Talks \cup Dumps \cup {"readSock", "recv_reply", "listen"}, NEW seq \in Nat,
         NEW answer \in BOOLEAN, NEW junk \in BOOLEAN, NEW stop \in Nat, NEW verdict \in {"ack", "fail"},
         NEW lost \in BOOLEAN
  PROVE  LET c == NewCall(op, seq, answer, junk, stop, verdict, lost)
         IN  /\ c \in Calls /\ c.op = op /\ c.seq = seq /\ c.answer = answer /\ c.verdict = verdict
             /\ c.ret = "wait" /\ c.got = << >> /\ c.lost = lost /\ c.cut = FALSE
BY DEF NewCall, Calls

\* A new call has nothing to answer for.
LEMMA NewCallBelongs ==
  ASSUME call' \in Calls, call'.ret = "wait", call'.got = << >>
  PROVE  AnswersBelong'
<1>1. Ascending(IndexesOf(call'.got))
  BY DEF Ascending, IndexesOf
<1> QED
  BY <1>1 DEF AnswersBelong

\* The request was not sent.
LEMMA FailedKept ==
  ASSUME NetlinkInv, sock.open, nlseq' = nlseq + 1, call' \in ShortCalls, sock' = sock, links' = links,
         events' = events
  PROVE  NetlinkInv'
<1>1. NetTyped /\ NumbersOK /\ sock \in Socks /\ Len(sock.q) <= QLen /\ nlseq \in Nat
  BY DEF NetlinkInv, NetTyped
<1>2. DumpOK(sock.dump)'
  <2>1. DumpOK(sock.dump)
    BY <1>1 DEF NumbersOK
  <2> QED
    BY <1>1, <2>1 DEF DumpOK
<1>3. Grown(sock.q, sock'.q) /\ nlseq <= nlseq' /\ nlseq < nlseq' /\ call' \notin Calls
      /\ NumberedUpTo(sock'.q, sock.q, nlseq')
  BY <1>1, ShortApart, SockTyped DEF Grown, NumberedUpTo
<1>4. NetTyped' /\ NumbersOK' /\ FreshSocket' /\ BeforeOK'
  BY <1>1, <1>2, <1>3, RequestFrame
<1> QED
  BY <1>4, ShortKept DEF NetlinkInv

\* rtnl_talk sends a request.
LEMMA TalkStarts ==
  ASSUME NetlinkInv, NEW op \in Talks, NEW i \in Indexes, NEW answer \in BOOLEAN, NEW junk \in BOOLEAN,
         op = "set" => ~answer, rtnl_talk(op, i, answer, junk)
  PROVE  NetlinkInv'
<1>1. NetTyped /\ NumbersOK /\ nlseq \in Nat /\ links \in [Indexes -> LinkNames] /\ sock.open
  BY DEF NetlinkInv, NetTyped, rtnl_talk, Ready
<1>2. nlseq' = nlseq + 1 /\ links' = links /\ events' = events
  BY DEF rtnl_talk
<1>3. CASE call' = [op |-> "none", ret |-> "error"] /\ UNCHANGED sock
  BY <1>1, <1>2, <1>3, FailedKept DEF ShortCalls
<1>4. ASSUME NEW verdict \in {"ack", "fail"},
             call' = NewCall(op, nlseq', answer, junk, 0, verdict,
                             ~Fits(sock, Len(Answers(op, nlseq', AckFlag(answer), i, verdict)))),
             sock' = Deliver(sock, Answers(op, nlseq', AckFlag(answer), i, verdict))
      PROVE  NetlinkInv'
  <2> DEFINE ack == AckFlag(answer)
             as == Answers(op, nlseq', ack, i, verdict)
             c == call'
  <2>1. ack \in BOOLEAN /\ ack = ~answer /\ nlseq' \in Nat
    BY <1>1, <1>2 DEF AckFlag
  <2> HIDE DEF ack
  <2>2. /\ as \in Seq(Datagrams)
        /\ AnswersTo(as, nlseq', verdict)
        /\ ack \/ op = "get" \/ verdict = "fail" => OneEnds(as, op, ack)
    BY <1>1, <2>1, AnswersShape
  <2>3. sock' = Deliver(sock, as) /\ call' = NewCall(op, nlseq', answer, junk, 0, verdict, ~Fits(sock, Len(as)))
    BY <1>4 DEF ack
  <2> HIDE DEF as
  <2>4. /\ c \in Calls /\ c.op = op /\ c.seq = nlseq' /\ c.answer = answer /\ c.verdict = verdict
        /\ c.ret = "wait" /\ c.got = << >> /\ c.lost = (~Fits(sock, Len(as))) /\ c.cut = FALSE
    BY <2>1, <2>3 DEF NewCall, Calls, Fits
  <2> HIDE DEF c
  <2>5. /\ sock' \in Socks /\ Len(sock'.q) <= QLen /\ Grown(sock.q, sock'.q)
        /\ sock'.dump = sock.dump /\ sock'.open = sock.open /\ sock'.before = sock.before
        /\ NumberedUpTo(sock'.q, sock.q, nlseq') /\ OnlyAnswers(sock'.q, as)
        /\ Fits(sock, Len(as)) => AllThere(sock'.q, sock.q, as)
    <3>1. nlseq' \in Nat /\ nlseq' <= nlseq' /\ (nlseq' = 0 \/ nlseq' = nlseq + 1)
      BY <1>2, <2>1
    <3>2. c.seq = nlseq + 1
      BY <1>2, <2>4
    <3> QED
      BY <1>1, <2>2, <2>3, <3>1, <3>2, Asked
  <2>6. DumpOK(sock.dump)'
    <3>1. DumpOK(sock.dump)
      BY <1>1 DEF NumbersOK
    <3> QED
      BY <1>1, <1>2, <2>5, <3>1 DEF DumpOK
  <2>7. NetTyped' /\ NumbersOK' /\ FreshSocket' /\ BeforeOK'
    <3>1. nlseq <= nlseq' /\ nlseq < nlseq'
      BY <1>1, <1>2
    <3>2. call' \in Calls /\ call'.seq <= nlseq'
      BY <2>1, <2>4 DEF c
    <3> QED
      BY <1>1, <1>2, <2>1, <2>5, <2>6, <3>1, <3>2, RequestFrame
  <2>8. ~MyDump(c, sock'.dump)
    BY <1>1, <1>2, <2>4, <2>5, NewNumber
  <2>9. TalkInv(c, sock'.q, sock'.dump)
    <3>1. TalkConforms(c, sock'.q)
      <4> SUFFICES ASSUME NEW k \in Nat, NEW j \in Nat, MineAt(c, sock'.q, k, j)
                   PROVE  sock'.q[k].msgs[j].type = "fail" <=> c.verdict = "fail"
        BY DEF TalkConforms
      <4>1. j = 1 /\ \E x \in DOMAIN as : sock'.q[k] = as[x]
        BY <1>2, <2>4, <2>5 DEF OnlyAnswers
      <4> QED
        BY <2>2, <2>4, <4>1 DEF AnswersTo
    <3>2. answer => op = "get"
      BY DEF Talks
    <3> QED
      BY <2>4, <2>8, <3>1, <3>2 DEF TalkInv
  <2>10. c.lost \/ AnswerQueued(c, sock'.q)
    <3> SUFFICES ASSUME Fits(sock, Len(as))
                 PROVE  AnswerQueued(c, sock'.q)
      BY <2>4
    <3>1. ack \/ op = "get"
      BY <2>1 DEF Talks
    <3>2. PICK x \in DOMAIN as : \/ as[x].msgs[1].type \in {"fail", "ack"}
                                 \/ as[x].msgs[1].type = "link" /\ op = "get" /\ ~ack
      BY <2>2, <3>1 DEF OneEnds
    <3>3. Len(sock.q) + x \in DOMAIN sock'.q /\ sock'.q[Len(sock.q) + x] = as[x]
      BY <2>5 DEF AllThere
    <3>4. Final(c, as[x].msgs[1])
      BY <2>1, <2>4, <3>2 DEF Final, Talks
    <3>5. MineAt(c, sock'.q, Len(sock.q) + x, 1)
      <4>1. as[x].from = Kernel /\ Len(as[x].msgs) = 1 /\ as[x].msgs[1].pid = Me /\ as[x].msgs[1].seq = nlseq'
        BY <2>2 DEF AnswersTo
      <4>2. 1 \in DOMAIN as[x].msgs
        <5>1. as[x] \in Datagrams
          BY <2>2, SeqElements
        <5>2. as[x].msgs \in Seq(Msgs)
          BY <5>1 DEF Datagrams
        <5>3. DOMAIN as[x].msgs = 1..1
          BY <4>1, <5>2, SeqElements
        <5> QED
          BY <5>3
      <4> QED
        BY <2>4, <3>3, <4>1, <4>2 DEF MineAt, Mine
    <3> QED
      BY <2>2, <3>3, <3>4, <3>5 DEF AnswerQueued, AnswersTo
  <2>11. CallInv' /\ AnswerComes'
    <3>1. AnswersBelong'
      BY <2>4, NewCallBelongs DEF c
    <3>2. op \notin Dumps /\ op # "readSock"
      BY DEF Talks, Dumps
    <3>3. TalkInv(call, sock.q, sock.dump)'
      BY <2>9 DEF c
    <3>4. DumpInv(call, sock.q, sock.dump)' /\ ReadInv(call, sock, events)'
      BY <2>4, <3>2 DEF c, DumpInv, ReadInv
    <3>5. AnswerComes'
      BY <2>10 DEF c, AnswerComes, Coming
    <3> QED
      BY <3>1, <3>3, <3>4, <3>5 DEF CallInv
  <2> QED
    BY <2>7, <2>11 DEF NetlinkInv
<1> QED
  BY <1>3, <1>4 DEF rtnl_talk

\* rtnl_send sends one nobody waits for.
LEMMA SendKept ==
  ASSUME NetlinkInv, rtnl_send
  PROVE  NetlinkInv'
<1>1. NetTyped /\ NumbersOK /\ nlseq \in Nat /\ links \in [Indexes -> LinkNames] /\ sock.open /\ 1 \in Indexes
  BY Interfaces DEF NetlinkInv, NetTyped, rtnl_send, Ready
<1>2. nlseq' = nlseq /\ links' = links /\ events' = events /\ call' = NoCall
  BY DEF rtnl_send
<1>3. PICK verdict \in {"ack", "fail"} :
        sock' = [Deliver(sock, Answers("set", 0, FALSE, 1, verdict)) EXCEPT !.sent = TRUE]
  BY DEF rtnl_send
<1> DEFINE as == Answers("set", 0, FALSE, 1, verdict)
           t == Deliver(sock, as)
<1>4. as \in Seq(Datagrams) /\ AnswersTo(as, 0, verdict)
  BY <1>1, AnswersShape
<1> HIDE DEF as
<1>5. /\ t \in Socks /\ Len(t.q) <= QLen /\ Grown(sock.q, t.q) /\ t.dump = sock.dump /\ t.open = sock.open
      /\ t.before = sock.before /\ NumberedUpTo(t.q, sock.q, nlseq)
  <2>1. 0 \in Nat /\ 0 <= nlseq /\ (0 = 0 \/ 0 = nlseq + 1)
    BY <1>1
  <2> QED
    BY <1>1, <1>4, <2>1, Asked
<1>6. sock' = [t EXCEPT !.sent = TRUE]
  BY <1>3 DEF as
<1> HIDE DEF t
<1>7. /\ sock' \in Socks /\ sock'.q = t.q /\ sock'.dump = t.dump /\ sock'.open = t.open /\ sock'.sent = TRUE
      /\ sock'.before = t.before
  BY <1>5, <1>6 DEF Socks
<1>8. DumpOK(sock.dump)'
  BY <1>1, <1>2, <1>5, <1>7 DEF NumbersOK, DumpOK
<1>9. call' \in ShortCalls /\ call' \notin Calls
  BY <1>2, ShortApart DEF NoCall, ShortCalls
<1>10. NetTyped' /\ NumbersOK' /\ FreshSocket' /\ BeforeOK'
  BY <1>1, <1>2, <1>5, <1>7, <1>8, <1>9, RequestFrame
<1> QED
  BY <1>9, <1>10, ShortKept DEF NetlinkInv

\* So does the rtnl_talk of routeadd.
LEMMA RouteaddKept ==
  ASSUME NetlinkInv, rtnl_talk_routeadd
  PROVE  NetlinkInv'
<1>1. NetTyped /\ NumbersOK /\ nlseq \in Nat /\ links \in [Indexes -> LinkNames] /\ sock.open /\ 1 \in Indexes
  BY Interfaces DEF NetlinkInv, NetTyped, rtnl_talk_routeadd, Ready
<1>2. nlseq' = nlseq + 1 /\ links' = links /\ events' = events /\ call' = NoCall
  BY DEF rtnl_talk_routeadd
<1>3. PICK verdict \in {"ack", "fail"} : sock' = Deliver(sock, Answers("set", nlseq', TRUE, 1, verdict))
  BY DEF rtnl_talk_routeadd, AckFlag
<1> DEFINE as == Answers("set", nlseq', TRUE, 1, verdict)
<1>4. as \in Seq(Datagrams) /\ AnswersTo(as, nlseq', verdict)
  <2>1. nlseq' \in Nat /\ TRUE \in BOOLEAN
    BY <1>1, <1>2
  <2> HIDE DEF as
  <2>2. as = Answers("set", nlseq', TRUE, 1, verdict)
    BY DEF as
  <2> QED
    BY <1>1, <2>1, <2>2, AnswersShape
<1> HIDE DEF as
<1>5. /\ sock' \in Socks /\ Len(sock'.q) <= QLen /\ Grown(sock.q, sock'.q) /\ sock'.dump = sock.dump
      /\ sock'.open = sock.open /\ sock'.before = sock.before /\ NumberedUpTo(sock'.q, sock.q, nlseq')
  <2>1. nlseq' \in Nat /\ nlseq' <= nlseq' /\ (nlseq' = 0 \/ nlseq' = nlseq + 1)
    BY <1>1, <1>2
  <2>2. sock' = Deliver(sock, as)
    BY <1>3 DEF as
  <2> QED
    BY <1>1, <1>4, <2>1, <2>2, Asked
<1>6. DumpOK(sock.dump)'
  BY <1>1, <1>2, <1>5 DEF NumbersOK, DumpOK
<1>7. call' \in ShortCalls /\ call' \notin Calls
  BY <1>2, ShortApart DEF NoCall, ShortCalls
<1>8. NetTyped' /\ NumbersOK' /\ FreshSocket' /\ BeforeOK'
  BY <1>1, <1>2, <1>5, <1>6, <1>7, RequestFrame
<1> QED
  BY <1>7, <1>8, ShortKept DEF NetlinkInv

\* A dump starts with all of the interfaces still to be sent, or is refused.
LEMMA FlowStarts ==
  ASSUME NEW c, c.got = << >>, NEW q, NEW dump,
         \/ /\ \A k, j \in Nat : ~MineAt(c, q, k, j)
            /\ MyDump(c, dump) /\ c.verdict = "ack" /\ Len(dump) = NLinks + 1
            /\ \A x \in 2..Len(dump) : dump[x] = x - 1
         \/ /\ \A k, j \in Nat : MineAt(c, q, k, j) => q[k].msgs[j].type = "fail"
            /\ ~MyDump(c, dump) /\ c.verdict = "fail"
  PROVE  Flow(c, q, 0, dump)
<1>1. DOMAIN c.got = {} /\ Ascending(IndexesOf(c.got))
  BY DEF Ascending, IndexesOf
<1>2. CASE /\ \A k, j \in Nat : ~MineAt(c, q, k, j)
           /\ MyDump(c, dump) /\ c.verdict = "ack" /\ Len(dump) = NLinks + 1
           /\ \A x \in 2..Len(dump) : dump[x] = x - 1
  <2>1. FlowTyped(c, q, 0, dump)
    BY <1>1, <1>2 DEF FlowTyped
  <2>2. FlowOrdered(c, q, 0, dump)
    BY <1>1, <1>2 DEF FlowOrdered
  <2>3. FlowWhole(c, q, 0, dump)
    <3> SUFFICES ASSUME NEW i \in Indexes
                 PROVE  InDump(c, dump, i)
      BY DEF FlowWhole
    <3>1. i + 1 \in 2..Len(dump) /\ dump[i + 1] = (i + 1) - 1 /\ (i + 1) - 1 = i
      BY <1>2, Interfaces
    <3> QED
      BY <1>2, <3>1 DEF InDump
  <2> QED
    BY <2>1, <2>2, <2>3 DEF Flow
<1>3. CASE /\ \A k, j \in Nat : MineAt(c, q, k, j) => q[k].msgs[j].type = "fail"
           /\ ~MyDump(c, dump) /\ c.verdict = "fail"
  <2>1. FlowTyped(c, q, 0, dump)
    BY <1>1, <1>3 DEF FlowTyped
  <2>2. FlowOrdered(c, q, 0, dump)
    BY <1>1, <1>3 DEF FlowOrdered
  <2>3. FlowWhole(c, q, 0, dump)
    BY <1>3 DEF FlowWhole
  <2> QED
    BY <2>1, <2>2, <2>3 DEF Flow
<1> QED
  BY <1>2, <1>3

\* A dump is asked for.
LEMMA DumpStarts ==
  ASSUME NetlinkInv, NEW op \in Dumps \cup {"readSock", "recv_reply"}, NEW junk \in BOOLEAN, NEW stop \in Nat,
         op = "readSock" => OwnSocket(FALSE), StartDump(op, junk, stop)
  PROVE  NetlinkInv'
<1>1. NetTyped /\ NumbersOK /\ nlseq \in Nat /\ links \in [Indexes -> LinkNames] /\ sock.open
      /\ sock \in Socks /\ Len(sock.q) <= QLen /\ FreshSocket
  BY DEF NetlinkInv, NetTyped, StartDump, Ready
<1>2. nlseq' = nlseq + 1 /\ links' = links /\ events' = events /\ nlseq' \in Nat /\ nlseq <= nlseq' /\ nlseq < nlseq'
  BY <1>1 DEF StartDump
<1> DEFINE busy == sock.dump # << >>
           as == <<Datagram(Kernel, <<Control("fail", nlseq')>>)>>
           whole == <<nlseq'>> \o [i \in 1..Len(links) |-> i]
           c == call'
           lost == busy /\ ~Fits(sock, 1)
           verdict == IF busy THEN "fail" ELSE "ack"
<1>3. CASE /\ call' = [op |-> IF op = "ll_init_map" THEN "exited" ELSE "none", ret |-> "error"]
           /\ UNCHANGED sock
  <2>1. call' \in ShortCalls
    BY <1>3 DEF ShortCalls
  <2> QED
    BY <1>1, <1>2, <1>3, <2>1, FailedKept
<1>4. CASE /\ call' = NewCall(op, nlseq', FALSE, junk, stop, verdict, lost)
           /\ sock' = IF busy THEN Deliver(sock, as) ELSE [sock EXCEPT !.dump = whole]
  <2>1. /\ c \in Calls /\ c.op = op /\ c.seq = nlseq' /\ c.verdict = verdict
        /\ c.ret = "wait" /\ c.got = << >> /\ (c.lost <=> lost) /\ c.cut = FALSE
    <3>1. (lost) \in BOOLEAN /\ verdict \in {"ack", "fail"} /\ << >> \in Seq(Msgs)
      OBVIOUS
    <3> HIDE DEF lost, verdict
    <3>2. c = [op |-> op, seq |-> nlseq', answer |-> FALSE, junk |-> junk, stop |-> stop, verdict |-> verdict,
               ret |-> "wait", got |-> << >>, lost |-> lost, cut |-> FALSE]
      BY <1>4 DEF NewCall
    <3> QED
      BY <1>2, <3>1, <3>2 DEF Calls
  <2>2. c.seq = nlseq + 1
    BY <1>2, <2>1
  <2>3. /\ sock' \in Socks /\ Len(sock'.q) <= QLen /\ Grown(sock.q, sock'.q)
        /\ sock'.groups = sock.groups /\ sock'.open = sock.open /\ sock'.sent = sock.sent
        /\ sock'.before = sock.before
        /\ NumberedUpTo(sock'.q, sock.q, nlseq')
        /\ DumpOK(sock.dump)'
        /\ Flow(c, sock'.q, 0, sock'.dump)
        /\ c.lost \/ AnswerQueued(c, sock'.q) \/ MyDump(c, sock'.dump)
        /\ ~busy => c.verdict = "ack" /\ MyDump(c, sock'.dump) /\ sock'.q = sock.q
    <3>1. CASE busy
      <4>1. sock' = Deliver(sock, as) /\ verdict = "fail" /\ (lost <=> ~Fits(sock, 1))
        BY <1>4, <3>1
      <4>2. Control("fail", nlseq') \in Msgs /\ Control("fail", nlseq').pid = Me
            /\ Control("fail", nlseq').seq = nlseq' /\ Control("fail", nlseq').type = "fail"
        BY <1>2, ControlTyped
      <4>3. as \in Seq(Datagrams) /\ AnswersTo(as, nlseq', "fail") /\ Len(as) = 1 /\ DOMAIN as = {1}
            /\ as[1].msgs[1].type = "fail" /\ as[1].from = Kernel /\ DOMAIN as[1].msgs = {1}
            /\ Len(as[1].msgs) = 1
        <5> DEFINE m == Control("fail", nlseq')
                   d == Datagram(Kernel, <<m>>)
        <5> HIDE DEF m
        <5>1. m \in Msgs /\ m.pid = Me /\ m.seq = nlseq' /\ m.type = "fail"
          BY <4>2 DEF m
        <5>2. d \in Datagrams /\ d.from = Kernel /\ d.msgs = <<m>> /\ Len(d.msgs) = 1 /\ d.msgs[1] = m
          BY <5>1, OneMessage
        <5>3. DOMAIN d.msgs = {1}
          <6>1. 1..1 = {1} /\ <<m>> \in Seq(Msgs) /\ Len(<<m>>) = 1
            BY <5>1
          <6> QED
            BY <5>2, <6>1, SeqElements
        <5>4. as = <<d>>
          BY DEF m
        <5> HIDE DEF d, as
        <5>5. as \in Seq(Datagrams) /\ Len(as) = 1 /\ as[1] = d /\ DOMAIN as = 1..1 /\ 1..1 = {1}
          BY <5>2, <5>4
        <5>6. AnswersTo(as, nlseq', "fail")
          BY <5>1, <5>2, <5>5 DEF AnswersTo
        <5> QED
          BY <5>1, <5>2, <5>3, <5>5, <5>6
      <4> HIDE DEF as
      <4>4. /\ sock' \in Socks /\ Len(sock'.q) <= QLen /\ Grown(sock.q, sock'.q)
            /\ sock'.groups = sock.groups /\ sock'.open = sock.open /\ sock'.sent = sock.sent
            /\ sock'.before = sock.before /\ sock'.dump = sock.dump
            /\ NumberedUpTo(sock'.q, sock.q, nlseq') /\ OnlyAnswers(sock'.q, as)
            /\ Fits(sock, Len(as)) => AllThere(sock'.q, sock.q, as)
        <5>1. nlseq' \in Nat /\ nlseq' <= nlseq' /\ (nlseq' = 0 \/ nlseq' = nlseq + 1)
          BY <1>2
        <5> QED
          BY <1>1, <4>1, <4>3, <5>1, Asked
      <4>5. DumpOK(sock.dump)'
        BY <1>1, <1>2, <4>4 DEF NumbersOK, DumpOK
      <4>6. ~MyDump(c, sock'.dump)
        BY <1>1, <2>2, <4>4, NewNumber
      <4>7. \A k, j \in Nat : MineAt(c, sock'.q, k, j) => sock'.q[k].msgs[j].type = "fail"
        BY <2>2, <4>3, <4>4 DEF OnlyAnswers
      <4>8. Flow(c, sock'.q, 0, sock'.dump)
        BY <2>1, <4>1, <4>6, <4>7, FlowStarts
      <4>9. c.lost \/ AnswerQueued(c, sock'.q)
        <5> SUFFICES ASSUME Fits(sock, 1)
                     PROVE  AnswerQueued(c, sock'.q)
          BY <2>1, <4>1
        <5>1. Len(sock.q) + 1 \in DOMAIN sock'.q /\ sock'.q[Len(sock.q) + 1] = as[1]
          BY <4>3, <4>4 DEF AllThere
        <5>2. MineAt(c, sock'.q, Len(sock.q) + 1, 1)
          BY <2>1, <4>3, <5>1 DEF MineAt, Mine, AnswersTo
        <5> QED
          BY <4>3, <5>1, <5>2 DEF AnswerQueued, Final
      <4> QED
        BY <3>1, <4>4, <4>5, <4>8, <4>9
    <3>2. CASE ~busy
      <4>1. sock' = [sock EXCEPT !.dump = whole] /\ verdict = "ack"
        BY <1>4, <3>2
      <4>2. whole \in Seq(Nat) /\ Len(whole) = NLinks + 1 /\ whole[1] = nlseq'
            /\ \A x \in 2..Len(whole) : whole[x] = x - 1
        <5> DEFINE z == [i \in 1..Len(links) |-> i]
        <5>1. Len(links) = NLinks /\ NLinks \in Nat
          BY <1>1, Interfaces
        <5>2. z \in Seq(Nat) /\ Len(z) = NLinks /\ \A i \in 1..NLinks : z[i] = i
          BY <5>1
        <5> HIDE DEF z
        <5> QED
          BY <1>2, <5>1, <5>2
      <4> HIDE DEF whole
      <4>3. /\ sock' \in Socks /\ sock'.q = sock.q /\ sock'.dump = whole
            /\ sock'.groups = sock.groups /\ sock'.open = sock.open /\ sock'.sent = sock.sent
            /\ sock'.before = sock.before
        BY <1>1, <4>1, <4>2 DEF Socks
      <4>4. whole # << >> /\ MyDump(c, sock'.dump)
        BY <2>1, <4>2, <4>3, Interfaces DEF MyDump
      <4>5. Grown(sock.q, sock'.q) /\ NumberedUpTo(sock'.q, sock.q, nlseq')
        BY <1>1, <4>3, SockTyped DEF Grown, NumberedUpTo
      <4>6. DumpOK(sock.dump)'
        <5>1. \A x \in 2..Len(whole) : whole[x] \in Indexes
          BY <4>2, Interfaces
        <5>2. \A x, y \in 2..Len(whole) : x < y => whole[x] < whole[y]
          BY <4>2, Interfaces
        <5>3. whole[1] \in Nat /\ whole[1] <= nlseq'
          BY <1>2, <4>2
        <5> QED
          BY <4>3, <5>1, <5>2, <5>3 DEF DumpOK
      <4>7. \A k, j \in Nat : ~MineAt(c, sock'.q, k, j)
        BY <1>1, <2>2, <4>3, NewNumber
      <4>8. Flow(c, sock'.q, 0, sock'.dump)
        BY <2>1, <4>1, <4>2, <4>3, <4>4, <4>7, FlowStarts
      <4> QED
        BY <1>1, <2>1, <4>1, <4>3, <4>4, <4>5, <4>6, <4>8
    <3> QED
      BY <3>1, <3>2
  <2> HIDE DEF c, verdict, lost, as, whole
  <2>4. NetTyped' /\ NumbersOK' /\ FreshSocket' /\ BeforeOK'
    <3>1. call' \in Calls /\ call'.seq <= nlseq'
      BY <1>2, <2>1 DEF c
    <3> QED
      BY <1>1, <1>2, <2>3, <3>1, RequestFrame
  <2>5. op \notin Talks
    BY DEF Talks, Dumps
  <2>6. ReadInv(c, sock', events')
    <3> SUFFICES ASSUME op = "readSock", events' = sock'.before[2]
                 PROVE  /\ Flow(c, sock'.q, 0, sock'.dump) /\ OwnOnly(c, sock'.q) /\ ~sock'.groups
                        /\ c.verdict = "ack"
                        /\ sock'.dump # << >> => MyDump(c, sock'.dump)
      BY <2>1 DEF ReadInv
    <3>1. ~sock.groups /\ nlseq = sock.before[1] /\ ~sock.sent
      BY DEF OwnSocket
    <3>2. sock.q = << >> /\ ~busy
      BY <1>1, <1>2, <2>3, <3>1 DEF FreshSocket
    <3>3. OwnOnly(c, sock'.q)
      BY <2>3, <3>2 DEF OwnOnly
    <3> QED
      BY <2>3, <3>1, <3>2, <3>3
  <2>7. AnswersBelong'
    BY <2>1, NewCallBelongs DEF c
  <2>8. TalkInv(call, sock.q, sock.dump)' /\ DumpInv(call, sock.q, sock.dump)' /\ ReadInv(call, sock, events)'
    BY <2>1, <2>3, <2>5, <2>6 DEF c, TalkInv, DumpInv
  <2>9. AnswerComes'
    BY <2>1, <2>3, <2>5 DEF c, AnswerComes, Coming
  <2> QED
    BY <2>4, <2>7, <2>8, <2>9 DEF NetlinkInv, CallInv
<1> QED
  BY <1>3, <1>4 DEF StartDump

\* A listener starts.
LEMMA ListenStarts ==
  ASSUME NetlinkInv, NEW op \in {"listen", "recv_reply"}, Listen(op)
  PROVE  NetlinkInv'
<1>1. NetTyped /\ NumbersOK /\ nlseq \in Nat /\ sock.open /\ sock \in Socks /\ Len(sock.q) <= QLen
  BY DEF NetlinkInv, NetTyped, Listen, Ready
<1>2. /\ nlseq' = nlseq /\ links' = links /\ events' = events /\ sock' = sock
      /\ call' = NewCall(op, nlseq, FALSE, FALSE, 0, "ack", FALSE)
  BY DEF Listen
<1>3. /\ call' \in Calls /\ call'.op = op /\ call'.seq = nlseq /\ call'.ret = "wait" /\ call'.got = << >>
  BY <1>1, <1>2 DEF NewCall, Calls
<1>4. Grown(sock.q, sock'.q) /\ NumberedUpTo(sock'.q, sock.q, nlseq') /\ DumpOK(sock.dump)'
  <2>1. Len(sock.q) \in Nat /\ Len(sock.q) <= Len(sock.q)
    BY <1>1, SockTyped
  <2>2. Grown(sock.q, sock'.q)
    BY <1>2, <2>1 DEF Grown
  <2>3. NumberedUpTo(sock'.q, sock.q, nlseq')
    BY <1>2 DEF NumberedUpTo
  <2>4. DumpOK(sock.dump)
    BY <1>1 DEF NumbersOK
  <2>5. DumpOK(sock.dump)'
    BY <1>2, <2>4 DEF DumpOK
  <2> QED
    BY <2>2, <2>3, <2>5
<1>5. NetTyped' /\ NumbersOK' /\ FreshSocket' /\ BeforeOK'
  <2>4. nlseq' = nlseq /\ nlseq \in Nat
    BY <1>1, <1>2
  <2>1. nlseq' \in Nat /\ nlseq <= nlseq' /\ call' \in Calls /\ call'.seq <= nlseq'
    BY <1>3, <2>4
  <2>2. links' = links /\ events' = events
    BY <1>2
  <2>3. /\ sock' \in Socks /\ Len(sock'.q) <= QLen /\ sock'.groups = sock.groups /\ sock'.open = sock.open
        /\ sock'.sent = sock.sent /\ sock'.before = sock.before /\ sock'.q = sock.q /\ sock'.dump = sock.dump
    BY <1>1, <1>2
  <2>5. sock' = sock
    BY <1>2
  <2> QED
    BY <1>1, <1>4, <2>1, <2>2, <2>3, <2>5, RequestFrame
<1>6. AnswersBelong'
  BY <1>3, NewCallBelongs
<1>7. op \notin Talks /\ op \notin Dumps /\ op # "readSock"
  BY DEF Talks, Dumps
<1> QED
  BY <1>3, <1>5, <1>6, <1>7 DEF NetlinkInv, CallInv, TalkInv, DumpInv, ReadInv, AnswerComes, Waits

-----------------------------------------------------------------------------
(* One message.                                                            *)

Entries == [index : Indexes, name : LinkNames, flags : Nat]
LlSet == [idxmap : [0..(LlBuckets - 1) -> Seq(Entries)], icache : Nat, ncache : LinkNames \cup {NoName}]
\* The call, the map and what the map was told.
Reads == [call : Calls, ll : LlSet, told : Seq(LinkMsgs)]

\* What stays of a call while it reads.
SameCall(c, d) ==
  /\ c \in Calls /\ d \in Calls /\ d.op = c.op /\ d.seq = c.seq /\ d.answer = c.answer
  /\ d.verdict = c.verdict /\ d.lost = c.lost /\ d.cut = c.cut
SameMap(p, v) == v.ll = p.ll /\ v.told = p.told
ToldMap(p, v, m) == m.type = "link" /\ v.ll = ll_remember_index(p.ll, m) /\ v.told = Append(p.told, m)

\* A message is handed to the caller.
LEMMA HandFields ==
  ASSUME NEW p \in Reads, NEW m \in Msgs
  PROVE  LET v == Hand(p, m)
         IN  /\ v \in Reads /\ SameCall(p.call, v.call) /\ SameMap(p, v)
             /\ v.call.ret = p.call.ret /\ v.call.got = Append(p.call.got, m)
<1> DEFINE c == p.call
           d == [op |-> c.op, seq |-> c.seq, answer |-> c.answer, junk |-> c.junk, stop |-> c.stop,
                 verdict |-> c.verdict, ret |-> c.ret, got |-> Append(c.got, m), lost |-> c.lost, cut |-> c.cut]
           v == Hand(p, m)
<1>1. c \in Calls /\ p = [call |-> c, ll |-> p.ll, told |-> p.told] /\ p.ll \in LlSet /\ p.told \in Seq(LinkMsgs)
  BY DEF Reads
<1>2. c = [op |-> c.op, seq |-> c.seq, answer |-> c.answer, junk |-> c.junk, stop |-> c.stop,
           verdict |-> c.verdict, ret |-> c.ret, got |-> c.got, lost |-> c.lost, cut |-> c.cut]
      /\ c.got \in Seq(Msgs)
  BY <1>1 DEF Calls
<1>3. [c EXCEPT !.got = Append(c.got, m)] = d
  <2> DEFINE g == Append(c.got, m)
  <2> HIDE DEF g, c
  <2> QED
    BY <1>2
<1>4. v = [call |-> d, ll |-> p.ll, told |-> p.told]
  <2>1. v = [p EXCEPT !.call = [c EXCEPT !.got = Append(c.got, m)]]
    BY DEF Hand
  <2>2. v = [p EXCEPT !.call = d]
    BY <1>3, <2>1
  <2> HIDE DEF d, v, c
  <2> QED
    BY <1>1, <2>2
<1>5. d \in Calls /\ d.op = c.op /\ d.seq = c.seq /\ d.answer = c.answer /\ d.verdict = c.verdict /\ d.ret = c.ret
      /\ d.got = Append(c.got, m) /\ d.lost = c.lost /\ d.cut = c.cut
  <2>1. Append(c.got, m) \in Seq(Msgs)
    BY <1>2
  <2> DEFINE g == Append(c.got, m)
  <2> HIDE DEF g, c
  <2> QED
    BY <1>1, <2>1 DEF Calls, g
<1> HIDE DEF d, v
<1> QED
  BY <1>1, <1>4, <1>5 DEF SameCall, SameMap, Reads, v

\* The call returns.
LEMMA ReturnFields ==
  ASSUME NEW p \in Reads, NEW ret \in {"ok", "error", "junk", "filter"}
  PROVE  LET v == Return(p, ret)
         IN  /\ v \in Reads /\ SameCall(p.call, v.call) /\ SameMap(p, v)
             /\ v.call.ret = ret /\ v.call.got = p.call.got
<1> DEFINE c == p.call
           d == [op |-> c.op, seq |-> c.seq, answer |-> c.answer, junk |-> c.junk, stop |-> c.stop,
                 verdict |-> c.verdict, ret |-> ret, got |-> c.got, lost |-> c.lost, cut |-> c.cut]
           v == Return(p, ret)
<1>1. c \in Calls /\ p = [call |-> c, ll |-> p.ll, told |-> p.told] /\ p.ll \in LlSet /\ p.told \in Seq(LinkMsgs)
  BY DEF Reads
<1>2. c = [op |-> c.op, seq |-> c.seq, answer |-> c.answer, junk |-> c.junk, stop |-> c.stop,
           verdict |-> c.verdict, ret |-> c.ret, got |-> c.got, lost |-> c.lost, cut |-> c.cut]
  BY <1>1 DEF Calls
<1>3. [c EXCEPT !.ret = ret] = d
  <2> HIDE DEF c
  <2> QED
    BY <1>2
<1>4. v = [call |-> d, ll |-> p.ll, told |-> p.told]
  <2>1. v = [p EXCEPT !.call = [c EXCEPT !.ret = ret]]
    BY DEF Return
  <2>2. v = [p EXCEPT !.call = d]
    BY <1>3, <2>1
  <2> HIDE DEF d, v, c
  <2> QED
    BY <1>1, <2>2
<1>5. d \in Calls /\ d.op = c.op /\ d.seq = c.seq /\ d.answer = c.answer /\ d.verdict = c.verdict /\ d.ret = ret
      /\ d.got = c.got /\ d.lost = c.lost /\ d.cut = c.cut
  <2> HIDE DEF c
  <2> QED
    BY <1>1 DEF Calls
<1> HIDE DEF d, v
<1> QED
  BY <1>1, <1>4, <1>5 DEF SameCall, SameMap, Reads, v

\* The map stays one.
LEMMA RememberTyped ==
  ASSUME NEW m \in LinkMsgs, NEW l \in LlSet
  PROVE  ll_remember_index(l, m) \in LlSet
<1> DEFINE e == [index |-> m.idx, name |-> m.name, flags |-> m.flags]
           h == m.idx % LlBuckets
           ch == l.idxmap[h]
           new == IF At(l, m.idx) = {} THEN Append(ch, e)
                  ELSE [i \in DOMAIN ch |-> IF ch[i].index = m.idx THEN e ELSE ch[i]]
           w == ll_remember_index(l, m)
<1>1. CASE m.name = NoName
  BY <1>1 DEF ll_remember_index
<1>2. CASE m.name # NoName
  <2>1. e \in Entries
    BY <1>2 DEF LinkMsgs, Entries
  <2>2. h \in 0..(LlBuckets - 1)
    BY Interfaces, SizesAssumption DEF LinkMsgs
  <2>3. ch \in Seq(Entries)
    BY <2>2 DEF LlSet
  <2> HIDE DEF e, h, ch
  <2>4. new \in Seq(Entries)
    <3>1. CASE At(l, m.idx) = {}
      BY <2>1, <2>3, <3>1
    <3>2. CASE At(l, m.idx) # {}
      <4>1. new = [i \in 1..Len(ch) |-> IF ch[i].index = m.idx THEN e ELSE ch[i]]
        BY <2>3, <3>2
      <4>2. Len(ch) \in Nat /\ \A i \in 1..Len(ch) : (IF ch[i].index = m.idx THEN e ELSE ch[i]) \in Entries
        BY <2>1, <2>3
      <4> HIDE DEF new
      <4> QED
        BY <4>1, <4>2
    <3> QED
      BY <3>1, <3>2
  <2>5. w = [l EXCEPT !.idxmap[h] = new]
    BY <1>2 DEF ll_remember_index, h, e, ch
  <2> HIDE DEF new, w
  <2>6. l = [idxmap |-> l.idxmap, icache |-> l.icache, ncache |-> l.ncache]
    BY DEF LlSet
  <2>7. w = [idxmap |-> [l.idxmap EXCEPT ![h] = new], icache |-> l.icache, ncache |-> l.ncache]
    BY <2>5, <2>6
  <2>8. [l.idxmap EXCEPT ![h] = new] \in [0..(LlBuckets - 1) -> Seq(Entries)]
    BY <2>4 DEF LlSet
  <2> QED
    BY <2>7, <2>8 DEF LlSet, w
<1> QED
  BY <1>1, <1>2

\* A link is handed to the map.
LEMMA HandToMapFields ==
  ASSUME NEW p \in Reads, NEW m \in LinkMsgs
  PROVE  LET v == HandToMap(p, m)
         IN  /\ v \in Reads /\ SameCall(p.call, v.call) /\ ToldMap(p, v, m)
             /\ v.call.ret = p.call.ret /\ v.call.got = Append(p.call.got, m)
<1> DEFINE u == Hand(p, m)
           v == HandToMap(p, m)
           l == ll_remember_index(p.ll, m)
<1>1. m \in Msgs /\ m.type = "link"
  BY MessageTypes DEF LinkMsgs
<1>2. /\ u \in Reads /\ SameCall(p.call, u.call) /\ SameMap(p, u)
      /\ u.call.ret = p.call.ret /\ u.call.got = Append(p.call.got, m)
  BY <1>1, HandFields
<1>3. v = [u EXCEPT !.ll = ll_remember_index(u.ll, m), !.told = Append(u.told, m)]
  BY DEF HandToMap
<1> HIDE DEF u, v
<1>4. u = [call |-> u.call, ll |-> u.ll, told |-> u.told] /\ u.call \in Calls /\ p.ll \in LlSet /\ p.told \in Seq(LinkMsgs)
  BY <1>2 DEF Reads
<1>5. l \in LlSet /\ Append(p.told, m) \in Seq(LinkMsgs)
  BY <1>4, RememberTyped
<1>6. v = [u EXCEPT !.ll = l, !.told = Append(p.told, m)]
  BY <1>2, <1>3 DEF SameMap
<1> DEFINE t == Append(p.told, m)
<1> HIDE DEF l, t
<1>7. v = [call |-> u.call, ll |-> l, told |-> t]
  BY <1>4, <1>6 DEF t
<1>8. v \in Reads /\ v.call = u.call /\ v.ll = l /\ v.told = t
  BY <1>4, <1>5, <1>7 DEF Reads, t
<1> QED
  BY <1>1, <1>2, <1>8 DEF ToldMap, l, t, v

Silent(c, d) == d.ret = "wait" /\ d.got = c.got
\* What one message makes of a call of rtnl_talk, and of one of rtnl_dump_filter.
TalkStep(c, d, mine, m) ==
  \/ d.ret = "junk"
  \/ ~mine /\ Silent(c, d)
  \/ mine /\ m.type = "fail" /\ d.ret = "error"
  \/ mine /\ m.type = "ack" /\ d.ret = "ok" /\ (c.answer => d.got = Append(c.got, m))
  \/ mine /\ m.type \notin {"fail", "ack"} /\ c.answer /\ d.ret = "ok" /\ d.got = Append(c.got, m)
  \/ mine /\ m.type \notin {"fail", "ack"} /\ ~c.answer /\ Silent(c, d)
DumpStep(c, d, mine, m) ==
  \/ d.ret \in {"junk", "filter"} /\ d.got = c.got
  \/ ~mine /\ Silent(c, d)
  \/ mine /\ m.type = "done" /\ d.ret = "ok" /\ d.got = c.got
  \/ mine /\ m.type \in {"fail", "ack"} /\ d.ret = "error" /\ d.got = c.got
  \/ mine /\ m.type = "link" /\ d.ret = "wait" /\ d.got = Append(c.got, m)
ReadStep(c, d, from, m) ==
  /\ SameCall(c, d)
  /\ c.op \in Talks => TalkStep(c, d, Mine(c, from, m), m)
  /\ c.op \in Dumps => DumpStep(c, d, Mine(c, from, m), m)

\* A message that is not the call's.
LEMMA JunkRead ==
  ASSUME NEW p \in Reads, p.call.ret = "wait"
  PROVE  LET v == Junk(p)
         IN  /\ v \in Reads /\ SameCall(p.call, v.call) /\ SameMap(p, v) /\ v.call.got = p.call.got
             /\ v.call.ret \in {"junk", "wait"}
<1>1. CASE p.call.junk
  <2>1. Junk(p) = Return(p, "junk")
    BY <1>1 DEF Junk
  <2> QED
    BY <2>1, ReturnFields
<1>2. CASE ~p.call.junk
  <2>1. Junk(p) = p /\ p.call \in Calls
    BY <1>2 DEF Junk, Reads
  <2> QED
    BY <2>1 DEF SameCall, SameMap
<1> QED
  BY <1>1, <1>2

\* A message read by rtnl_talk.
LEMMA TalkRead ==
  ASSUME NEW p \in Reads, p.call.ret = "wait", NEW m \in Msgs, NEW from
  PROVE  LET v == rtnl_talk_message(p, from, m)
         IN  /\ v \in Reads /\ SameCall(p.call, v.call) /\ SameMap(p, v)
             /\ TalkStep(p.call, v.call, Mine(p.call, from, m), m)
<1> DEFINE mine == Mine(p.call, from, m)
           c == p.call
           v == rtnl_talk_message(p, from, m)
<1>1. m.type \in {"link", "done", "ack", "fail"} /\ c \in Calls
  BY MessageTypes DEF Reads
<1>2. CASE ~mine
  <2>1. v = Junk(p)
    BY <1>2 DEF rtnl_talk_message
  <2> HIDE DEF mine
  <2>2. v \in Reads /\ SameCall(c, v.call) /\ SameMap(p, v) /\ v.call.got = c.got /\ v.call.ret \in {"junk", "wait"}
    BY <2>1, JunkRead
  <2> HIDE DEF v
  <2>3. TalkStep(c, v.call, mine, m)
    BY <1>2, <2>2 DEF TalkStep, Silent
  <2> QED
    BY <2>2, <2>3 DEF mine, v
<1>3. CASE mine /\ m.type = "fail"
  <2>1. v = Return(p, "error")
    BY <1>3 DEF rtnl_talk_message
  <2> HIDE DEF mine
  <2>2. v \in Reads /\ SameCall(c, v.call) /\ SameMap(p, v) /\ v.call.ret = "error"
    BY <2>1, ReturnFields
  <2> HIDE DEF v
  <2>3. TalkStep(c, v.call, mine, m)
    BY <1>3, <2>2 DEF TalkStep
  <2> QED
    BY <2>2, <2>3 DEF mine, v
<1>4. CASE mine /\ m.type = "ack" /\ ~c.answer
  <2>1. v = Return(p, "ok")
    BY <1>4 DEF rtnl_talk_message
  <2> HIDE DEF mine
  <2>2. v \in Reads /\ SameCall(c, v.call) /\ SameMap(p, v) /\ v.call.ret = "ok"
    BY <2>1, ReturnFields
  <2> HIDE DEF v
  <2>3. TalkStep(c, v.call, mine, m)
    BY <1>4, <2>2 DEF TalkStep
  <2> QED
    BY <2>2, <2>3 DEF mine, v
<1>5. CASE mine /\ m.type # "fail" /\ c.answer
  <2>1. v = Return(Hand(p, m), "ok")
    BY <1>1, <1>5 DEF rtnl_talk_message
  <2> HIDE DEF mine
  <2> DEFINE u == Hand(p, m)
  <2>2. /\ u \in Reads /\ SameCall(c, u.call) /\ SameMap(p, u)
        /\ u.call.ret = c.ret /\ u.call.got = Append(c.got, m)
    BY HandFields
  <2> HIDE DEF u
  <2>3. v \in Reads /\ SameCall(u.call, v.call) /\ SameMap(u, v) /\ v.call.ret = "ok" /\ v.call.got = u.call.got
    <3>1. v = Return(u, "ok")
      BY <2>1 DEF u
    <3> QED
      BY <2>2, <3>1, ReturnFields
  <2> HIDE DEF v
  <2>4. TalkStep(c, v.call, mine, m)
    BY <1>1, <1>5, <2>2, <2>3 DEF TalkStep
  <2>5. SameCall(c, v.call) /\ SameMap(p, v)
    BY <2>2, <2>3 DEF SameCall, SameMap
  <2> QED
    BY <2>3, <2>4, <2>5 DEF mine, v
<1>6. CASE mine /\ m.type \notin {"fail", "ack"} /\ ~c.answer
  <2>1. v = p
    BY <1>6 DEF rtnl_talk_message
  <2> HIDE DEF mine
  <2> HIDE DEF v
  <2>3. TalkStep(c, v.call, mine, m)
    BY <1>6, <2>1 DEF TalkStep, Silent
  <2> QED
    BY <1>1, <2>1, <2>3 DEF mine, v, SameCall, SameMap
<1> QED
  BY <1>1, <1>2, <1>3, <1>4, <1>5, <1>6

\* A message read by rtnl_dump_filter.
LEMMA DumpRead ==
  ASSUME NEW p \in Reads, p.call.ret = "wait", NEW m \in Msgs, NEW from
  PROVE  LET v == rtnl_dump_filter_message(p, from, m)
         IN  /\ v \in Reads /\ SameCall(p.call, v.call) /\ (SameMap(p, v) \/ ToldMap(p, v, m))
             /\ DumpStep(p.call, v.call, Mine(p.call, from, m), m)
<1> DEFINE mine == Mine(p.call, from, m)
           c == p.call
           v == rtnl_dump_filter_message(p, from, m)
<1>1. m.type \in {"link", "done", "ack", "fail"} /\ c \in Calls /\ (m.type = "link" => m \in LinkMsgs)
  BY MessageTypes DEF Reads
<1>2. CASE ~mine
  <2>1. v = Junk(p)
    BY <1>2 DEF rtnl_dump_filter_message
  <2> HIDE DEF mine
  <2>2. v \in Reads /\ SameCall(c, v.call) /\ SameMap(p, v) /\ v.call.got = c.got /\ v.call.ret \in {"junk", "wait"}
    BY <2>1, JunkRead
  <2> HIDE DEF v
  <2>3. DumpStep(c, v.call, mine, m)
    BY <1>2, <2>2 DEF DumpStep, Silent
  <2> QED
    BY <2>2, <2>3 DEF mine, v
<1>3. CASE mine /\ m.type = "done"
  <2>1. v = Return(p, "ok")
    BY <1>3 DEF rtnl_dump_filter_message
  <2> HIDE DEF mine
  <2>2. v \in Reads /\ SameCall(c, v.call) /\ SameMap(p, v) /\ v.call.ret = "ok" /\ v.call.got = c.got
    BY <2>1, ReturnFields
  <2> HIDE DEF v
  <2>3. DumpStep(c, v.call, mine, m)
    BY <1>3, <2>2 DEF DumpStep
  <2> QED
    BY <2>2, <2>3 DEF mine, v
<1>4. CASE mine /\ m.type \in {"fail", "ack"}
  <2>1. v = Return(p, "error")
    BY <1>4 DEF rtnl_dump_filter_message
  <2> HIDE DEF mine
  <2>2. v \in Reads /\ SameCall(c, v.call) /\ SameMap(p, v) /\ v.call.ret = "error" /\ v.call.got = c.got
    BY <2>1, ReturnFields
  <2> HIDE DEF v
  <2>3. DumpStep(c, v.call, mine, m)
    BY <1>4, <2>2 DEF DumpStep
  <2> QED
    BY <2>2, <2>3 DEF mine, v
<1>5. CASE mine /\ m.type = "link" /\ c.op = "ll_init_map"
  <2>1. v = HandToMap(p, m)
    BY <1>5 DEF rtnl_dump_filter_message
  <2> HIDE DEF mine
  <2>2. v \in Reads /\ SameCall(c, v.call) /\ ToldMap(p, v, m) /\ v.call.ret = "wait" /\ v.call.got = Append(c.got, m)
    BY <1>1, <1>5, <2>1, HandToMapFields
  <2> HIDE DEF v
  <2>3. DumpStep(c, v.call, mine, m)
    BY <1>5, <2>2 DEF DumpStep
  <2> QED
    BY <2>2, <2>3 DEF mine, v
<1>6. CASE mine /\ m.type = "link" /\ c.op # "ll_init_map" /\ m.idx = c.stop
  <2>1. v = Return(p, "filter")
    BY <1>6 DEF rtnl_dump_filter_message
  <2> HIDE DEF mine
  <2>2. v \in Reads /\ SameCall(c, v.call) /\ SameMap(p, v) /\ v.call.ret = "filter" /\ v.call.got = c.got
    BY <2>1, ReturnFields
  <2> HIDE DEF v
  <2>3. DumpStep(c, v.call, mine, m)
    BY <1>6, <2>2 DEF DumpStep
  <2> QED
    BY <2>2, <2>3 DEF mine, v
<1>7. CASE mine /\ m.type = "link" /\ c.op # "ll_init_map" /\ m.idx # c.stop
  <2>1. v = Hand(p, m)
    BY <1>7 DEF rtnl_dump_filter_message
  <2> HIDE DEF mine
  <2>2. v \in Reads /\ SameCall(c, v.call) /\ SameMap(p, v) /\ v.call.ret = "wait" /\ v.call.got = Append(c.got, m)
    BY <2>1, HandFields
  <2> HIDE DEF v
  <2>3. DumpStep(c, v.call, mine, m)
    BY <1>7, <2>2 DEF DumpStep
  <2> QED
    BY <2>2, <2>3 DEF mine, v
<1> QED
  BY <1>1, <1>2, <1>3, <1>4, <1>5, <1>6, <1>7

LibraryCalls == Talks \cup Dumps \cup {"listen"}

\* A message read by any call of the library.
LEMMA MessageRead ==
  ASSUME NEW p \in Reads, p.call.op \in LibraryCalls, NEW m \in Msgs, NEW from
  PROVE  LET v == Message(p, from, m)
         IN  /\ v \in Reads /\ SameCall(p.call, v.call) /\ (SameMap(p, v) \/ ToldMap(p, v, m))
             /\ p.call.ret # "wait" => v = p
             /\ p.call.ret = "wait" => ReadStep(p.call, v.call, from, m)
<1> DEFINE v == Message(p, from, m)
           c == p.call
           Holds == v \in Reads /\ SameCall(c, v.call) /\ (SameMap(p, v) \/ ToldMap(p, v, m))
<1>1. m.type = "link" => m \in LinkMsgs
  BY MessageTypes
<1>2. c \in Calls /\ Talks \cap Dumps = {} /\ "listen" \notin Talks /\ "listen" \notin Dumps
  BY DEF Reads, Talks, Dumps
<1>3. CASE c.ret # "wait"
  BY <1>2, <1>3 DEF Message, SameCall, SameMap
<1>4. CASE c.ret = "wait" /\ c.op \in Talks
  <2>1. v = rtnl_talk_message(p, from, m)
    BY <1>4 DEF Message, Talks
  <2>2. Holds /\ TalkStep(c, v.call, Mine(c, from, m), m)
    BY <1>4, <2>1, TalkRead
  <2> HIDE DEF v
  <2>3. ReadStep(c, v.call, from, m)
    BY <1>2, <1>4, <2>2 DEF ReadStep
  <2> QED
    BY <1>4, <2>2, <2>3 DEF v
<1>5. CASE c.ret = "wait" /\ c.op \in Dumps
  <2>1. v = rtnl_dump_filter_message(p, from, m)
    BY <1>5 DEF Message, Dumps
  <2>2. Holds /\ DumpStep(c, v.call, Mine(c, from, m), m)
    BY <1>5, <2>1, DumpRead
  <2> HIDE DEF v
  <2>3. ReadStep(c, v.call, from, m)
    BY <1>2, <1>5, <2>2 DEF ReadStep
  <2> QED
    BY <1>5, <2>2, <2>3 DEF v
<1>6. CASE c.ret = "wait" /\ c.op = "listen"
  <2>1. v = rtnl_listen_message(p, from, m)
    BY <1>6 DEF Message
  <2>2. Holds
    <3>1. CASE m.type = "link"
      BY <1>1, <2>1, <3>1, HandToMapFields DEF rtnl_listen_message
    <3>2. CASE m.type # "link"
      BY <1>2, <2>1, <3>2 DEF rtnl_listen_message, SameCall, SameMap
    <3> QED
      BY <3>1, <3>2
  <2> HIDE DEF v
  <2>3. ReadStep(c, v.call, from, m)
    BY <1>2, <1>6, <2>2 DEF ReadStep
  <2> QED
    BY <1>6, <2>2, <2>3 DEF v
<1> QED
  BY <1>3, <1>4, <1>5, <1>6 DEF LibraryCalls

-----------------------------------------------------------------------------
(* The map.                                                                *)

Hashes == 0..(LlBuckets - 1)
EntryOf(m) == [index |-> m.idx, name |-> m.name, flags |-> m.flags]
\* An entry is in the chain of its index, and alone there.
Chained(l) ==
  \A h \in Hashes : \A x \in DOMAIN l.idxmap[h] :
    /\ l.idxmap[h][x].index % LlBuckets = h
    /\ \A y \in DOMAIN l.idxmap[h] : l.idxmap[h][y].index = l.idxmap[h][x].index => y = x
\* Nothing told later has a name and the index of what was told k-th.
LastTold(t, k) == \A j \in DOMAIN t : j > k /\ t[j].idx = t[k].idx => t[j].name = NoName
HoldsNewest(l, t) ==
  \A h \in Hashes : \A x \in DOMAIN l.idxmap[h] :
    \E k \in DOMAIN t : EntryOf(t[k]) = l.idxmap[h][x] /\ LastTold(t, k)
HoldsAll(l, t) ==
  \A k \in DOMAIN t : t[k].name # NoName =>
    \E x \in DOMAIN l.idxmap[t[k].idx % LlBuckets] : l.idxmap[t[k].idx % LlBuckets][x].index = t[k].idx
CacheTold(l, t) ==
  l.icache # 0 => \E k \in DOMAIN t : t[k].name = l.ncache /\ t[k].idx = l.icache
MapInv(l, t) ==
  l \in LlSet /\ t \in Seq(LinkMsgs) /\ Chained(l) /\ HoldsNewest(l, t) /\ HoldsAll(l, t) /\ CacheTold(l, t)

\* The new entry replaces the one of its index or comes last; the others stay.
Remembered(l, w, h0, e) ==
  /\ w.icache = l.icache /\ w.ncache = l.ncache
  /\ \A h \in Hashes : \A x \in DOMAIN w.idxmap[h] :
       \/ h = h0 /\ w.idxmap[h][x] = e
       \/ x \in DOMAIN l.idxmap[h] /\ w.idxmap[h][x] = l.idxmap[h][x] /\ l.idxmap[h][x].index # e.index
  /\ \A h \in Hashes : \A x \in DOMAIN l.idxmap[h] :
       x \in DOMAIN w.idxmap[h] /\ w.idxmap[h][x].index = l.idxmap[h][x].index
  /\ \E x \in DOMAIN w.idxmap[h0] : w.idxmap[h0][x] = e
  /\ \A h \in Hashes : \A x, y \in DOMAIN w.idxmap[h] : w.idxmap[h][y].index = w.idxmap[h][x].index => y = x

\* What ll_remember_index changes.
LEMMA RememberShape ==
  ASSUME NEW l \in LlSet, Chained(l), NEW m \in LinkMsgs, m.name # NoName
  PROVE  /\ m.idx % LlBuckets \in Hashes
         /\ Remembered(l, ll_remember_index(l, m), m.idx % LlBuckets, EntryOf(m))
<1> DEFINE e == EntryOf(m)
           h0 == m.idx % LlBuckets
           ch == l.idxmap[h0]
           new == IF At(l, m.idx) = {} THEN Append(ch, e)
                  ELSE [i \in DOMAIN ch |-> IF ch[i].index = m.idx THEN e ELSE ch[i]]
           w == ll_remember_index(l, m)
<1>1. h0 \in Hashes /\ e.index = m.idx
  BY Interfaces, SizesAssumption DEF LinkMsgs, Hashes, EntryOf
<1>2. ch \in Seq(Entries) /\ \A h \in Hashes : l.idxmap[h] \in Seq(Entries)
  BY <1>1 DEF LlSet, Hashes
<1>3. At(l, m.idx) = {i \in 1..Len(ch) : ch[i].index = m.idx}
  BY DEF At, Chain
<1>4. w = [l EXCEPT !.idxmap[h0] = new]
  BY DEF ll_remember_index, EntryOf
<1> HIDE DEF e, ch, w
<1>5. CASE At(l, m.idx) = {}
  <2>1. new = Append(ch, e)
    BY <1>5
  <2> HIDE DEF new
  <2>2. /\ DOMAIN ch = 1..Len(ch) /\ DOMAIN new = 1..(Len(ch) + 1) /\ Len(ch) \in Nat
        /\ \A x \in 1..Len(ch) : new[x] = ch[x] /\ ch[x].index # m.idx
        /\ new[Len(ch) + 1] = e
    BY <1>2, <1>3, <1>5, <2>1
  <2>3. /\ \A x \in DOMAIN new : new[x] = e \/ (x \in DOMAIN ch /\ new[x] = ch[x] /\ ch[x].index # e.index)
        /\ \A x \in DOMAIN ch : x \in DOMAIN new /\ new[x].index = ch[x].index
        /\ \E x \in DOMAIN new : new[x] = e
    <3>1. \A x \in DOMAIN new : x \in DOMAIN ch \/ x = Len(ch) + 1
      BY <2>2
    <3>2. \A x \in DOMAIN ch : x \in DOMAIN new
      BY <2>2
    <3>3. Len(ch) + 1 \in DOMAIN new
      BY <2>2
    <3> QED
      BY <1>1, <2>2, <3>1, <3>2, <3>3
  <2>4. \A x, y \in DOMAIN new : new[y].index = new[x].index => y = x
    <3> SUFFICES ASSUME NEW x \in DOMAIN new, NEW y \in DOMAIN new, new[y].index = new[x].index
                 PROVE  y = x
      OBVIOUS
    <3>1. CASE x \in 1..Len(ch) /\ y \in 1..Len(ch)
      BY <1>1, <2>2, <3>1 DEF Chained, ch
    <3>2. CASE ~(x \in 1..Len(ch) /\ y \in 1..Len(ch))
      <4>1. (x \in 1..Len(ch) \/ x = Len(ch) + 1) /\ (y \in 1..Len(ch) \/ y = Len(ch) + 1)
        BY <2>2
      <4> QED
        BY <1>1, <2>2, <3>2, <4>1
    <3> QED
      BY <3>1, <3>2
  <2>5. \A h \in Hashes : w.idxmap[h] = IF h = h0 THEN new ELSE l.idxmap[h]
    BY <1>1, <1>4 DEF LlSet, Hashes
  <2>6. w.icache = l.icache /\ w.ncache = l.ncache
    BY <1>4 DEF LlSet
  <2>7. \A h \in Hashes : h # h0 => \A x \in DOMAIN l.idxmap[h] : l.idxmap[h][x].index # e.index
    BY <1>1 DEF Chained
  <2>8. \A h \in Hashes : \A x, y \in DOMAIN l.idxmap[h] : l.idxmap[h][y].index = l.idxmap[h][x].index => y = x
    BY DEF Chained
  <2> HIDE DEF h0
  <2>9. Remembered(l, w, h0, e)
    BY <1>1, <2>3, <2>4, <2>5, <2>6, <2>7, <2>8 DEF Remembered, ch
  <2> QED
    BY <1>1, <2>9 DEF w, e, h0
<1>6. CASE At(l, m.idx) # {}
  <2>1. new = [i \in DOMAIN ch |-> IF ch[i].index = m.idx THEN e ELSE ch[i]]
    BY <1>6
  <2> HIDE DEF new
  <2>2. PICK z \in DOMAIN ch : ch[z].index = m.idx
    BY <1>2, <1>3, <1>6
  <2>3. DOMAIN new = DOMAIN ch /\ \A x \in DOMAIN ch : new[x] = IF ch[x].index = m.idx THEN e ELSE ch[x]
    BY <2>1
  <2>4. \A x \in DOMAIN ch : new[x].index = ch[x].index
    BY <1>1, <2>3
  <2>5. \A x, y \in DOMAIN new : new[y].index = new[x].index => y = x
    BY <1>1, <2>3, <2>4 DEF Chained, ch
  <2>6. \A h \in Hashes : w.idxmap[h] = IF h = h0 THEN new ELSE l.idxmap[h]
    BY <1>1, <1>4 DEF LlSet, Hashes
  <2>7. w.icache = l.icache /\ w.ncache = l.ncache
    BY <1>4 DEF LlSet
  <2>8. \A h \in Hashes : h # h0 => \A x \in DOMAIN l.idxmap[h] : l.idxmap[h][x].index # e.index
    BY <1>1 DEF Chained
  <2>9. \A h \in Hashes : \A x, y \in DOMAIN l.idxmap[h] : l.idxmap[h][y].index = l.idxmap[h][x].index => y = x
    BY DEF Chained
  <2> HIDE DEF h0
  <2>10. Remembered(l, w, h0, e)
    BY <1>1, <2>2, <2>3, <2>4, <2>5, <2>6, <2>7, <2>8, <2>9 DEF Remembered, ch
  <2> QED
    BY <1>1, <2>10 DEF w, e, h0
<1> QED
  BY <1>5, <1>6

\* A sequence and one element more.
LEMMA AppendOne ==
  ASSUME NEW S, NEW t \in Seq(S), NEW m \in S
  PROVE  LET u == Append(t, m)
         IN  /\ u \in Seq(S) /\ Len(t) \in Nat /\ DOMAIN u = DOMAIN t \cup {Len(t) + 1}
             /\ u[Len(t) + 1] = m /\ DOMAIN t \subseteq 1..Len(t)
             /\ \A k \in DOMAIN t : u[k] = t[k] /\ k < Len(t) + 1
<1> DEFINE u == Append(t, m)
<1>1. u \in Seq(S) /\ DOMAIN u = 1..(Len(t) + 1) /\ DOMAIN t = 1..Len(t) /\ Len(t) \in Nat
      /\ u[Len(t) + 1] = m /\ \A k \in 1..Len(t) : u[k] = t[k]
  OBVIOUS
<1> HIDE DEF u
<1>2. \A n \in Nat : 1..(n + 1) = (1..n) \cup {n + 1} /\ \A k \in 1..n : k < n + 1
  OBVIOUS
<1>3. DOMAIN u = DOMAIN t \cup {Len(t) + 1} /\ \A k \in DOMAIN t : k < Len(t) + 1
  BY <1>1, <1>2
<1> QED
  BY <1>1, <1>3 DEF u

\* The map stays what was last said of each interface.
LEMMA RememberKept ==
  ASSUME NEW l, NEW t, MapInv(l, t), NEW m \in LinkMsgs
  PROVE  MapInv(ll_remember_index(l, m), Append(t, m))
<1> DEFINE w == ll_remember_index(l, m)
           u == Append(t, m)
           n == Len(t) + 1
           e == EntryOf(m)
           h0 == m.idx % LlBuckets
<1>1. l \in LlSet /\ t \in Seq(LinkMsgs) /\ Chained(l) /\ HoldsNewest(l, t) /\ HoldsAll(l, t) /\ CacheTold(l, t)
  BY DEF MapInv
<1>2. /\ u \in Seq(LinkMsgs) /\ DOMAIN u = DOMAIN t \cup {n} /\ u[n] = m
      /\ \A k \in DOMAIN t : u[k] = t[k] /\ k < n /\ k \in Nat
  BY <1>1, AppendOne
<1>3. w \in LlSet
  BY <1>1, RememberTyped
<1>4. n \in Nat /\ ~(n > n)
  BY <1>1
<1> HIDE DEF n, u, w
<1>5. ASSUME NEW k \in DOMAIN t, LastTold(t, k), m.idx # t[k].idx \/ m.name = NoName
      PROVE  k \in DOMAIN u /\ u[k] = t[k] /\ LastTold(u, k)
  BY <1>2, <1>5 DEF LastTold
<1>6. CacheTold(w, u)
  <2>1. w.icache = l.icache /\ w.ncache = l.ncache
    <3>1. CASE m.name = NoName
      BY <3>1 DEF w, ll_remember_index
    <3>2. CASE m.name # NoName
      BY <1>1, <3>2, RememberShape DEF w, Remembered
    <3> QED
      BY <3>1, <3>2
  <2> QED
    BY <1>1, <1>2, <2>1 DEF CacheTold
<1>7. CASE m.name = NoName
  <2>1. w = l
    BY <1>7 DEF w, ll_remember_index
  <2>2. HoldsNewest(w, u)
    BY <1>1, <1>5, <1>7, <2>1 DEF HoldsNewest
  <2>3. HoldsAll(w, u)
    BY <1>1, <1>2, <1>7, <2>1 DEF HoldsAll
  <2> QED
    BY <1>1, <1>2, <1>3, <1>6, <2>1, <2>2, <2>3 DEF MapInv, w, u
<1>8. CASE m.name # NoName
  <2>1. h0 \in Hashes /\ Remembered(l, w, h0, e)
    BY <1>1, <1>8, RememberShape DEF w
  <2>2. e.index = m.idx
    BY DEF EntryOf
  <2>3. LastTold(u, n) /\ n \in DOMAIN u /\ EntryOf(u[n]) = e
    <3>1. \A k \in DOMAIN u : ~(k > n)
      BY <1>2, <1>4
    <3> QED
      BY <1>2, <3>1 DEF LastTold
  <2>4. \A k \in DOMAIN t : EntryOf(t[k]).index = t[k].idx
    BY DEF EntryOf
  <2> HIDE DEF e
  <2>5. HoldsNewest(w, u)
    <3> SUFFICES ASSUME NEW h \in Hashes, NEW x \in DOMAIN w.idxmap[h]
                 PROVE  \E k \in DOMAIN u : EntryOf(u[k]) = w.idxmap[h][x] /\ LastTold(u, k)
      BY DEF HoldsNewest
    <3>1. CASE w.idxmap[h][x] = e
      BY <2>3, <3>1
    <3>2. CASE x \in DOMAIN l.idxmap[h] /\ w.idxmap[h][x] = l.idxmap[h][x] /\ l.idxmap[h][x].index # e.index
      <4>1. PICK k \in DOMAIN t : EntryOf(t[k]) = l.idxmap[h][x] /\ LastTold(t, k)
        BY <1>1, <3>2 DEF HoldsNewest
      <4>2. m.idx # t[k].idx
        BY <2>2, <2>4, <3>2, <4>1
      <4> QED
        BY <1>5, <3>2, <4>1, <4>2
    <3> QED
      BY <2>1, <3>1, <3>2 DEF Remembered
  <2>6. \A k \in DOMAIN t : t[k].idx % LlBuckets \in Hashes
    <3> SUFFICES ASSUME NEW k \in DOMAIN t
                 PROVE  t[k].idx % LlBuckets \in Hashes
      OBVIOUS
    <3>1. t[k] \in LinkMsgs
      BY <1>1
    <3> QED
      BY <3>1, Interfaces, SizesAssumption DEF LinkMsgs, Hashes
  <2>7. HoldsAll(w, u)
    <3> SUFFICES ASSUME NEW k \in DOMAIN u, u[k].name # NoName
                 PROVE  \E x \in DOMAIN w.idxmap[u[k].idx % LlBuckets] :
                          w.idxmap[u[k].idx % LlBuckets][x].index = u[k].idx
      BY DEF HoldsAll
    <3>1. CASE k = n
      BY <1>2, <2>1, <2>2, <3>1 DEF Remembered
    <3>2. CASE k \in DOMAIN t
      <4>1. PICK x \in DOMAIN l.idxmap[t[k].idx % LlBuckets] : l.idxmap[t[k].idx % LlBuckets][x].index = t[k].idx
        BY <1>1, <1>2, <3>2 DEF HoldsAll
      <4> QED
        BY <1>2, <2>1, <2>6, <3>2, <4>1 DEF Remembered
    <3> QED
      BY <1>2, <3>1, <3>2
  <2>8. Chained(w)
    <3> SUFFICES ASSUME NEW h \in Hashes, NEW x \in DOMAIN w.idxmap[h]
                 PROVE  /\ w.idxmap[h][x].index % LlBuckets = h
                        /\ \A y \in DOMAIN w.idxmap[h] : w.idxmap[h][y].index = w.idxmap[h][x].index => y = x
      BY DEF Chained
    <3>1. \A y \in DOMAIN w.idxmap[h] : w.idxmap[h][y].index = w.idxmap[h][x].index => y = x
      BY <2>1 DEF Remembered
    <3>2. w.idxmap[h][x].index % LlBuckets = h
      BY <1>1, <2>1, <2>2 DEF Remembered, Chained
    <3> QED
      BY <3>1, <3>2
  <2> QED
    BY <1>2, <1>3, <1>6, <2>5, <2>7, <2>8 DEF MapInv, w, u
<1> QED
  BY <1>7, <1>8

-----------------------------------------------------------------------------
(* What a dump has handed out, message by message.                         *)

\* The indexes handed out ascend when those of the messages do.
LEMMA IndexesAscend ==
  ASSUME NEW s \in Seq(Msgs)
  PROVE  /\ DOMAIN IndexesOf(s) = DOMAIN s
         /\ Ascending(IndexesOf(s)) <=> \A j, k \in DOMAIN s : j < k => s[j].idx < s[k].idx
<1>1. DOMAIN IndexesOf(s) = DOMAIN s /\ \A k \in DOMAIN s : IndexesOf(s)[k] = s[k].idx
  BY DEF IndexesOf
<1> QED
  BY <1>1 DEF Ascending

\* An ascending sequence of interfaces in which every interface is, is all of them.
LEMMA AllSeen ==
  ASSUME NEW s \in Seq(Msgs), Ascending(IndexesOf(s)), \A g \in DOMAIN s : s[g].idx \in Indexes,
         \A i \in Indexes : \E g \in DOMAIN s : s[g].idx = i, links \in [Indexes -> LinkNames]
  PROVE  IndexesOf(s) = All
<1> DEFINE N == NLinks
           L == Len(s)
           v(g) == s[g].idx
<1>1. N \in Nat /\ N # 0 /\ Indexes = 1..N /\ Len(links) = N /\ L \in Nat /\ DOMAIN s = 1..L
  BY Interfaces
<1>2. \A j, k \in 1..L : j < k => v(j) < v(k)
  BY <1>1, IndexesAscend
<1>3. \A g \in 1..L : v(g) \in 1..N
  BY <1>1
<1>4. \A i \in 1..N : \E g \in 1..L : v(g) = i
  BY <1>1
<1> HIDE DEF v
<1>5. \A g \in 1..L : v(g) = g
  <2> DEFINE Off == {g \in 1..L : v(g) # g}
  <2> SUFFICES ASSUME Off # {} PROVE FALSE
    OBVIOUS
  <2>1. PICK g \in Off : \A k \in Off : g <= k
    <3>1. Off \subseteq Nat
      BY <1>1
    <3> HIDE DEF Off
    <3> QED
      BY <3>1, LeastNumber
  <2>2. g \in 1..L /\ v(g) # g /\ v(g) \in 1..N
    BY <1>3, <2>1
  <2>3. \A k \in 1..L : k < g => v(k) = k
    <3> SUFFICES ASSUME NEW k \in 1..L, k < g, v(k) # k
                 PROVE  FALSE
      OBVIOUS
    <3>1. g <= k
      BY <2>1
    <3> QED
      BY <1>1, <2>2, <3>1
  <2>4. v(g) > g
    <3>1. CASE g = 1
      BY <2>2, <3>1
    <3>2. CASE g # 1
      <4>1. g - 1 \in 1..L /\ g - 1 < g
        BY <1>1, <2>2, <3>2
      <4>2. v(g - 1) = g - 1 /\ v(g - 1) < v(g)
        BY <1>2, <2>2, <2>3, <4>1
      <4> QED
        BY <1>1, <2>2, <4>2
    <3> QED
      BY <3>1, <3>2
  <2>5. g \in 1..N
    BY <1>1, <2>2, <2>4
  <2>6. PICK k \in 1..L : v(k) = g
    BY <1>4, <2>5
  <2>7. CASE k < g
    BY <1>1, <2>2, <2>3, <2>6, <2>7
  <2>8. CASE k = g
    BY <2>2, <2>6, <2>8
  <2>9. CASE k > g
    <3>1. v(g) < v(k)
      BY <1>2, <2>2, <2>6, <2>9
    <3> QED
      BY <1>1, <2>2, <2>4, <2>6, <3>1
  <2> QED
    BY <1>1, <2>2, <2>6, <2>7, <2>8, <2>9
<1>6. L = N
  <2>1. N \in 1..L
    <3>1. PICK g \in 1..L : v(g) = N
      BY <1>1, <1>4
    <3> QED
      BY <1>5, <3>1
  <2>2. L \in 1..N
    <3>1. L \in 1..L
      BY <1>1, <2>1
    <3> QED
      BY <1>3, <1>5, <3>1
  <2>3. \A a, b \in Nat : a \in 1..b /\ b \in 1..a => a = b
    OBVIOUS
  <2> HIDE DEF N, L
  <2> QED
    BY <1>1, <2>1, <2>2, <2>3
<1>7. IndexesOf(s) = [k \in 1..N |-> k]
  <2>1. \A k \in 1..L : s[k].idx = k
    BY <1>5 DEF v
  <2> QED
    BY <1>1, <1>6, <2>1 DEF IndexesOf
<1> QED
  BY <1>1, <1>7 DEF All

\* The same call, as far as Flow sees it.
SameFlow(c, d) == d.seq = c.seq /\ d.verdict = c.verdict /\ (~d.cut => ~c.cut)

\* Two states of a call with one number see the same messages.
LEMMA SameMine ==
  ASSUME NEW c, NEW d, d.seq = c.seq, NEW q, NEW dump
  PROVE  /\ \A k, j \in Nat : MineAt(d, q, k, j) <=> MineAt(c, q, k, j)
         /\ MyDump(d, dump) <=> MyDump(c, dump)
BY DEF MineAt, Mine, MyDump

\* Passing over messages that are not the call's leaves the rest.
LEMMA FlowSkips ==
  ASSUME NEW c, NEW d, SameFlow(c, d), d.got = c.got, NEW q \in Seq(Datagrams), NEW dump, NEW n \in Nat, NEW r \in Nat, n <= r,
         Flow(c, q, n, dump), \A j \in Nat : MineAt(c, q, 1, j) /\ j > n => j > r
  PROVE  Flow(d, q, r, dump)
<1>1. /\ \A k, j \in Nat : MineAt(d, q, k, j) <=> MineAt(c, q, k, j)
      /\ MyDump(d, dump) <=> MyDump(c, dump)
  BY SameMine DEF SameFlow
<1>2. \A k, j \in Nat : MineAt(c, q, k, j) => (Ahead(r, k, j) <=> Ahead(n, k, j))
  <2> SUFFICES ASSUME NEW k \in Nat, NEW j \in Nat, MineAt(c, q, k, j)
               PROVE  Ahead(r, k, j) <=> Ahead(n, k, j)
    OBVIOUS
  <2>1. k > 1 \/ k = 1
    <3>1. k \in 1..Len(q) /\ Len(q) \in Nat
      BY SeqElements DEF MineAt
    <3> QED
      BY <3>1
  <2>2. j > r => j > n
    OBVIOUS
  <2>3. CASE k = 1
    BY <2>2, <2>3 DEF Ahead
  <2>4. CASE k # 1
    BY <2>1, <2>4 DEF Ahead
  <2> QED
    BY <2>3, <2>4
<1>3. FlowTyped(c, q, n, dump) /\ FlowOrdered(c, q, n, dump) /\ FlowWhole(c, q, n, dump)
  BY DEF Flow
<1>4. FlowTyped(d, q, r, dump)
  BY <1>1, <1>2, <1>3 DEF FlowTyped, SameFlow
<1>5. FlowOrdered(d, q, r, dump)
  BY <1>1, <1>2, <1>3 DEF FlowOrdered
<1>6. FlowWhole(d, q, r, dump)
  <2>1. \A i : InQueue(c, q, n, i) => InQueue(d, q, r, i)
    BY <1>1, <1>2 DEF InQueue
  <2>2. \A i : InDump(c, dump, i) => InDump(d, dump, i)
    BY <1>1 DEF InDump
  <2>3. \A i : Seen(c, i) => Seen(d, i)
    BY DEF Seen
  <2> QED
    BY <1>3, <2>1, <2>2, <2>3 DEF FlowWhole, SameFlow
<1> QED
  BY <1>4, <1>5, <1>6 DEF Flow

\* What a call must say of itself to be done.
DumpAnswer(d) ==
  /\ Ascending(IndexesOf(d.got))
  /\ d.ret = "ok" => d.verdict = "ack" /\ (d.cut \/ IndexesOf(d.got) = All)
  /\ d.ret = "error" => d.verdict = "fail"

\* The end of the dump comes when every interface was seen.
LEMMA FlowEnds ==
  ASSUME NEW c \in Calls, NEW q, NEW dump, NEW n \in Nat, Flow(c, q, n, dump), links \in [Indexes -> LinkNames],
         NEW j \in Nat, j > n, MineAt(c, q, 1, j), q[1].msgs[j].type = "done",
         \A k, i \in Nat : MineAt(c, q, k, i) /\ Ahead(n, k, i) => Earlier(1, j, k, i) \/ (k = 1 /\ i = j)
  PROVE  c.verdict = "ack" /\ (c.cut \/ IndexesOf(c.got) = All)
<1>1. FlowTyped(c, q, n, dump) /\ FlowOrdered(c, q, n, dump) /\ FlowWhole(c, q, n, dump) /\ Ahead(n, 1, j)
      /\ 1 \in Nat
  BY DEF Flow, Ahead
<1>2. c.verdict = "ack"
  BY <1>1 DEF FlowTyped, Calls
<1>3. ~MyDump(c, dump)
  BY <1>1 DEF FlowOrdered
<1>4. \A i : ~InQueue(c, q, n, i)
  <2> SUFFICES ASSUME NEW i, NEW k \in Nat, NEW l \in Nat,
                      MineAt(c, q, k, l), Ahead(n, k, l), q[k].msgs[l].type = "link"
               PROVE  FALSE
    BY DEF InQueue
  <2>1. ~(k = 1 /\ l = j)
    OBVIOUS
  <2>2. Earlier(1, j, k, l)
    BY <2>1
  <2> QED
    BY <1>1, <2>2 DEF FlowOrdered
<1>5. CASE ~c.cut
  <2>1. \A i \in Indexes : \E g \in DOMAIN c.got : c.got[g].idx = i
    BY <1>1, <1>2, <1>3, <1>4, <1>5 DEF FlowWhole, Seen, InDump
  <2>2. \A g \in DOMAIN c.got : c.got[g].idx \in Indexes
    BY <1>1 DEF FlowTyped
  <2>3. c.got \in Seq(Msgs) /\ Ascending(IndexesOf(c.got))
    BY <1>1 DEF FlowOrdered, Calls
  <2> QED
    BY <1>2, <2>1, <2>2, <2>3, AllSeen
<1> QED
  BY <1>2, <1>5

\* A message of the dump is handed out: it was the next.
LEMMA FlowTakes ==
  ASSUME NEW c \in Calls, NEW d, SameFlow(c, d), NEW q \in Seq(Datagrams), NEW dump, NEW n \in Nat,
         Flow(c, q, n, dump), MineAt(c, q, 1, n + 1), q[1].msgs[n + 1].type = "link",
         d.got = Append(c.got, q[1].msgs[n + 1])
  PROVE  Flow(d, q, n + 1, dump)
<1> DEFINE m == q[1].msgs[n + 1]
           L == Len(c.got) + 1
<1>1. m \in Msgs /\ m.idx \in Indexes /\ m.idx \in Nat
  <2>1. q[1] \in Datagrams /\ n + 1 \in DOMAIN q[1].msgs
    BY SeqElements DEF MineAt
  <2>2. q[1].msgs \in Seq(Msgs)
    BY <2>1 DEF Datagrams
  <2>3. m \in Msgs
    BY <2>1, <2>2, SeqElements
  <2> QED
    BY <2>3, MessageTypes
<1>2. /\ d.got \in Seq(Msgs) /\ DOMAIN d.got = DOMAIN c.got \cup {L} /\ d.got[L] = m
      /\ \A g \in DOMAIN c.got : d.got[g] = c.got[g] /\ g < L /\ g \in Nat
  <2>1. c.got \in Seq(Msgs)
    BY DEF Calls
  <2> HIDE DEF m
  <2>2. d.got = Append(c.got, m)
    BY DEF m
  <2>3. /\ d.got \in Seq(Msgs) /\ DOMAIN d.got = DOMAIN c.got \cup {L} /\ d.got[L] = m
        /\ DOMAIN c.got \subseteq 1..Len(c.got)
        /\ \A g \in DOMAIN c.got : d.got[g] = c.got[g] /\ g < L
    BY <1>1, <2>1, <2>2, AppendOne
  <2> QED
    BY <2>3
<1>3. L \in Nat
  BY DEF Calls
<1> HIDE DEF L
<1>4. /\ \A k, j \in Nat : MineAt(d, q, k, j) <=> MineAt(c, q, k, j)
      /\ MyDump(d, dump) <=> MyDump(c, dump)
  BY SameMine DEF SameFlow
<1>5. FlowTyped(c, q, n, dump) /\ FlowOrdered(c, q, n, dump) /\ FlowWhole(c, q, n, dump)
  BY DEF Flow
<1>6. \A k, j \in Nat : MineAt(c, q, k, j) =>
        /\ Ahead(n + 1, k, j) => Ahead(n, k, j) /\ Earlier(1, n + 1, k, j)
        /\ Ahead(n, k, j) => Ahead(n + 1, k, j) \/ (k = 1 /\ j = n + 1)
  <2> SUFFICES ASSUME NEW k \in Nat, NEW j \in Nat, MineAt(c, q, k, j)
               PROVE  /\ Ahead(n + 1, k, j) => Ahead(n, k, j) /\ Earlier(1, n + 1, k, j)
                      /\ Ahead(n, k, j) => Ahead(n + 1, k, j) \/ (k = 1 /\ j = n + 1)
    OBVIOUS
  <2>1. k \in 1..Len(q) /\ Len(q) \in Nat
    BY SeqElements DEF MineAt
  <2> QED
    BY <2>1 DEF Ahead, Earlier
<1>7. Ahead(n, 1, n + 1) /\ 1 \in Nat /\ n + 1 \in Nat
  BY DEF Ahead
<1> HIDE DEF m
<1>8. FlowTyped(d, q, n + 1, dump)
  <2>1. \A g \in DOMAIN d.got : d.got[g].idx \in Indexes
    BY <1>1, <1>2, <1>5 DEF FlowTyped
  <2> QED
    BY <1>4, <1>5, <1>6, <2>1 DEF FlowTyped, SameFlow
<1>9. FlowOrdered(d, q, n + 1, dump)
  <2>1. \A g \in DOMAIN c.got : c.got[g].idx < m.idx
    BY <1>5, <1>7 DEF FlowOrdered, m
  <2>2. Ascending(IndexesOf(d.got))
    <3>1. \A j, k \in DOMAIN c.got : j < k => c.got[j].idx < c.got[k].idx
      BY <1>5, IndexesAscend DEF FlowOrdered, Calls
    <3>2. ASSUME NEW j \in DOMAIN d.got, NEW k \in DOMAIN d.got, j < k
          PROVE  d.got[j].idx < d.got[k].idx
      <4>1. j \in DOMAIN c.got
        <5>1. ASSUME j = L
              PROVE  FALSE
          <6>1. k = L \/ (k < L /\ k \in Nat)
            BY <1>2
          <6> QED
            BY <1>3, <3>2, <5>1, <6>1
        <5> QED
          BY <1>2, <5>1
      <4>2. CASE k = L
        BY <1>2, <2>1, <4>1, <4>2
      <4>3. CASE k \in DOMAIN c.got
        BY <1>2, <3>1, <3>2, <4>1, <4>3
      <4> QED
        BY <1>2, <4>2, <4>3
    <3> QED
      BY <1>2, <3>2, IndexesAscend
  <2>3. ASSUME NEW g \in DOMAIN d.got, NEW k \in Nat, NEW j \in Nat, MineAt(c, q, k, j), Ahead(n + 1, k, j),
               q[k].msgs[j].type = "link"
        PROVE  d.got[g].idx < q[k].msgs[j].idx
    <3>1. Ahead(n, k, j) /\ Earlier(1, n + 1, k, j)
      BY <1>6, <2>3
    <3>2. CASE g \in DOMAIN c.got
      BY <1>2, <1>5, <2>3, <3>1, <3>2 DEF FlowOrdered
    <3>3. CASE g = L
      <4>1. m.idx < q[k].msgs[j].idx
        BY <1>5, <1>7, <2>3, <3>1 DEF FlowOrdered, m
      <4> QED
        BY <1>2, <3>3, <4>1
    <3> QED
      BY <1>2, <3>2, <3>3
  <2>4. ASSUME NEW k \in Nat, NEW j \in Nat, NEW l \in Nat, NEW i \in Nat,
               MineAt(c, q, k, j), Ahead(n + 1, k, j), MineAt(c, q, l, i), Earlier(k, j, l, i)
        PROVE  /\ q[k].msgs[j].type # "done"
               /\ q[l].msgs[i].type = "link" => q[k].msgs[j].idx < q[l].msgs[i].idx
    <3>1. Ahead(n, k, j)
      BY <1>6, <2>4
    <3> QED
      BY <1>5, <2>4, <3>1 DEF FlowOrdered
  <2>5. ASSUME MyDump(c, dump), NEW x \in 2..Len(dump)
        PROVE  /\ \A g \in DOMAIN d.got : d.got[g].idx < dump[x]
               /\ \A k, j \in Nat : MineAt(c, q, k, j) /\ Ahead(n + 1, k, j) => q[k].msgs[j].idx < dump[x]
    <3>1. \A k, j \in Nat : MineAt(c, q, k, j) /\ Ahead(n, k, j) => q[k].msgs[j].idx < dump[x]
      BY <1>5, <2>5 DEF FlowOrdered
    <3>2. m.idx < dump[x]
      BY <1>7, <3>1 DEF m
    <3>3. \A g \in DOMAIN c.got : c.got[g].idx < dump[x]
      BY <1>5, <2>5 DEF FlowOrdered
    <3> QED
      BY <1>2, <1>6, <3>1, <3>2, <3>3
  <2>6. MyDump(c, dump) => \A k, j \in Nat : MineAt(c, q, k, j) /\ Ahead(n + 1, k, j) => q[k].msgs[j].type # "done"
    BY <1>5, <1>6 DEF FlowOrdered
  <2> QED
    BY <1>4, <2>2, <2>3, <2>4, <2>5, <2>6 DEF FlowOrdered
<1>10. FlowWhole(d, q, n + 1, dump)
  <2> SUFFICES ASSUME c.verdict = "ack", ~c.cut, NEW i \in Indexes
               PROVE  Seen(d, i) \/ InQueue(d, q, n + 1, i) \/ InDump(d, dump, i)
    BY DEF FlowWhole, SameFlow
  <2>1. Seen(c, i) \/ InQueue(c, q, n, i) \/ InDump(c, dump, i)
    BY <1>5 DEF FlowWhole
  <2>2. Seen(c, i) => Seen(d, i)
    BY <1>2 DEF Seen
  <2>3. m.idx = i => Seen(d, i)
    BY <1>2 DEF Seen
  <2>4. InQueue(c, q, n, i) => InQueue(d, q, n + 1, i) \/ m.idx = i
    BY <1>4, <1>6 DEF InQueue, m
  <2>5. InDump(c, dump, i) => InDump(d, dump, i)
    BY <1>4 DEF InDump
  <2> QED
    BY <2>1, <2>2, <2>3, <2>4, <2>5
<1> QED
  BY <1>8, <1>9, <1>10 DEF Flow

\* The tail of a sequence.
LEMMA TailElements ==
  ASSUME NEW S, NEW q \in Seq(S), q # << >>
  PROVE  /\ Tail(q) \in Seq(S) /\ Len(q) \in Nat /\ Len(q) >= 1 /\ Len(Tail(q)) = Len(q) - 1
         /\ DOMAIN Tail(q) = 1..(Len(q) - 1) /\ DOMAIN q = 1..Len(q) /\ Head(q) = q[1] /\ Head(q) \in S
         /\ \A k \in Nat : k \in DOMAIN Tail(q) <=> k # 0 /\ k + 1 \in DOMAIN q
         /\ \A k \in DOMAIN Tail(q) : Tail(q)[k] = q[k + 1] /\ k + 1 \in DOMAIN q
<1>1. Tail(q) \in Seq(S) /\ Len(q) \in Nat /\ Len(q) >= 1 /\ Len(Tail(q)) = Len(q) - 1 /\ DOMAIN q = 1..Len(q)
      /\ Head(q) = q[1] /\ \A k \in 1..(Len(q) - 1) : Tail(q)[k] = q[k + 1]
  BY HeadTailProperties, EmptySeq
<1> DEFINE r == Tail(q)
<1> HIDE DEF r
<1>2. DOMAIN r = 1..(Len(q) - 1)
  BY <1>1 DEF r
<1>3. \A n \in Nat : n >= 1 => /\ \A k \in Nat : k \in 1..(n - 1) <=> k # 0 /\ k + 1 \in 1..n
                               /\ \A k \in 1..(n - 1) : k \in Nat
  OBVIOUS
<1> QED
  BY <1>1, <1>2, <1>3 DEF r

\* What the tail of a queue holds for a call.
LEMMA TailMine ==
  ASSUME NEW q \in Seq(Datagrams), q # << >>, NEW c, NEW k \in Nat, NEW j \in Nat
  PROVE  /\ MineAt(c, Tail(q), k, j) <=> k # 0 /\ MineAt(c, q, k + 1, j)
         /\ MineAt(c, Tail(q), k, j) => Tail(q)[k] = q[k + 1]
<1>1. /\ k \in DOMAIN Tail(q) <=> k # 0 /\ k + 1 \in DOMAIN q
      /\ k \in DOMAIN Tail(q) => Tail(q)[k] = q[k + 1]
  BY TailElements
<1> QED
  BY <1>1 DEF MineAt

\* The datagram is read, whole or cut off.
LEMMA FlowShifts ==
  ASSUME NEW c, NEW d, SameFlow(c, d), d.got = c.got, NEW q \in Seq(Datagrams), q # << >>, NEW dump, NEW n \in Nat,
         Flow(c, q, n, dump), d.cut \/ Len(q[1].msgs) <= n
  PROVE  Flow(d, Tail(q), 0, dump)
<1> DEFINE r == Tail(q)
<1>1. /\ \A k, j \in Nat : MineAt(d, q, k, j) <=> MineAt(c, q, k, j)
      /\ MyDump(d, dump) <=> MyDump(c, dump)
  BY SameMine DEF SameFlow
<1>2. \A k, j \in Nat : MineAt(d, r, k, j) =>
        MineAt(c, q, k + 1, j) /\ Ahead(n, k + 1, j) /\ r[k] = q[k + 1] /\ k + 1 \in Nat
  <2> SUFFICES ASSUME NEW k \in Nat, NEW j \in Nat, MineAt(d, r, k, j)
               PROVE  MineAt(c, q, k + 1, j) /\ Ahead(n, k + 1, j) /\ r[k] = q[k + 1] /\ k + 1 \in Nat
    OBVIOUS
  <2>1. k # 0 /\ MineAt(d, q, k + 1, j) /\ r[k] = q[k + 1]
    BY TailMine
  <2>2. k + 1 \in Nat /\ k + 1 > 1
    BY <2>1
  <2> QED
    BY <1>1, <2>1, <2>2 DEF Ahead
<1>3. FlowTyped(c, q, n, dump) /\ FlowOrdered(c, q, n, dump) /\ FlowWhole(c, q, n, dump)
  BY DEF Flow
<1>4. \A k, j, l, i \in Nat : Earlier(k, j, l, i) => Earlier(k + 1, j, l + 1, i)
  BY DEF Earlier
<1>7. ASSUME ~d.cut, NEW i, InQueue(c, q, n, i)
      PROVE  InQueue(d, r, 0, i)
  <2>1. PICK k \in Nat, j \in Nat : /\ MineAt(c, q, k, j) /\ Ahead(n, k, j)
                                    /\ q[k].msgs[j].type = "link" /\ q[k].msgs[j].idx = i
    BY <1>7 DEF InQueue
  <2>2. k \in DOMAIN q /\ j \in DOMAIN q[k].msgs
    BY <2>1 DEF MineAt
  <2>3. q[k] \in Datagrams /\ k \in 1..Len(q) /\ Len(q) \in Nat
    BY <2>2, SeqElements
  <2>4. j \in 1..Len(q[k].msgs) /\ Len(q[k].msgs) \in Nat
    <3>1. q[k].msgs \in Seq(Msgs)
      BY <2>3 DEF Datagrams
    <3> QED
      BY <2>2, <3>1, SeqElements
  <2>5. k # 1
    <3>1. k = 1 => j > n /\ Len(q[k].msgs) <= n
      BY <1>7, <2>1 DEF Ahead
    <3> QED
      BY <2>4, <3>1
  <2>6. k - 1 \in Nat /\ k - 1 # 0 /\ (k - 1) + 1 = k
    BY <2>3, <2>5
  <2>7. MineAt(d, r, k - 1, j)
    BY <1>1, <2>1, <2>6, TailMine
  <2>8. r[k - 1] = q[k] /\ Ahead(0, k - 1, j)
    <3>1. r[k - 1] = q[(k - 1) + 1]
      BY <1>2, <2>6, <2>7
    <3>2. r[k - 1] = q[k]
      BY <2>6, <3>1
    <3>3. j > 0
      BY <2>4
    <3> QED
      BY <3>2, <3>3 DEF Ahead
  <2> QED
    BY <2>1, <2>6, <2>7, <2>8 DEF InQueue
<1> HIDE DEF r
<1>5. FlowTyped(d, r, 0, dump)
  <2>1. \A k, j \in Nat : MineAt(d, r, k, j) => r[k].msgs[j].type \in (IF c.verdict = "fail" THEN {"fail"} ELSE {"link", "done"})
    BY <1>2, <1>3 DEF FlowTyped
  <2> QED
    BY <1>1, <1>3, <2>1 DEF FlowTyped, SameFlow
<1>6. FlowOrdered(d, r, 0, dump)
  <2>1. Ascending(IndexesOf(d.got))
    BY <1>3 DEF FlowOrdered
  <2>2. ASSUME NEW g \in DOMAIN d.got, NEW k \in Nat, NEW j \in Nat, MineAt(d, r, k, j), r[k].msgs[j].type = "link"
        PROVE  d.got[g].idx < r[k].msgs[j].idx
    BY <1>2, <1>3, <2>2 DEF FlowOrdered
  <2>3. ASSUME NEW k \in Nat, NEW j \in Nat, NEW l \in Nat, NEW i \in Nat,
               MineAt(d, r, k, j), MineAt(d, r, l, i), Earlier(k, j, l, i)
        PROVE  /\ r[k].msgs[j].type # "done"
               /\ r[l].msgs[i].type = "link" => r[k].msgs[j].idx < r[l].msgs[i].idx
    <3>1. /\ MineAt(c, q, k + 1, j) /\ Ahead(n, k + 1, j) /\ r[k] = q[k + 1] /\ k + 1 \in Nat
          /\ MineAt(c, q, l + 1, i) /\ r[l] = q[l + 1] /\ l + 1 \in Nat
      BY <1>2, <2>3
    <3>2. Earlier(k + 1, j, l + 1, i)
      BY <1>4, <2>3
    <3> QED
      BY <1>3, <3>1, <3>2 DEF FlowOrdered
  <2>4. ASSUME MyDump(c, dump), NEW x \in 2..Len(dump)
        PROVE  /\ \A g \in DOMAIN d.got : d.got[g].idx < dump[x]
               /\ \A k, j \in Nat : MineAt(d, r, k, j) => r[k].msgs[j].idx < dump[x]
    <3>1. /\ \A g \in DOMAIN c.got : c.got[g].idx < dump[x]
          /\ \A k, j \in Nat : MineAt(c, q, k, j) /\ Ahead(n, k, j) => q[k].msgs[j].idx < dump[x]
      BY <1>3, <2>4 DEF FlowOrdered
    <3> QED
      BY <1>2, <3>1
  <2>5. ASSUME MyDump(c, dump), NEW k \in Nat, NEW j \in Nat, MineAt(d, r, k, j)
        PROVE  r[k].msgs[j].type # "done"
    BY <1>2, <1>3, <2>5 DEF FlowOrdered
  <2> QED
    BY <1>1, <2>1, <2>2, <2>3, <2>4, <2>5 DEF FlowOrdered
<1>8. FlowWhole(d, r, 0, dump)
  <2> SUFFICES ASSUME c.verdict = "ack", ~d.cut, NEW i \in Indexes
               PROVE  Seen(d, i) \/ InQueue(d, r, 0, i) \/ InDump(d, dump, i)
    BY DEF FlowWhole, SameFlow
  <2>1. Seen(c, i) \/ InQueue(c, q, n, i) \/ InDump(c, dump, i)
    BY <1>3 DEF FlowWhole, SameFlow
  <2> QED
    BY <1>1, <1>7, <2>1 DEF Seen, InDump
<1> QED
  BY <1>5, <1>6, <1>8 DEF Flow, r

-----------------------------------------------------------------------------
(* A datagram, message by message.                                         *)

TalkAnswer(d) ==
  /\ d.ret = "ok" => d.verdict = "ack"
  /\ d.ret = "ok" /\ d.answer => Len(d.got) = 1 /\ d.got[1].seq = d.seq
  /\ d.ret = "error" => d.verdict = "fail"
NoFinal(d, q, n) == \A j \in 1..n : MineAt(d, q, 1, j) => ~Final(d, q[1].msgs[j])

\* Call c has become d when n messages of the first datagram are read.
LoopInv(c, d, q, n, dump) ==
  /\ SameCall(c, d)
  /\ c.op \in Talks => TalkAnswer(d) /\ (d.ret = "wait" => d.got = << >> /\ NoFinal(d, q, n))
  /\ c.op \in Dumps => DumpAnswer(d) /\ (d.ret = "wait" => Flow(d, q, n, dump) /\ NoFinal(d, q, n))

\* One more message of the datagram is read.
LEMMA LoopStep ==
  ASSUME NEW c, NEW d, NEW e, NEW q \in Seq(Datagrams), q # << >>, NEW n \in Nat, n + 1 \in DOMAIN q[1].msgs,
         NEW dump, LoopInv(c, d, q, n, dump), c.op \in Talks => TalkConforms(c, q),
         links \in [Indexes -> LinkNames],
         d.ret # "wait" => e = d, d.ret = "wait" => ReadStep(d, e, q[1].from, q[1].msgs[n + 1])
  PROVE  LoopInv(c, e, q, n + 1, dump)
<1> DEFINE m == q[1].msgs[n + 1]
           mine == Mine(d, q[1].from, m)
<1>1. CASE d.ret # "wait"
  BY <1>1 DEF LoopInv
<1>2. CASE d.ret = "wait"
  <2>1. SameCall(c, d) /\ ReadStep(d, e, q[1].from, m) /\ SameCall(d, e)
    BY <1>2 DEF LoopInv, ReadStep
  <2>2. SameCall(c, e) /\ d \in Calls /\ e \in Calls
    BY <2>1 DEF SameCall
  <2>3. q[1] \in Datagrams /\ 1 \in DOMAIN q
    BY TailElements, SeqElements, EmptySeq
  <2>4. m \in Msgs /\ m.type \in {"link", "done", "ack", "fail"}
    <3>1. q[1].msgs \in Seq(Msgs)
      BY <2>3 DEF Datagrams
    <3> QED
      BY <3>1, SeqElements, MessageTypes
  <2>5. mine <=> MineAt(d, q, 1, n + 1)
    BY <2>3 DEF MineAt
  <2>6. Talks \cap Dumps = {} /\ d.op = c.op /\ e.op = c.op /\ d.seq = c.seq /\ e.seq = c.seq
        /\ d.verdict = c.verdict /\ e.verdict = c.verdict /\ d.answer = c.answer /\ e.answer = c.answer
        /\ d.cut = e.cut /\ c.verdict \in {"ack", "fail"}
    BY <2>1, <2>2 DEF SameCall, Talks, Dumps, Calls
  <2>7. ASSUME NoFinal(d, q, n), mine => ~Final(e, m)
        PROVE  NoFinal(e, q, n + 1)
    <3> SUFFICES ASSUME NEW j \in 1..(n + 1), MineAt(e, q, 1, j)
                 PROVE  ~Final(e, q[1].msgs[j])
      BY DEF NoFinal
    <3>1. MineAt(d, q, 1, j)
      BY <2>6 DEF MineAt, Mine
    <3>2. CASE j = n + 1
      BY <2>5, <2>7, <3>1, <3>2
    <3>3. CASE j # n + 1
      <4>1. j \in 1..n
        BY <3>3
      <4>2. ~Final(d, q[1].msgs[j])
        BY <2>7, <3>1, <4>1 DEF NoFinal
      <4> QED
        BY <2>6, <4>2 DEF Final
    <3> QED
      BY <3>2, <3>3
  <2>8. CASE c.op \in Talks
    <3>1. TalkStep(d, e, mine, m) /\ d.got = << >> /\ NoFinal(d, q, n)
      BY <1>2, <2>1, <2>6, <2>8 DEF ReadStep, LoopInv
    <3>2. mine => (m.type = "fail" <=> c.verdict = "fail")
      <4>1. mine => MineAt(c, q, 1, n + 1)
        BY <2>5, <2>6 DEF MineAt, Mine
      <4> QED
        BY <2>8, <4>1 DEF TalkConforms
    <3>3. mine => m.seq = c.seq
      BY <2>6 DEF Mine
    <3>4. Len(Append(<< >>, m)) = 1 /\ Append(<< >>, m)[1] = m
      BY <2>4
    <3> HIDE DEF m, mine
    <3>5. TalkAnswer(e)
      BY <2>6, <3>1, <3>2, <3>3, <3>4 DEF TalkStep, TalkAnswer, Silent
    <3>6. ASSUME e.ret = "wait"
          PROVE  e.got = << >> /\ NoFinal(e, q, n + 1)
      <4>1. e.got = << >> /\ (mine => m.type \notin {"fail", "ack"} /\ ~c.answer)
        BY <2>6, <3>1, <3>6 DEF TalkStep, Silent
      <4>2. mine => ~Final(e, m)
        BY <2>6, <2>8, <4>1 DEF Final
      <4> QED
        BY <2>7, <3>1, <4>1, <4>2
    <3> QED
      BY <2>2, <2>6, <2>8, <3>5, <3>6 DEF LoopInv
  <2>9. CASE c.op \in Dumps
    <3>1. DumpStep(d, e, mine, m) /\ Flow(d, q, n, dump) /\ NoFinal(d, q, n)
      BY <1>2, <2>1, <2>6, <2>9 DEF ReadStep, LoopInv
    <3>2. SameFlow(d, e) /\ d.op \notin Talks
      BY <2>6, <2>9 DEF SameFlow
    <3>3. FlowTyped(d, q, n, dump) /\ Ascending(IndexesOf(d.got))
      BY <3>1 DEF Flow, FlowOrdered
    <3>4. Ahead(n, 1, n + 1) /\ 1 \in Nat /\ n + 1 \in Nat
      BY DEF Ahead
    <3>5. CASE e.ret \in {"junk", "filter"} /\ e.got = d.got
      BY <2>2, <2>6, <2>9, <3>3, <3>5 DEF LoopInv, DumpAnswer
    <3>6. CASE ~mine /\ Silent(d, e)
      <4>1. \A j \in Nat : MineAt(d, q, 1, j) /\ j > n => j > n + 1
        BY <2>5, <3>6
      <4>2. Flow(e, q, n + 1, dump)
        BY <3>1, <3>2, <3>4, <3>6, <4>1, FlowSkips DEF Silent
      <4>3. NoFinal(e, q, n + 1)
        BY <2>7, <3>1, <3>6
      <4> QED
        BY <2>2, <2>6, <2>9, <3>3, <3>6, <4>2, <4>3 DEF LoopInv, DumpAnswer, Silent
    <3>7. CASE mine /\ m.type = "done" /\ e.ret = "ok" /\ e.got = d.got
      <4>1. \A k, i \in Nat : MineAt(d, q, k, i) /\ Ahead(n, k, i) => Earlier(1, n + 1, k, i) \/ (k = 1 /\ i = n + 1)
        <5> SUFFICES ASSUME NEW k \in Nat, NEW i \in Nat, MineAt(d, q, k, i), Ahead(n, k, i)
                     PROVE  Earlier(1, n + 1, k, i) \/ (k = 1 /\ i = n + 1)
          OBVIOUS
        <5>1. k \in 1..Len(q) /\ Len(q) \in Nat
          BY SeqElements DEF MineAt
        <5> QED
          BY <5>1 DEF Ahead, Earlier
      <4>2. n + 1 > n
        OBVIOUS
      <4>3. d.verdict = "ack" /\ (d.cut \/ IndexesOf(d.got) = All)
        BY <2>2, <2>5, <3>1, <3>4, <3>7, <4>1, <4>2, FlowEnds
      <4> QED
        BY <2>2, <2>6, <2>9, <3>3, <3>7, <4>3 DEF LoopInv, DumpAnswer
    <3>8. CASE mine /\ m.type \in {"fail", "ack"} /\ e.ret = "error" /\ e.got = d.got
      <4>1. m.type \in (IF d.verdict = "fail" THEN {"fail"} ELSE {"link", "done"})
        BY <2>5, <3>3, <3>4, <3>8 DEF FlowTyped
      <4>2. d.verdict = "fail"
        BY <3>8, <4>1
      <4> QED
        BY <2>2, <2>6, <2>9, <3>3, <3>8, <4>2 DEF LoopInv, DumpAnswer
    <3>9. CASE mine /\ m.type = "link" /\ e.ret = "wait" /\ e.got = Append(d.got, m)
      <4>1. Flow(e, q, n + 1, dump)
        BY <2>2, <2>5, <3>1, <3>2, <3>9, FlowTakes
      <4>2. ~Final(e, m)
        BY <2>6, <2>9, <3>9 DEF Final
      <4>3. NoFinal(e, q, n + 1)
        BY <2>7, <3>1, <4>2
      <4>4. Ascending(IndexesOf(e.got))
        BY <4>1 DEF Flow, FlowOrdered
      <4> QED
        BY <2>2, <2>6, <2>9, <3>9, <4>1, <4>3, <4>4 DEF LoopInv, DumpAnswer
    <3> HIDE DEF m, mine
    <3> QED
      BY <3>1, <3>5, <3>6, <3>7, <3>8, <3>9 DEF DumpStep
  <2>10. CASE c.op \notin Talks /\ c.op \notin Dumps
    BY <2>2, <2>10 DEF LoopInv
  <2> QED
    BY <2>8, <2>9, <2>10
<1> QED
  BY <1>1, <1>2

\* What fits the buffer is a beginning.
LEMMA AtMostShape ==
  ASSUME NEW S, NEW s \in Seq(S), NEW n \in Nat
  PROVE  /\ AtMost(s, n) \in Seq(S) /\ Len(AtMost(s, n)) = (IF Len(s) <= n THEN Len(s) ELSE n)
         /\ \A k \in 1..Len(AtMost(s, n)) : k \in DOMAIN s /\ AtMost(s, n)[k] = s[k]
<1>1. CASE Len(s) <= n
  BY <1>1 DEF AtMost
<1>2. CASE ~(Len(s) <= n)
  <2>1. AtMost(s, n) = SubSeq(s, 1, n) /\ n \in 0..Len(s) /\ Len(s) \in Nat
    BY <1>2 DEF AtMost
  <2>2. SubSeq(s, 1, n) \in Seq(S) /\ Len(SubSeq(s, 1, n)) = n /\ \A k \in 1..n : k \in 1..Len(s) /\ SubSeq(s, 1, n)[k] = s[k]
    BY <2>1
  <2> QED
    BY <1>2, <2>1, <2>2
<1> QED
  BY <1>1, <1>2

MapKept(p, v) == MapInv(p.ll, p.told) => MapInv(v.ll, v.told)

\* The messages of a datagram are read one after the other.
LEMMA MessagesRead ==
  ASSUME NEW p \in Reads, p.call.ret = "wait", p.call.op \in LibraryCalls, NEW q \in Seq(Datagrams), q # << >>,
         NEW dump, p.call.op \in Talks => TalkConforms(p.call, q) /\ p.call.got = << >>,
         p.call.op \in Dumps => Flow(p.call, q, 0, dump), links \in [Indexes -> LinkNames]
  PROVE  LET msgs == AtMost(q[1].msgs, BufMsgs)
             v == Messages(p, q[1].from, msgs)
         IN  /\ v \in Reads /\ LoopInv(p.call, v.call, q, Len(msgs), dump) /\ MapKept(p, v)
<1> DEFINE from == q[1].from
           msgs == AtMost(q[1].msgs, BufMsgs)
           N == Len(msgs)
           S == {x \in Reads : x.call.op \in LibraryCalls}
           F == [n \in 1..N |-> [x \in S |-> Message(x, from, msgs[n])]]
           IsLoop(f) == f = [n \in 0..N |-> IF n = 0 THEN p ELSE Message(f[n - 1], from, msgs[n])]
           after == CHOOSE f : IsLoop(f)
<1>1. q[1] \in Datagrams
  BY TailElements
<1>2. q[1].msgs \in Seq(Msgs)
  BY <1>1 DEF Datagrams
<1>3. /\ msgs \in Seq(Msgs) /\ N \in Nat
      /\ \A n \in 1..N : msgs[n] \in Msgs /\ n \in DOMAIN q[1].msgs /\ msgs[n] = q[1].msgs[n]
  <2>1. msgs \in Seq(Msgs) /\ \A n \in 1..Len(msgs) : n \in DOMAIN q[1].msgs /\ msgs[n] = q[1].msgs[n]
    BY <1>2, AtMostShape, SizesAssumption
  <2> HIDE DEF msgs
  <2> QED
    BY <2>1, SeqElements
<1> HIDE DEF msgs
<1>4. \A n \in 1..N : \A x \in S : Message(x, from, msgs[n]) \in S
  BY <1>3, MessageRead DEF SameCall
<1>5. F \in Loops(N, S) /\ p \in S
  BY <1>4 DEF Loops
<1>6. PICK g : IsTrace(g, N, S, p, F)
  <2> HIDE DEF F, S
  <2> QED
    BY <1>3, <1>5, RecursionExists
<1>7. IsLoop(g)
  <2>1. g \in [0..N -> S] /\ g[0] = p
    BY <1>6 DEF IsTrace
  <2>2. ASSUME NEW n \in 1..N
        PROVE  g[n] = Message(g[n - 1], from, msgs[n])
    <3>1. g[n] = F[n][g[n - 1]]
      BY <1>6 DEF IsTrace
    <3>2. n - 1 \in 0..N
      BY <1>3
    <3>3. g[n - 1] \in S
      BY <2>1, <3>2
    <3> HIDE DEF S
    <3> QED
      BY <3>1, <3>3
  <2> HIDE DEF F, S, N
  <2> QED
    BY <1>3, <2>1, <2>2
<1>8. IsLoop(after) /\ Messages(p, from, msgs) = after[N]
  BY <1>7 DEF Messages
<1> HIDE DEF after, N, F, S
<1>9. after[0] = p /\ \A n \in 1..N : after[n] = Message(after[n - 1], from, msgs[n])
  <2>1. after = [n \in 0..N |-> IF n = 0 THEN p ELSE Message(after[n - 1], from, msgs[n])]
    BY <1>8
  <2>2. 0 \in 0..N /\ \A n \in 1..N : n \in 0..N /\ n # 0
    BY <1>3
  <2> QED
    BY <2>1, <2>2
<1> DEFINE Good(n) == after[n] \in Reads /\ LoopInv(p.call, after[n].call, q, n, dump) /\ MapKept(p, after[n])
           T == {n \in 0..N : Good(n)}
<1>10. 0 \in T
  <2>1. p.call \in Calls /\ Talks \cap Dumps = {}
    BY DEF Reads, Talks, Dumps
  <2>2. SameCall(p.call, p.call)
    BY <2>1 DEF SameCall
  <2>3. NoFinal(p.call, q, 0) /\ TalkAnswer(p.call)
    BY DEF NoFinal, TalkAnswer
  <2>4. p.call.op \in Dumps => DumpAnswer(p.call)
    BY DEF DumpAnswer, Flow, FlowOrdered
  <2>5. LoopInv(p.call, p.call, q, 0, dump)
    BY <2>2, <2>3, <2>4 DEF LoopInv
  <2>6. MapKept(p, p)
    BY DEF MapKept
  <2> QED
    BY <1>3, <1>9, <2>5, <2>6
<1>11. ASSUME NEW n \in 1..N, n - 1 \in T
       PROVE  n \in T
  <2> DEFINE v == after[n - 1]
             w == after[n]
             m == msgs[n]
  <2>1. n - 1 \in Nat /\ (n - 1) + 1 = n /\ n \in 0..N /\ n \in Nat
    BY <1>3, <1>11
  <2>2. v \in Reads /\ LoopInv(p.call, v.call, q, n - 1, dump) /\ MapKept(p, v)
    BY <1>11
  <2>3. m \in Msgs /\ n \in DOMAIN q[1].msgs /\ m = q[1].msgs[n] /\ w = Message(v, from, m)
    BY <1>3, <1>9
  <2> HIDE DEF v, w, m, T
  <2>4. SameCall(p.call, v.call) /\ v.call.op \in LibraryCalls
    BY <2>2 DEF LoopInv, SameCall
  <2>5. /\ w \in Reads /\ SameCall(v.call, w.call) /\ (SameMap(v, w) \/ ToldMap(v, w, m))
        /\ v.call.ret # "wait" => w = v
        /\ v.call.ret = "wait" => ReadStep(v.call, w.call, from, m)
    BY <2>2, <2>3, <2>4, MessageRead
  <2>6. LoopInv(p.call, w.call, q, n, dump)
    <3>1. v.call.ret # "wait" => w.call = v.call
      BY <2>5
    <3>2. v.call.ret = "wait" => ReadStep(v.call, w.call, q[1].from, q[1].msgs[(n - 1) + 1])
      BY <2>1, <2>3, <2>5
    <3>3. (n - 1) + 1 \in DOMAIN q[1].msgs
      BY <2>1, <2>3
    <3>4. LoopInv(p.call, w.call, q, (n - 1) + 1, dump)
      BY <2>1, <2>2, <3>1, <3>2, <3>3, LoopStep
    <3> QED
      BY <2>1, <3>4
  <2>7. MapKept(p, w)
    <3>1. CASE SameMap(v, w)
      BY <2>2, <3>1 DEF MapKept, SameMap
    <3>2. CASE ToldMap(v, w, m)
      <4>1. m \in LinkMsgs
        BY <2>3, <3>2, MessageTypes DEF ToldMap
      <4> QED
        BY <2>2, <3>2, <4>1, RememberKept DEF MapKept, ToldMap
    <3> QED
      BY <2>5, <3>1, <3>2
  <2> QED
    BY <2>1, <2>5, <2>6, <2>7 DEF T, w
<1>12. N \in T
  <2> HIDE DEF T
  <2>1. 0..N \subseteq T
    BY <1>3, <1>10, <1>11, IntervalInduction
  <2> QED
    BY <1>3, <2>1
<1>13. Good(N)
  BY <1>12
<1> QED
  BY <1>8, <1>13 DEF N, msgs

-----------------------------------------------------------------------------
(* A datagram.                                                             *)

\* What stays of a call when a datagram is read, which may be cut off.
SameRequest(c, d) ==
  /\ c \in Calls /\ d \in Calls /\ d.op = c.op /\ d.seq = c.seq /\ d.answer = c.answer
  /\ d.verdict = c.verdict /\ d.lost = c.lost

\* The datagram was cut off.
LEMMA CutFields ==
  ASSUME NEW p \in Reads
  PROVE  LET v == [p EXCEPT !.call.cut = TRUE]
         IN  /\ v \in Reads /\ SameRequest(p.call, v.call) /\ SameMap(p, v) /\ v.call.cut
             /\ v.call.ret = p.call.ret /\ v.call.got = p.call.got
<1> DEFINE c == p.call
           t == TRUE
           d == [op |-> c.op, seq |-> c.seq, answer |-> c.answer, junk |-> c.junk, stop |-> c.stop,
                 verdict |-> c.verdict, ret |-> c.ret, got |-> c.got, lost |-> c.lost, cut |-> t]
           v == [p EXCEPT !.call.cut = t]
<1>1. c \in Calls /\ p = [call |-> c, ll |-> p.ll, told |-> p.told] /\ p.ll \in LlSet /\ p.told \in Seq(LinkMsgs)
      /\ t \in BOOLEAN
  BY DEF Reads
<1>2. c = [op |-> c.op, seq |-> c.seq, answer |-> c.answer, junk |-> c.junk, stop |-> c.stop,
           verdict |-> c.verdict, ret |-> c.ret, got |-> c.got, lost |-> c.lost, cut |-> c.cut]
  BY <1>1 DEF Calls
<1> HIDE DEF t
<1>3. [c EXCEPT !.cut = t] = d
  <2> HIDE DEF c
  <2> QED
    BY <1>2
<1>4. v = [call |-> d, ll |-> p.ll, told |-> p.told]
  <2>1. v = [p EXCEPT !.call = [c EXCEPT !.cut = t]]
    OBVIOUS
  <2>2. v = [p EXCEPT !.call = d]
    BY <1>3, <2>1
  <2> HIDE DEF d, v, c
  <2> QED
    BY <1>1, <2>2
<1>5. d \in Calls /\ d.op = c.op /\ d.seq = c.seq /\ d.answer = c.answer /\ d.verdict = c.verdict /\ d.ret = c.ret
      /\ d.got = c.got /\ d.lost = c.lost /\ d.cut = t
  <2> HIDE DEF c
  <2> QED
    BY <1>1 DEF Calls
<1> HIDE DEF d, v
<1>6. v \in Reads /\ SameRequest(c, v.call) /\ SameMap(p, v) /\ v.call.cut = t
      /\ v.call.ret = c.ret /\ v.call.got = c.got
  BY <1>1, <1>4, <1>5 DEF SameRequest, SameMap, Reads
<1> QED
  BY <1>6 DEF v, t

\* An answer that is awaited is not in the datagram just read.
StillQueued(c, d, q) == d.ret = "wait" /\ AnswerQueued(c, q) => AnswerQueued(d, Tail(q))
\* Call c has become d by reading the first datagram.
ReadOver(c, d, q, dump) ==
  /\ SameRequest(c, d)
  /\ c.op \in Talks => /\ d.ret = "ok" => d.verdict = "ack"
                       /\ d.ret = "ok" /\ d.answer => Len(d.got) = 1 /\ d.got[1].seq = d.seq
                       /\ d.ret = "error" => d.verdict = "fail" \/ d.cut
                       /\ d.ret = "wait" => d.got = << >>
                       /\ StillQueued(c, d, q)
  /\ c.op \in Dumps => /\ DumpAnswer(d) /\ StillQueued(c, d, q)
                       /\ d.ret = "wait" => Flow(d, Tail(q), 0, dump)

\* An answer that ends the call is still queued when another datagram was read.
LEMMA AnswerLeft ==
  ASSUME NEW c, NEW d, d.seq = c.seq, d.op = c.op, d.answer = c.answer, NEW q \in Seq(Datagrams), q # << >>,
         AnswerQueued(c, q), Len(q[1].msgs) = 1 /\ MineAt(c, q, 1, 1) => ~Final(c, q[1].msgs[1])
  PROVE  AnswerQueued(d, Tail(q))
<1>1. PICK k \in DOMAIN q : Len(q[k].msgs) = 1 /\ MineAt(c, q, k, 1) /\ Final(c, q[k].msgs[1])
  BY DEF AnswerQueued
<1>2. k \in 1..Len(q) /\ Len(q) \in Nat
  BY SeqElements
<1>3. k # 1
  BY <1>1
<1>4. k - 1 \in Nat /\ k - 1 # 0 /\ (k - 1) + 1 = k /\ 1 \in Nat
  BY <1>2, <1>3
<1>5. MineAt(c, Tail(q), k - 1, 1) /\ Tail(q)[k - 1] = q[k]
  <2>1. /\ MineAt(c, Tail(q), k - 1, 1) <=> k - 1 # 0 /\ MineAt(c, q, (k - 1) + 1, 1)
        /\ MineAt(c, Tail(q), k - 1, 1) => Tail(q)[k - 1] = q[(k - 1) + 1]
    BY <1>4, TailMine
  <2> QED
    BY <1>1, <1>4, <2>1
<1>6. MineAt(d, Tail(q), k - 1, 1)
  BY <1>5 DEF MineAt, Mine
<1>7. k - 1 \in DOMAIN Tail(q)
  BY <1>5 DEF MineAt
<1>8. Final(d, q[k].msgs[1])
  BY <1>1 DEF Final
<1> QED
  BY <1>1, <1>5, <1>6, <1>7, <1>8 DEF AnswerQueued

\* A datagram read by the library.
LEMMA LibraryRead ==
  ASSUME NEW p \in Reads, p.call.ret = "wait", p.call.op \in LibraryCalls, NEW q \in Seq(Datagrams), q # << >>,
         NEW dump, p.call.op \in Talks => TalkConforms(p.call, q) /\ p.call.got = << >>,
         p.call.op \in Dumps => Flow(p.call, q, 0, dump), links \in [Indexes -> LinkNames], NEW cut
  PROVE  LET v == LibraryReads(p, q[1], cut)
         IN  v \in Reads /\ ReadOver(p.call, v.call, q, dump) /\ MapKept(p, v)
<1> DEFINE msgs == AtMost(q[1].msgs, BufMsgs)
           N == Len(msgs)
           M == Len(q[1].msgs)
           u == Messages(p, q[1].from, msgs)
           w == [u EXCEPT !.call.cut = TRUE]
           v == LibraryReads(p, q[1], cut)
           c == p.call
<1>1. u \in Reads /\ LoopInv(c, u.call, q, N, dump) /\ MapKept(p, u)
  BY MessagesRead
<1>2. N \in Nat /\ M \in Nat /\ (M <= BufMsgs => N = M) /\ (~(M <= BufMsgs) => N = BufMsgs /\ M > 1)
      /\ BufMsgs \in Nat
  <2>1. q[1].msgs \in Seq(Msgs)
    <3>1. q[1] \in Datagrams
      BY TailElements
    <3> QED
      BY <3>1 DEF Datagrams
  <2>2. N = (IF M <= BufMsgs THEN M ELSE BufMsgs)
    BY <2>1, AtMostShape, SizesAssumption
  <2>3. M \in Nat /\ BufMsgs \in Nat /\ BufMsgs # 0
    BY <2>1, SizesAssumption
  <2> HIDE DEF N, M
  <2> QED
    BY <2>2, <2>3
<1> HIDE DEF msgs, u, N
<1>3. v = IF M <= BufMsgs THEN u
          ELSE IF u.call.ret = "wait" /\ cut = "partial" /\ u.call.op \in {"set", "get", "listen"}
               THEN Return(w, "error") ELSE w
  BY DEF LibraryReads, u, msgs
<1>4. /\ w \in Reads /\ SameRequest(u.call, w.call) /\ SameMap(u, w) /\ w.call.cut
      /\ w.call.ret = u.call.ret /\ w.call.got = u.call.got
  BY <1>1, CutFields
<1> HIDE DEF w, M, v
<1>5. SameCall(c, u.call) /\ SameRequest(c, u.call) /\ SameRequest(c, w.call)
  BY <1>1, <1>4 DEF LoopInv, SameCall, SameRequest
<1>6. ASSUME NEW d, SameRequest(c, d), c.op \in Talks \cup Dumps, u.call.ret = "wait"
      PROVE  StillQueued(c, d, q)
  <2> SUFFICES ASSUME AnswerQueued(c, q)
               PROVE  AnswerQueued(d, Tail(q))
    BY DEF StillQueued
  <2>1. NoFinal(u.call, q, N)
    BY <1>1, <1>6 DEF LoopInv
  <2>2. ASSUME M = 1, MineAt(c, q, 1, 1)
        PROVE  ~Final(c, q[1].msgs[1])
    <3>1. N = 1
      BY <1>2, <2>2
    <3>2. MineAt(u.call, q, 1, 1)
      BY <1>5, <2>2 DEF MineAt, Mine, SameCall
    <3>3. ~Final(u.call, q[1].msgs[1])
      BY <2>1, <3>1, <3>2 DEF NoFinal
    <3> QED
      BY <1>5, <3>3 DEF Final, SameCall
  <2> QED
    BY <1>6, <2>2, AnswerLeft DEF SameRequest, M
<1>7. CASE M <= BufMsgs
  <2>1. v = u
    BY <1>3, <1>7
  <2>2. ASSUME c.op \in Talks
        PROVE  StillQueued(c, u.call, q)
    BY <1>5, <1>6, <2>2 DEF StillQueued
  <2>3. ASSUME c.op \in Dumps
        PROVE  StillQueued(c, u.call, q) /\ (u.call.ret = "wait" => Flow(u.call, Tail(q), 0, dump))
    <3>1. StillQueued(c, u.call, q)
      BY <1>5, <1>6, <2>3 DEF StillQueued
    <3>2. ASSUME u.call.ret = "wait"
          PROVE  Flow(u.call, Tail(q), 0, dump)
      <4>1. Flow(u.call, q, N, dump)
        BY <1>1, <2>3, <3>2 DEF LoopInv
      <4>2. M <= N
        BY <1>2, <1>7
      <4>3. SameFlow(u.call, u.call)
        BY DEF SameFlow
      <4> QED
        BY <1>2, <4>1, <4>2, <4>3, FlowShifts DEF M
    <3> QED
      BY <3>1, <3>2
  <2>4. ReadOver(c, u.call, q, dump)
    BY <1>1, <1>5, <2>2, <2>3 DEF ReadOver, LoopInv, TalkAnswer
  <2> QED
    BY <1>1, <2>1, <2>4 DEF v
<1>8. CASE ~(M <= BufMsgs) /\ v = w
  <2>1. ASSUME c.op \in Talks
        PROVE  StillQueued(c, w.call, q)
    BY <1>4, <1>5, <1>6, <2>1 DEF StillQueued
  <2>2. ASSUME c.op \in Dumps
        PROVE  StillQueued(c, w.call, q) /\ (w.call.ret = "wait" => Flow(w.call, Tail(q), 0, dump))
    <3>1. StillQueued(c, w.call, q)
      BY <1>4, <1>5, <1>6, <2>2 DEF StillQueued
    <3>2. ASSUME w.call.ret = "wait"
          PROVE  Flow(w.call, Tail(q), 0, dump)
      <4>1. Flow(u.call, q, N, dump)
        BY <1>1, <1>4, <2>2, <3>2 DEF LoopInv
      <4>2. SameFlow(u.call, w.call)
        BY <1>4 DEF SameFlow, SameRequest
      <4> QED
        BY <1>2, <1>4, <4>1, <4>2, FlowShifts
    <3> QED
      BY <3>1, <3>2
  <2>3. TalkAnswer(u.call) => TalkAnswer(w.call)
    BY <1>4 DEF TalkAnswer, SameRequest
  <2>4. DumpAnswer(u.call) => DumpAnswer(w.call)
    BY <1>4 DEF DumpAnswer, SameRequest
  <2>5. ReadOver(c, w.call, q, dump)
    BY <1>1, <1>4, <1>5, <2>1, <2>2, <2>3, <2>4 DEF ReadOver, LoopInv, TalkAnswer
  <2>6. MapKept(p, w)
    BY <1>1, <1>4 DEF MapKept, SameMap
  <2> QED
    BY <1>4, <1>8, <2>5, <2>6 DEF v
<1>9. CASE ~(M <= BufMsgs) /\ v = Return(w, "error") /\ u.call.op \in {"set", "get", "listen"}
  <2>1. v \in Reads /\ SameCall(w.call, v.call) /\ SameMap(w, v) /\ v.call.ret = "error" /\ v.call.got = w.call.got
    BY <1>4, <1>9, ReturnFields
  <2>2. v.call.cut /\ SameRequest(c, v.call) /\ c.op \notin Dumps
    BY <1>4, <1>5, <1>9, <2>1 DEF SameCall, SameRequest, Dumps
  <2>3. ReadOver(c, v.call, q, dump)
    BY <2>1, <2>2 DEF ReadOver, StillQueued
  <2>4. MapKept(p, v)
    BY <1>1, <1>4, <2>1 DEF MapKept, SameMap
  <2> QED
    BY <2>1, <2>3, <2>4 DEF v
<1> QED
  BY <1>3, <1>7, <1>8, <1>9

\* The programs' own reads.
LEMMA KeptFields ==
  ASSUME NEW p \in Reads, NEW d \in Datagrams
  PROVE  LET v == Kept(p, d)
             keep == AtMost(d.msgs, BufMsgs - Len(p.call.got))
         IN  /\ v \in Reads /\ SameRequest(p.call, v.call) /\ SameMap(p, v) /\ v.call.ret = p.call.ret
             /\ v.call.got = p.call.got \o keep
             /\ ~v.call.cut => ~p.call.cut /\ keep = d.msgs
             /\ keep \in Seq(Msgs) /\ \A x \in DOMAIN keep : x \in DOMAIN d.msgs /\ keep[x] = d.msgs[x]
<1> DEFINE c == p.call
           room == BufMsgs - Len(c.got)
           keep == AtMost(d.msgs, room)
           g == c.got \o keep
           t == c.cut \/ Len(d.msgs) > room
           e == [op |-> c.op, seq |-> c.seq, answer |-> c.answer, junk |-> c.junk, stop |-> c.stop,
                 verdict |-> c.verdict, ret |-> c.ret, got |-> g, lost |-> c.lost, cut |-> t]
           v == Kept(p, d)
<1>1. c \in Calls /\ p = [call |-> c, ll |-> p.ll, told |-> p.told] /\ p.ll \in LlSet /\ p.told \in Seq(LinkMsgs)
  BY DEF Reads
<1>2. c = [op |-> c.op, seq |-> c.seq, answer |-> c.answer, junk |-> c.junk, stop |-> c.stop,
           verdict |-> c.verdict, ret |-> c.ret, got |-> c.got, lost |-> c.lost, cut |-> c.cut]
      /\ c.got \in Seq(Msgs) /\ c.cut \in BOOLEAN
  BY <1>1 DEF Calls
<1>3. room \in Int /\ d.msgs \in Seq(Msgs) /\ Len(d.msgs) \in Nat
  <2>1. d.msgs \in Seq(Msgs) /\ Len(c.got) \in Nat /\ BufMsgs \in Nat
    BY <1>2, SizesAssumption DEF Datagrams
  <2> HIDE DEF c
  <2> QED
    BY <2>1
<1> HIDE DEF room
<1>4. /\ keep \in Seq(Msgs) /\ \A x \in DOMAIN keep : x \in DOMAIN d.msgs /\ keep[x] = d.msgs[x]
      /\ Len(d.msgs) <= room => keep = d.msgs
  <2>1. CASE Len(d.msgs) <= room
    BY <1>3, <2>1 DEF AtMost
  <2>2. CASE ~(Len(d.msgs) <= room)
    <3>1. keep = SubSeq(d.msgs, 1, room)
      BY <2>2 DEF AtMost
    <3>2. /\ SubSeq(d.msgs, 1, room) \in Seq(Msgs)
          /\ \A x \in DOMAIN SubSeq(d.msgs, 1, room) :
               x \in DOMAIN d.msgs /\ SubSeq(d.msgs, 1, room)[x] = d.msgs[x]
      BY <1>3, <2>2
    <3> QED
      BY <2>2, <3>1, <3>2
  <2> QED
    BY <2>1, <2>2
<1> HIDE DEF keep
<1>5. g \in Seq(Msgs) /\ t \in BOOLEAN
  BY <1>2, <1>3, <1>4
<1>6. v = [p EXCEPT !.call = [[c EXCEPT !.got = g] EXCEPT !.cut = t]]
  BY <1>1, <1>2 DEF Kept, keep, room
<1>7. t <=> c.cut \/ Len(d.msgs) > room
  OBVIOUS
<1> HIDE DEF g, t
<1>8. [[c EXCEPT !.got = g] EXCEPT !.cut = t] = e
  <2> DEFINE z == [op |-> c.op, seq |-> c.seq, answer |-> c.answer, junk |-> c.junk, stop |-> c.stop,
                   verdict |-> c.verdict, ret |-> c.ret, got |-> g, lost |-> c.lost, cut |-> c.cut]
  <2> HIDE DEF c
  <2>1. [c EXCEPT !.got = g] = z
    BY <1>2
  <2>2. [z EXCEPT !.cut = t] = e
    OBVIOUS
  <2> QED
    BY <2>1, <2>2
<1>9. v = [call |-> e, ll |-> p.ll, told |-> p.told]
  <2>1. v = [p EXCEPT !.call = e]
    BY <1>6, <1>8
  <2> HIDE DEF e, v, c
  <2> QED
    BY <1>1, <2>1
<1>10. e \in Calls /\ e.op = c.op /\ e.seq = c.seq /\ e.answer = c.answer /\ e.verdict = c.verdict /\ e.ret = c.ret
       /\ e.got = g /\ e.lost = c.lost /\ e.cut = t
  <2> HIDE DEF c
  <2> QED
    BY <1>1, <1>5 DEF Calls
<1> HIDE DEF e, v
<1>11. /\ v \in Reads /\ SameRequest(c, v.call) /\ SameMap(p, v) /\ v.call.cut = t
       /\ v.call.ret = c.ret /\ v.call.got = g
  BY <1>1, <1>9, <1>10 DEF SameRequest, SameMap, Reads
<1>12. ~v.call.cut => ~c.cut /\ keep = d.msgs
  BY <1>3, <1>4, <1>5, <1>7, <1>11
<1> QED
  BY <1>4, <1>11, <1>12 DEF v, g, keep, room

\* Joining a sequence with an element more.
LEMMA ConcatAppend ==
  ASSUME NEW S, NEW s \in Seq(S), NEW t \in Seq(S), NEW e \in S
  PROVE  s \o Append(t, e) = Append(s \o t, e)
<1> DEFINE a == s \o Append(t, e)
           b == Append(s \o t, e)
           m == Len(s) + Len(t)
<1>1. s \o t \in Seq(S) /\ Append(t, e) \in Seq(S) /\ Len(s) \in Nat /\ Len(t) \in Nat
  OBVIOUS
<1>2. a \in Seq(S) /\ b \in Seq(S) /\ Len(a) = m + 1 /\ Len(b) = m + 1 /\ m \in Nat
  BY <1>1
<1>3. \A x \in 1..Len(s) : a[x] = s[x] /\ b[x] = s[x]
  BY <1>1
<1>4. \A x \in (Len(s) + 1)..m : a[x] = t[x - Len(s)] /\ b[x] = t[x - Len(s)]
  BY <1>1
<1>5. a[m + 1] = e /\ b[m + 1] = e
  BY <1>1
<1>6. \A x \in 1..(m + 1) : x \in 1..Len(s) \/ x \in (Len(s) + 1)..m \/ x = m + 1
  BY <1>1
<1>7. \A x \in 1..(m + 1) : a[x] = b[x]
  BY <1>3, <1>4, <1>5, <1>6
<1> HIDE DEF a, b, m
<1>8. a = b
  BY <1>2, <1>7, SeqEqual
<1> QED
  BY <1>8 DEF a, b

\* Joining one element more of a beginning.
LEMMA PrefixGrows ==
  ASSUME NEW S, NEW s \in Seq(S), NEW keep \in Seq(S), NEW n \in 1..Len(keep)
  PROVE  s \o SubSeq(keep, 1, n) = Append(s \o SubSeq(keep, 1, n - 1), keep[n])
<1> DEFINE a == SubSeq(keep, 1, n - 1)
           b == SubSeq(keep, 1, n)
<1>1. a \in Seq(S) /\ b \in Seq(S) /\ Len(a) = n - 1 /\ Len(b) = n /\ n \in Nat /\ n # 0 /\ keep[n] \in S
      /\ \A x \in 1..n : b[x] = keep[x]
      /\ \A y \in 1..(n - 1) : a[y] = keep[y]
  OBVIOUS
<1> HIDE DEF a, b
<1>2. b = Append(a, keep[n])
  BY <1>1
<1>3. s \o Append(a, keep[n]) = Append(s \o a, keep[n])
  BY <1>1, ConcatAppend
<1> QED
  BY <1>2, <1>3 DEF a, b

\* All the messages of a datagram of links are handed out, or those that fit.
LEMMA FlowTakesAll ==
  ASSUME NEW c \in Calls, NEW d \in Calls, SameFlow(c, d), NEW q \in Seq(Datagrams), q # << >>, NEW dump,
         Flow(c, q, 0, dump), NEW keep \in Seq(Msgs), d.got = c.got \o keep,
         \A x \in DOMAIN keep : /\ x \in DOMAIN q[1].msgs /\ keep[x] = q[1].msgs[x]
                                /\ MineAt(c, q, 1, x) /\ q[1].msgs[x].type = "link",
         ~d.cut => keep = q[1].msgs
  PROVE  Flow(d, Tail(q), 0, dump)
<1> DEFINE N == Len(keep)
           After(n) == [seq |-> c.seq, verdict |-> c.verdict, cut |-> c.cut, answer |-> c.answer, op |-> c.op,
                        got |-> c.got \o SubSeq(keep, 1, n), junk |-> c.junk, stop |-> c.stop, ret |-> c.ret,
                        lost |-> c.lost]
           T == {n \in 0..N : Flow(After(n), q, n, dump)}
<1>1. N \in Nat /\ DOMAIN keep = 1..N /\ c.got \in Seq(Msgs) /\ \A n \in 1..N : keep[n] \in Msgs
  BY SeqElements DEF Calls
<1>2. \A n \in 0..N : After(n) \in Calls /\ SameFlow(c, After(n)) /\ After(n).got = c.got \o SubSeq(keep, 1, n)
                      /\ After(n).seq = c.seq /\ After(n).verdict = c.verdict /\ After(n).cut = c.cut
  <2> SUFFICES ASSUME NEW n \in 0..N
               PROVE  /\ After(n) \in Calls /\ SameFlow(c, After(n)) /\ After(n).got = c.got \o SubSeq(keep, 1, n)
                      /\ After(n).seq = c.seq /\ After(n).verdict = c.verdict /\ After(n).cut = c.cut
    OBVIOUS
  <2>1. c.got \o SubSeq(keep, 1, n) \in Seq(Msgs)
    BY <1>1
  <2> DEFINE g == c.got \o SubSeq(keep, 1, n)
  <2> HIDE DEF g
  <2> QED
    BY <2>1 DEF Calls, SameFlow, g
<1>3. c.got \o SubSeq(keep, 1, 0) = c.got /\ SubSeq(keep, 1, N) = keep
  BY <1>1
<1>4. ASSUME NEW n \in 1..N
      PROVE  c.got \o SubSeq(keep, 1, n) = Append(c.got \o SubSeq(keep, 1, n - 1), keep[n])
  <2>1. n \in 1..Len(keep) /\ c.got \in Seq(Msgs) /\ keep \in Seq(Msgs)
    BY <1>1
  <2> QED
    BY ONLY <2>1, PrefixGrows, Zenon
<1> HIDE DEF After, N
<1>5. 0 \in T
  <2>1. Flow(After(0), q, 0, dump)
    <3>1. 0 \in 0..N /\ 0 <= 0 /\ 0 \in Nat
      BY <1>1
    <3>2. SameFlow(c, After(0)) /\ After(0).got = c.got
      BY <1>2, <1>3, <3>1
    <3> QED
      BY <3>1, <3>2, FlowSkips
  <2> QED
    BY <1>1, <2>1
<1>6. ASSUME NEW n \in 1..N, n - 1 \in T
      PROVE  n \in T
  <2>1. n - 1 \in 0..N /\ n - 1 \in Nat /\ (n - 1) + 1 = n /\ n \in 0..N
    BY <1>1
  <2>2. Flow(After(n - 1), q, n - 1, dump)
    BY <1>6
  <2>3. After(n - 1) \in Calls /\ SameFlow(After(n - 1), After(n))
    BY <1>2, <2>1 DEF SameFlow
  <2>4. keep[n] = q[1].msgs[n] /\ MineAt(c, q, 1, n) /\ q[1].msgs[n].type = "link"
    BY <1>1
  <2>5. MineAt(After(n - 1), q, 1, (n - 1) + 1) /\ q[1].msgs[(n - 1) + 1].type = "link"
    BY <1>2, <2>1, <2>4 DEF MineAt, Mine
  <2>6. After(n).got = Append(After(n - 1).got, q[1].msgs[(n - 1) + 1])
    <3>1. After(n).got = c.got \o SubSeq(keep, 1, n) /\ After(n - 1).got = c.got \o SubSeq(keep, 1, n - 1)
      BY <1>2, <2>1
    <3> QED
      BY <1>4, <2>1, <2>4, <3>1
  <2>7. Flow(After(n), q, (n - 1) + 1, dump)
    BY <2>1, <2>2, <2>3, <2>5, <2>6, FlowTakes
  <2> QED
    BY <2>1, <2>7
<1>7. N \in T
  <2> HIDE DEF T
  <2>1. 0..N \subseteq T
    BY <1>1, <1>5, <1>6, IntervalInduction
  <2> QED
    BY <1>1, <2>1
<1>8. Flow(After(N), q, N, dump) /\ N \in 0..N
  BY <1>1, <1>7
<1>9. After(N).got = d.got /\ SameFlow(After(N), d)
  <2>1. After(N).got = c.got \o SubSeq(keep, 1, N)
    BY <1>2, <1>8
  <2> QED
    BY <1>2, <1>3, <1>8, <2>1 DEF SameFlow
<1>10. d.cut \/ Len(q[1].msgs) <= N
  <2>1. ~d.cut => Len(q[1].msgs) = N
    BY DEF N
  <2> QED
    BY <1>1, <2>1
<1> QED
  BY <1>1, <1>8, <1>9, <1>10, FlowShifts

\* What readSock reads is the dump, on a socket nobody else sends to.
ReadsDump(c, q, dump) == Flow(c, q, 0, dump) /\ OwnOnly(c, q) /\ c.verdict = "ack"

\* A datagram read by readSock.
LEMMA ReadSockRead ==
  ASSUME NEW p \in Reads, p.call.op = "readSock", p.call.ret = "wait", NEW q \in Seq(Datagrams), q # << >>,
         NEW dump, links \in [Indexes -> LinkNames]
  PROVE  LET v == readSock(p, q[1])
             d == v.call
         IN  /\ v \in Reads /\ SameRequest(p.call, d) /\ SameMap(p, v) /\ StillQueued(p.call, d, q)
             /\ ReadsDump(p.call, q, dump) =>
                  /\ d.ret = "ok" => d.cut \/ IndexesOf(d.got) = All
                  /\ d.ret = "wait" => ReadsDump(d, Tail(q), dump)
<1> DEFINE c == p.call
           head == q[1].msgs[1].type
           v == readSock(p, q[1])
           d == v.call
<1>1. /\ q[1] \in Datagrams /\ q[1].msgs \in Seq(Msgs) /\ 1 \in DOMAIN q[1].msgs /\ head \in {"link", "done", "ack", "fail"}
      /\ 1 \in DOMAIN q /\ DOMAIN q[1].msgs = 1..Len(q[1].msgs) /\ Len(q[1].msgs) \in Nat
  <2>1. q[1] \in Datagrams /\ 1 \in DOMAIN q
    BY TailElements
  <2>2. q[1].msgs \in Seq(Msgs) /\ q[1].msgs # << >>
    BY <2>1 DEF Datagrams
  <2> DEFINE ms == q[1].msgs
  <2> HIDE DEF ms
  <2>3. ms \in Seq(Msgs) /\ ms # << >>
    BY <2>2 DEF ms
  <2>4. 1 \in DOMAIN ms /\ DOMAIN ms = 1..Len(ms) /\ Len(ms) \in Nat /\ ms[1] \in Msgs
    BY <2>3, TailElements
  <2> QED
    BY <2>1, <2>2, <2>4, MessageTypes DEF ms
<1>2. c \in Calls
  BY DEF Reads
<1>3. CASE v = Return(p, "error") \/ (head = "done" /\ v = Return(p, "ok"))
  <2>1. v \in Reads /\ SameCall(c, d) /\ SameMap(p, v) /\ d.got = c.got /\ d.ret \in {"ok", "error"}
        /\ (d.ret = "ok" => head = "done")
    <3>1. CASE v = Return(p, "error")
      BY <3>1, ReturnFields
    <3>2. CASE head = "done" /\ v = Return(p, "ok")
      BY <3>2, ReturnFields
    <3> QED
      BY <1>3, <3>1, <3>2
  <2> HIDE DEF v
  <2>2. StillQueued(c, d, q) /\ SameRequest(c, d)
    BY <2>1 DEF StillQueued, SameRequest, SameCall
  <2>3. ASSUME ReadsDump(c, q, dump), d.ret = "ok"
        PROVE  d.cut \/ IndexesOf(d.got) = All
    <3>1. MineAt(c, q, 1, 1) /\ Len(q[1].msgs) = 1 /\ head = "done"
      BY <1>1, <2>1, <2>3 DEF ReadsDump, OwnOnly
    <3>2. \A k, i \in Nat : MineAt(c, q, k, i) /\ Ahead(0, k, i) => Earlier(1, 1, k, i) \/ (k = 1 /\ i = 1)
      <4> SUFFICES ASSUME NEW k \in Nat, NEW i \in Nat, MineAt(c, q, k, i)
                   PROVE  Earlier(1, 1, k, i) \/ (k = 1 /\ i = 1)
        OBVIOUS
      <4>1. k \in 1..Len(q) /\ Len(q) \in Nat
        BY SeqElements DEF MineAt
      <4>2. k = 1 => i \in 1..Len(q[1].msgs)
        BY <1>1 DEF MineAt
      <4> QED
        BY <3>1, <4>1, <4>2 DEF Earlier
    <3>3. 0 \in Nat /\ 1 \in Nat /\ 1 > 0 /\ Flow(c, q, 0, dump)
      BY <2>3 DEF ReadsDump
    <3>4. c.cut \/ IndexesOf(c.got) = All
      BY <1>2, <3>1, <3>2, <3>3, FlowEnds
    <3> QED
      BY <2>1, <3>4 DEF SameCall
  <2> QED
    BY <2>1, <2>2, <2>3 DEF v
<1>4. CASE head = "link" /\ v = Kept(p, q[1])
  <2> DEFINE keep == AtMost(q[1].msgs, BufMsgs - Len(c.got))
  <2>1. /\ v \in Reads /\ SameRequest(c, d) /\ SameMap(p, v) /\ d.ret = c.ret /\ d.got = c.got \o keep
        /\ ~d.cut => ~c.cut /\ keep = q[1].msgs
        /\ keep \in Seq(Msgs) /\ \A x \in DOMAIN keep : x \in DOMAIN q[1].msgs /\ keep[x] = q[1].msgs[x]
    <3> DEFINE w == Kept(p, q[1])
    <3>1. /\ w \in Reads /\ SameRequest(c, w.call) /\ SameMap(p, w) /\ w.call.ret = c.ret /\ w.call.got = c.got \o keep
          /\ ~w.call.cut => ~c.cut /\ keep = q[1].msgs
          /\ keep \in Seq(Msgs) /\ \A x \in DOMAIN keep : x \in DOMAIN q[1].msgs /\ keep[x] = q[1].msgs[x]
      BY <1>1, KeptFields
    <3>2. v = w
      BY <1>4
    <3> HIDE DEF v, w, keep
    <3> QED
      BY <3>1, <3>2
  <2> HIDE DEF v, keep
  <2>2. StillQueued(c, d, q)
    <3>1. c.op \notin Talks
      BY DEF Talks
    <3>2. ~Final(c, q[1].msgs[1])
      BY <1>4, <3>1 DEF Final
    <3> QED
      BY <2>1, <3>2, AnswerLeft DEF StillQueued, SameRequest
  <2>3. ASSUME ReadsDump(c, q, dump)
        PROVE  ReadsDump(d, Tail(q), dump)
    <3>1. \A x \in DOMAIN q[1].msgs : MineAt(c, q, 1, x) /\ q[1].msgs[x].type = "link"
      BY <1>1, <1>4, <2>3 DEF ReadsDump, OwnOnly
    <3>2. SameFlow(c, d) /\ d \in Calls
      BY <2>1 DEF SameFlow, SameRequest
    <3>3. Flow(d, Tail(q), 0, dump)
      BY <1>2, <2>1, <2>3, <3>1, <3>2, FlowTakesAll DEF ReadsDump
    <3>4. OwnOnly(d, Tail(q))
      <4> SUFFICES ASSUME NEW k \in DOMAIN Tail(q)
                   PROVE  /\ \A j \in DOMAIN Tail(q)[k].msgs : MineAt(d, Tail(q), k, j)
                          /\ Tail(q)[k].msgs[1].type = "link" =>
                               \A j \in DOMAIN Tail(q)[k].msgs : Tail(q)[k].msgs[j].type = "link"
                          /\ Tail(q)[k].msgs[1].type # "link" => Len(Tail(q)[k].msgs) = 1
        BY DEF OwnOnly
      <4>1. Tail(q)[k] = q[k + 1] /\ k + 1 \in DOMAIN q
        BY TailElements
      <4>2. ASSUME NEW j \in DOMAIN Tail(q)[k].msgs
            PROVE  MineAt(d, Tail(q), k, j)
        <5>1. MineAt(c, q, k + 1, j)
          BY <2>3, <4>1, <4>2 DEF ReadsDump, OwnOnly
        <5> QED
          BY <3>2, <4>1, <4>2, <5>1 DEF MineAt, Mine, SameFlow
      <4> QED
        BY <2>3, <4>1, <4>2 DEF ReadsDump, OwnOnly
    <3> QED
      BY <2>1, <2>3, <3>3, <3>4 DEF ReadsDump, SameRequest
  <2> QED
    BY <2>1, <2>2, <2>3 DEF v
<1> QED
  BY <1>1, <1>3, <1>4 DEF readSock

\* A datagram read by recv_reply.
LEMMA RecvReplyRead ==
  ASSUME NEW p \in Reads, NEW d \in Datagrams
  PROVE  LET v == recv_reply(p, d)
         IN  v \in Reads /\ SameRequest(p.call, v.call) /\ SameMap(p, v) /\ v.call.ret = "ok"
<1> DEFINE u == IF d.msgs[1].type = "done" THEN p ELSE Kept(p, d)
           v == recv_reply(p, d)
<1>1. u \in Reads /\ SameRequest(p.call, u.call) /\ SameMap(p, u)
  <2>1. p.call \in Calls
    BY DEF Reads
  <2>2. SameRequest(p.call, p.call) /\ SameMap(p, p)
    BY <2>1 DEF SameRequest, SameMap
  <2>3. Kept(p, d) \in Reads /\ SameRequest(p.call, Kept(p, d).call) /\ SameMap(p, Kept(p, d))
    BY KeptFields
  <2> QED
    BY <2>2, <2>3
<1>2. v = Return(u, "ok")
  BY DEF recv_reply
<1> HIDE DEF u, v
<1>3. v \in Reads /\ SameCall(u.call, v.call) /\ SameMap(u, v) /\ v.call.ret = "ok"
  BY <1>1, <1>2, ReturnFields
<1>4. SameRequest(p.call, v.call) /\ SameMap(p, v)
  BY <1>1, <1>3 DEF SameRequest, SameCall, SameMap
<1> QED
  BY <1>3, <1>4 DEF v

-----------------------------------------------------------------------------
(* A read of the socket.                                                   *)

\* What a read must leave of the call.
CallLeft(c, d, s, t, n) ==
  /\ SameRequest(c, d)
  /\ TalkInv(d, t.q, t.dump) /\ DumpInv(d, t.q, t.dump) /\ ReadInv(d, t, n)
  /\ d.op \in Talks => /\ d.ret = "ok" => d.verdict = "ack"
                       /\ d.ret = "ok" /\ d.answer => Len(d.got) = 1 /\ d.got[1].seq = d.seq
                       /\ d.ret = "error" => d.verdict = "fail" \/ d.cut
  /\ d.op \in Dumps => DumpAnswer(d)
  /\ d.op = "readSock" /\ d.ret = "ok" /\ n = t.before[2] => d.cut \/ IndexesOf(d.got) = All
  /\ Waits(d) => Coming(d, t.q, t.dump)

\* A read changes the queue and the call; the rest of the invariant stays.
LEMMA ReceiveFrame ==
  ASSUME NetlinkInv, call \in Calls, sock' \in Socks, sock'.q = sock.q \/ (sock.q # << >> /\ sock'.q = Tail(sock.q)),
         sock'.dump = sock.dump, sock'.groups = sock.groups, sock'.open = sock.open, sock'.sent = sock.sent,
         sock'.before = sock.before, links' = links, nlseq' = nlseq, events' = events,
         CallLeft(call, call', sock, sock', events)
  PROVE  NetlinkInv'
<1>1. NetTyped /\ NumbersOK /\ FreshSocket /\ BeforeOK
  BY DEF NetlinkInv
<1>2. SameRequest(call, call') /\ call' \in Calls /\ sock.open /\ sock.q \in Seq(Datagrams) /\ Len(sock.q) <= QLen
      /\ QLen \in Nat
  BY <1>1, SockTyped, SizesAssumption DEF CallLeft, SameRequest, NetTyped
<1>3. Len(sock'.q) <= QLen /\ \A k \in DOMAIN sock'.q : \E l \in DOMAIN sock.q : sock'.q[k] = sock.q[l]
  <2>1. CASE sock'.q = sock.q
    BY <1>2, <2>1
  <2>2. CASE sock.q # << >> /\ sock'.q = Tail(sock.q)
    <3>1. /\ Len(Tail(sock.q)) = Len(sock.q) - 1 /\ Len(sock.q) \in Nat
          /\ \A k \in DOMAIN Tail(sock.q) : Tail(sock.q)[k] = sock.q[k + 1] /\ k + 1 \in DOMAIN sock.q
      BY <1>2, <2>2, TailElements
    <3>2. Len(sock'.q) <= QLen
      BY <1>2, <2>2, <3>1
    <3> QED
      BY <2>2, <3>1, <3>2
  <2> QED
    BY <2>1, <2>2
<1>4. NetTyped'
  BY <1>1, <1>2, <1>3 DEF NetTyped
<1>5. NumbersOK'
  <2>1. ASSUME NEW k \in DOMAIN sock'.q, NEW j \in DOMAIN sock'.q[k].msgs,
               sock'.q[k].from = Kernel, sock'.q[k].msgs[j].pid = Me
        PROVE  sock'.q[k].msgs[j].seq <= nlseq'
    <3>1. PICK l \in DOMAIN sock.q : sock'.q[k] = sock.q[l]
      BY <1>3
    <3> QED
      BY <1>1, <2>1, <3>1 DEF NumbersOK
  <2>2. DumpOK(sock.dump)'
    <3>1. DumpOK(sock.dump)
      BY <1>1 DEF NumbersOK
    <3> QED
      BY <3>1 DEF DumpOK
  <2>3. call'.seq <= nlseq'
    BY <1>1, <1>2 DEF NumbersOK, SameRequest
  <2> QED
    BY <2>1, <2>2, <2>3 DEF NumbersOK
<1>6. FreshSocket' /\ BeforeOK'
  <2>1. sock.q = << >> => sock'.q = << >>
    OBVIOUS
  <2> QED
    BY <1>1, <2>1 DEF FreshSocket, BeforeOK
<1>7. AnswersBelong'
  <2>1. All' = All
    BY DEF All
  <2> QED
    BY <2>1 DEF CallLeft, AnswersBelong, DumpAnswer, Talks, Dumps
<1>8. CallInv' /\ AnswerComes'
  BY <1>7 DEF CallLeft, CallInv, AnswerComes
<1> QED
  BY <1>4, <1>5, <1>6, <1>8 DEF NetlinkInv

\* The socket overran.
LEMMA OverrunLeft ==
  ASSUME NetlinkInv, call \in Calls, NEW d, SameCall(call, d), d.got = call.got, call.ret = "wait",
         d.ret = "wait" => d = call, d.ret \in {"wait", "ok", "error"}, d.ret # "wait" => d.op \in {"readSock", "recv_reply"},
         d.op = "readSock" => d.ret # "ok",
         NEW t, t.q = sock.q, t.dump = sock.dump, t.groups = sock.groups, t.before = sock.before
  PROVE  CallLeft(call, d, sock, t, events)
<1>1. SameRequest(call, d)
  BY DEF SameCall, SameRequest
<1>2. CallInv /\ AnswerComes
  BY DEF NetlinkInv
<1>3. CASE d.ret = "wait"
  <2>1. d = call
    BY <1>3
  <2>2. /\ TalkInv(d, t.q, t.dump) /\ DumpInv(d, t.q, t.dump) /\ (Waits(d) => Coming(d, t.q, t.dump))
    BY <1>2, <2>1 DEF CallInv, AnswerComes
  <2>3. ReadInv(d, t, events)
    BY <1>2, <2>1 DEF CallInv, ReadInv
  <2>4. d.op \in Dumps => DumpAnswer(d)
    BY <1>2, <1>3, <2>1 DEF CallInv, AnswersBelong, DumpAnswer, Dumps
  <2> QED
    BY <1>1, <1>3, <2>2, <2>3, <2>4 DEF CallLeft
<1>4. CASE d.ret # "wait"
  <2>1. d.op \notin Talks /\ d.op \notin Dumps
    BY <1>4 DEF Talks, Dumps
  <2> QED
    BY <1>1, <1>4, <2>1 DEF CallLeft, TalkInv, DumpInv, ReadInv, Waits
<1> QED
  BY <1>3, <1>4

\* Reading a datagram leaves only answers of the same kind.
LEMMA TalkTail ==
  ASSUME NEW c, NEW q \in Seq(Datagrams), q # << >>, TalkConforms(c, q)
  PROVE  TalkConforms(c, Tail(q))
<1> DEFINE r == Tail(q)
<1> SUFFICES ASSUME NEW k \in Nat, NEW j \in Nat, MineAt(c, r, k, j)
             PROVE  r[k].msgs[j].type = "fail" <=> c.verdict = "fail"
  BY DEF TalkConforms
<1>1. k # 0 /\ MineAt(c, q, k + 1, j) /\ r[k] = q[k + 1]
  BY TailMine
<1>2. k + 1 \in Nat
  OBVIOUS
<1> QED
  BY <1>1, <1>2 DEF TalkConforms

\* A datagram was read.
LEMMA ReadLeft ==
  ASSUME NetlinkInv, call \in Calls, call.ret = "wait", NEW d, SameRequest(call, d), sock.q # << >>,
         NEW t, t.q = Tail(sock.q), t.dump = sock.dump, t.groups = sock.groups, t.before = sock.before,
         \/ call.op \in LibraryCalls /\ ReadOver(call, d, sock.q, sock.dump)
         \/ /\ call.op = "readSock" /\ StillQueued(call, d, sock.q)
            /\ ReadsDump(call, sock.q, sock.dump) =>
                 /\ d.ret = "ok" => d.cut \/ IndexesOf(d.got) = All
                 /\ d.ret = "wait" => ReadsDump(d, Tail(sock.q), sock.dump)
         \/ call.op = "recv_reply" /\ d.ret = "ok"
  PROVE  CallLeft(call, d, sock, t, events)
<1>1. CallInv /\ AnswerComes /\ sock.q \in Seq(Datagrams) /\ d.op = call.op /\ d.seq = call.seq /\ d.lost = call.lost
      /\ d.answer = call.answer /\ d.verdict = call.verdict
  BY SockTyped DEF NetlinkInv, SameRequest
<1>2. Talks \cap Dumps = {} /\ "readSock" \notin LibraryCalls /\ "recv_reply" \notin LibraryCalls
      /\ Talks \subseteq LibraryCalls /\ Dumps \subseteq LibraryCalls
  BY DEF Talks, Dumps, LibraryCalls
<1>3. MyDump(d, t.dump) <=> MyDump(call, sock.dump)
  BY <1>1 DEF MyDump
<1>4. ASSUME StillQueued(call, d, sock.q), Waits(d)
      PROVE  Coming(d, t.q, t.dump)
  <2>1. Waits(call)
    BY <1>1, <1>4 DEF Waits
  <2>2. Coming(call, sock.q, sock.dump)
    BY <1>1, <2>1 DEF AnswerComes
  <2> QED
    BY <1>1, <1>3, <1>4, <2>2 DEF Coming, StillQueued, Waits
<1>5. CASE call.op \in Talks
  <2>1. ReadOver(call, d, sock.q, sock.dump)
    BY <1>2, <1>5
  <2>2. TalkInv(d, t.q, t.dump)
    <3>1. call.answer => call.op = "get"
      BY <1>1, <1>5 DEF CallInv, TalkInv
    <3>2. ~MyDump(call, sock.dump) /\ TalkConforms(call, sock.q)
      BY <1>1, <1>5 DEF CallInv, TalkInv
    <3>3. TalkConforms(d, t.q)
      <4>1. TalkConforms(call, Tail(sock.q))
        BY <1>1, <3>2, TalkTail
      <4> QED
        BY <1>1, <4>1 DEF TalkConforms, MineAt, Mine
    <3> QED
      BY <1>1, <1>3, <1>5, <2>1, <3>1, <3>2, <3>3 DEF TalkInv, ReadOver
  <2>3. d.op \notin Dumps /\ d.op # "readSock"
    BY <1>1, <1>2, <1>5
  <2> QED
    BY <1>1, <1>4, <1>5, <2>1, <2>2, <2>3 DEF CallLeft, ReadOver, DumpInv, ReadInv
<1>6. CASE call.op \in Dumps
  <2>1. ReadOver(call, d, sock.q, sock.dump)
    BY <1>2, <1>6
  <2>2. d.op \notin Talks /\ d.op # "readSock"
    BY <1>1, <1>2, <1>6
  <2> QED
    BY <1>1, <1>4, <1>6, <2>1, <2>2 DEF CallLeft, ReadOver, TalkInv, DumpInv, ReadInv
<1>7. CASE call.op = "readSock"
  <2>1. d.op \notin Talks /\ d.op \notin Dumps /\ StillQueued(call, d, sock.q)
    BY <1>1, <1>2, <1>7
  <2>2. ASSUME events = t.before[2]
        PROVE  /\ d.ret = "ok" => d.cut \/ IndexesOf(d.got) = All
               /\ d.ret = "wait" => ReadsDump(d, t.q, t.dump)
               /\ ~t.groups /\ (t.dump # << >> => MyDump(d, t.dump))
    <3>1. /\ ReadsDump(call, sock.q, sock.dump) /\ ~sock.groups
          /\ sock.dump # << >> => MyDump(call, sock.dump)
      BY <1>1, <1>7, <2>2 DEF CallInv, ReadInv, ReadsDump
    <3> QED
      BY <1>2, <1>3, <1>7, <3>1
  <2>3. ReadInv(d, t, events)
    BY <2>2 DEF ReadInv, ReadsDump
  <2> QED
    BY <1>4, <2>1, <2>2, <2>3 DEF CallLeft, TalkInv, DumpInv
<1>8. CASE d.op \notin Talks /\ d.op \notin Dumps /\ d.op # "readSock"
  BY <1>8 DEF CallLeft, TalkInv, DumpInv, ReadInv, Waits
<1> QED
  BY <1>1, <1>5, <1>6, <1>7, <1>8

Ind == NetlinkInv /\ MapInv(ll, told)

\* A read keeps the invariant.
LEMMA ReceiveKept ==
  ASSUME Ind, Receive
  PROVE  Ind'
<1> DEFINE p == [call |-> call, ll |-> ll, told |-> told]
<1>1. NetlinkInv /\ NetTyped /\ MapInv(ll, told) /\ call.ret = "wait"
  BY DEF Ind, NetlinkInv, Receive
<1>2. call \in Calls /\ sock \in Socks /\ links \in [Indexes -> LinkNames] /\ sock.q \in Seq(Datagrams)
  BY <1>1, SockTyped DEF NetTyped, ShortCalls
<1>3. p \in Reads /\ p.call = call /\ p.ll = ll /\ p.told = told
  BY <1>1, <1>2 DEF MapInv, Reads
<1>4. links' = links /\ nlseq' = nlseq /\ events' = events
  BY DEF Receive
<1> HIDE DEF p
<1>5. ASSUME NEW v, v \in Reads, MapKept(p, v), call' = v.call, ll' = v.ll, told' = v.told
      PROVE  MapInv(ll, told)'
  BY <1>1, <1>3, <1>5 DEF MapKept
<1>6. CASE /\ sock.overrun /\ sock' = [sock EXCEPT !.overrun = FALSE]
           /\ \E v \in {p, Return(p, "error"), Return(p, "ok")} :
                /\ v = CASE call.op = "readSock" -> Return(p, "error")
                         [] call.op = "recv_reply" -> Return(p, "ok")
                         [] OTHER -> p
                /\ call' = v.call /\ ll' = v.ll /\ told' = v.told
  <2>1. /\ sock' \in Socks /\ sock'.q = sock.q /\ sock'.dump = sock.dump /\ sock'.groups = sock.groups
        /\ sock'.open = sock.open /\ sock'.sent = sock.sent /\ sock'.before = sock.before
    BY <1>2, <1>6 DEF Socks
  <2>2. PICK v : /\ v = CASE call.op = "readSock" -> Return(p, "error")
                          [] call.op = "recv_reply" -> Return(p, "ok")
                          [] OTHER -> p
                 /\ call' = v.call /\ ll' = v.ll /\ told' = v.told
    BY <1>6
  <2>3. /\ v \in Reads /\ SameCall(call, v.call) /\ SameMap(p, v) /\ v.call.got = call.got
        /\ v.call.ret = "wait" => v.call = call
        /\ v.call.ret \in {"wait", "ok", "error"}
        /\ v.call.ret # "wait" => v.call.op \in {"readSock", "recv_reply"}
        /\ v.call.op = "readSock" => v.call.ret # "ok"
    <3>1. CASE call.op = "readSock"
      <4>1. v = Return(p, "error")
        BY <2>2, <3>1
      <4>2. v \in Reads /\ SameCall(call, v.call) /\ SameMap(p, v) /\ v.call.ret = "error" /\ v.call.got = call.got
        BY <1>3, <4>1, ReturnFields
      <4> QED
        BY <3>1, <4>2 DEF SameCall
    <3>2. CASE call.op = "recv_reply"
      <4>1. v = Return(p, "ok")
        BY <2>2, <3>2
      <4>2. v \in Reads /\ SameCall(call, v.call) /\ SameMap(p, v) /\ v.call.ret = "ok" /\ v.call.got = call.got
        BY <1>3, <4>1, ReturnFields
      <4> QED
        BY <3>2, <4>2 DEF SameCall
    <3>3. CASE call.op \notin {"readSock", "recv_reply"}
      <4>1. v = p
        BY <2>2, <3>3
      <4> QED
        BY <1>1, <1>2, <1>3, <3>3, <4>1 DEF SameCall, SameMap
    <3> QED
      BY <3>1, <3>2, <3>3
  <2>4. CallLeft(call, v.call, sock, sock', events)
    BY <1>1, <1>2, <2>1, <2>3, OverrunLeft
  <2>5. NetlinkInv'
    BY <1>1, <1>2, <1>4, <2>1, <2>2, <2>4, ReceiveFrame
  <2>6. MapInv(ll, told)'
    BY <1>5, <2>2, <2>3 DEF SameMap, MapKept
  <2> QED
    BY <2>5, <2>6 DEF Ind
<1>7. ASSUME NEW v, v \in Reads, MapKept(p, v), call' = v.call, ll' = v.ll, told' = v.told, sock.q # << >>,
             sock' = [sock EXCEPT !.q = Tail(sock.q)], SameRequest(call, v.call),
             \/ call.op \in LibraryCalls /\ ReadOver(call, v.call, sock.q, sock.dump)
             \/ /\ call.op = "readSock" /\ StillQueued(call, v.call, sock.q)
                /\ ReadsDump(call, sock.q, sock.dump) =>
                     /\ v.call.ret = "ok" => v.call.cut \/ IndexesOf(v.call.got) = All
                     /\ v.call.ret = "wait" => ReadsDump(v.call, Tail(sock.q), sock.dump)
             \/ call.op = "recv_reply" /\ v.call.ret = "ok"
      PROVE  Ind'
  <2>1. Tail(sock.q) \in Seq(Datagrams)
    BY <1>2, <1>7, TailElements
  <2>2. /\ sock' \in Socks /\ sock'.q = Tail(sock.q) /\ sock'.dump = sock.dump /\ sock'.groups = sock.groups
        /\ sock'.open = sock.open /\ sock'.sent = sock.sent /\ sock'.before = sock.before
    <3> DEFINE r == Tail(sock.q)
    <3> HIDE DEF r
    <3>1. sock' = [sock EXCEPT !.q = r] /\ r \in Seq(Datagrams)
      BY <1>7, <2>1 DEF r
    <3>2. /\ sock' \in Socks /\ sock'.q = r /\ sock'.dump = sock.dump /\ sock'.groups = sock.groups
          /\ sock'.open = sock.open /\ sock'.sent = sock.sent /\ sock'.before = sock.before
      BY <1>2, <3>1 DEF Socks
    <3> QED
      BY <3>2 DEF r
  <2>3. CallLeft(call, v.call, sock, sock', events)
    BY <1>1, <1>2, <1>7, <2>2, ReadLeft
  <2>4. NetlinkInv'
    BY <1>1, <1>2, <1>4, <1>7, <2>2, <2>3, ReceiveFrame
  <2>5. MapInv(ll, told)'
    BY <1>5, <1>7
  <2> QED
    BY <2>4, <2>5 DEF Ind
<1>8. CASE /\ ~sock.overrun /\ sock.q # << >> /\ sock' = [sock EXCEPT !.q = Tail(sock.q)]
           /\ IF call.op = "readSock"
              THEN \E v \in {readSock(p, Head(sock.q))} : call' = v.call /\ ll' = v.ll /\ told' = v.told
              ELSE IF call.op = "recv_reply"
              THEN \E v \in {recv_reply(p, Head(sock.q))} : call' = v.call /\ ll' = v.ll /\ told' = v.told
              ELSE \E cut \in {"partial", "short"} : \E v \in {LibraryReads(p, Head(sock.q), cut)} :
                     call' = v.call /\ ll' = v.ll /\ told' = v.told
  <2>1. Head(sock.q) = sock.q[1] /\ sock.q[1] \in Datagrams
    BY <1>2, <1>8, TailElements
  <2>2. CASE call.op = "readSock"
    <3> DEFINE v == readSock(p, sock.q[1])
    <3>1. call' = v.call /\ ll' = v.ll /\ told' = v.told
      BY <1>8, <2>1, <2>2
    <3>2. /\ v \in Reads /\ SameRequest(call, v.call) /\ SameMap(p, v) /\ StillQueued(call, v.call, sock.q)
          /\ ReadsDump(call, sock.q, sock.dump) =>
               /\ v.call.ret = "ok" => v.call.cut \/ IndexesOf(v.call.got) = All
               /\ v.call.ret = "wait" => ReadsDump(v.call, Tail(sock.q), sock.dump)
      BY <1>1, <1>2, <1>3, <1>8, <2>2, ReadSockRead
    <3> HIDE DEF v
    <3>3. MapKept(p, v)
      BY <3>2 DEF MapKept, SameMap
    <3> QED
      BY <1>7, <1>8, <2>2, <3>1, <3>2, <3>3
  <2>3. CASE call.op = "recv_reply"
    <3> DEFINE v == recv_reply(p, sock.q[1])
    <3>1. call' = v.call /\ ll' = v.ll /\ told' = v.told
      BY <1>8, <2>1, <2>3
    <3>2. v \in Reads /\ SameRequest(call, v.call) /\ SameMap(p, v) /\ v.call.ret = "ok"
      BY <1>3, <2>1, RecvReplyRead
    <3> HIDE DEF v
    <3>3. MapKept(p, v)
      BY <3>2 DEF MapKept, SameMap
    <3> QED
      BY <1>7, <1>8, <2>3, <3>1, <3>2, <3>3
  <2>4. CASE call.op \notin {"readSock", "recv_reply"}
    <3>1. PICK cut \in {"partial", "short"} : LET v == LibraryReads(p, sock.q[1], cut)
                                              IN  call' = v.call /\ ll' = v.ll /\ told' = v.told
      BY <1>8, <2>1, <2>4
    <3> DEFINE v == LibraryReads(p, sock.q[1], cut)
    <3>2. call.op \in LibraryCalls
      BY <1>2, <2>4 DEF Calls, LibraryCalls
    <3>3. /\ call.op \in Talks => TalkConforms(call, sock.q) /\ call.got = << >>
          /\ call.op \in Dumps => Flow(call, sock.q, 0, sock.dump)
      BY <1>1 DEF NetlinkInv, CallInv, TalkInv, DumpInv
    <3>4. v \in Reads /\ ReadOver(call, v.call, sock.q, sock.dump) /\ MapKept(p, v)
      BY <1>1, <1>2, <1>3, <1>8, <3>2, <3>3, LibraryRead
    <3>5. call' = v.call /\ ll' = v.ll /\ told' = v.told
      BY <3>1
    <3> HIDE DEF v
    <3>6. SameRequest(call, v.call)
      BY <3>4 DEF ReadOver
    <3> QED
      BY <1>7, <1>8, <3>2, <3>4, <3>5, <3>6
  <2> QED
    BY <2>2, <2>3, <2>4
<1> QED
  BY <1>6, <1>8 DEF Receive, p

-----------------------------------------------------------------------------
(* Looking up a name, and what leaves the map alone.                       *)

\* The cache takes the index of an entry that has the name, if there is one.
LooksUp(l, name, x, r) ==
  \/ /\ r.ll = l /\ r.ret = x
     /\ \A h \in Hashes : \A i \in DOMAIN l.idxmap[h] : l.idxmap[h][i].name # name
  \/ \E h \in Hashes : \E i \in DOMAIN l.idxmap[h] :
       /\ l.idxmap[h][i].name = name /\ r.ret = l.idxmap[h][i].index
       /\ r.ll = [l EXCEPT !.icache = l.idxmap[h][i].index, !.ncache = name]

\* What ll_name_to_index answers and caches.
LEMMA LookUpFinds ==
  ASSUME NEW l \in LlSet, NEW name, NEW x, ~(l.icache # 0 /\ l.ncache = name)
  PROVE  LooksUp(l, name, x, ll_name_to_index(l, name, x))
<1> DEFINE hits(h) == {i \in DOMAIN l.idxmap[h] : l.idxmap[h][i].name = name}
           chains == {h \in DOMAIN l.idxmap : hits(h) # {}}
           chain == CHOOSE h \in chains : \A k \in chains : h <= k
           pos == CHOOSE i \in hits(chain) : \A j \in hits(chain) : i <= j
           first == l.idxmap[chain][pos].index
           r == ll_name_to_index(l, name, x)
<1>1. DOMAIN l.idxmap = Hashes /\ Hashes \subseteq Nat /\ \A h \in Hashes : l.idxmap[h] \in Seq(Entries)
  BY SizesAssumption DEF LlSet, Hashes
<1>2. r = IF chains # {} THEN [ll |-> [l EXCEPT !.icache = first, !.ncache = name], ret |-> first]
          ELSE [ll |-> l, ret |-> x]
  BY DEF ll_name_to_index
<1> HIDE DEF r
<1>3. CASE chains = {}
  <2>1. r.ll = l /\ r.ret = x
    BY <1>2, <1>3
  <2>2. \A h \in Hashes : \A i \in DOMAIN l.idxmap[h] : l.idxmap[h][i].name # name
    BY <1>1, <1>3
  <2> QED
    BY <2>1, <2>2 DEF r, LooksUp
<1>4. CASE chains # {}
  <2>1. chain \in chains
    <3>1. chains \subseteq Nat
      BY <1>1
    <3>2. \E h \in chains : \A k \in chains : h <= k
      <4> HIDE DEF chains
      <4> QED
        BY <1>4, <3>1, LeastNumber
    <3> HIDE DEF chains
    <3> QED
      BY <3>2
  <2>2. chain \in Hashes /\ hits(chain) # {}
    BY <1>1, <2>1
  <2> HIDE DEF chain
  <2>3. pos \in hits(chain)
    <3>1. DOMAIN l.idxmap[chain] \subseteq Nat
      BY <1>1, <2>2
    <3>2. hits(chain) \subseteq Nat
      BY <3>1
    <3> HIDE DEF hits
    <3>3. \E i \in hits(chain) : \A j \in hits(chain) : i <= j
      BY <2>2, <3>2, LeastNumber
    <3> QED
      BY <3>3
  <2>4. pos \in DOMAIN l.idxmap[chain] /\ l.idxmap[chain][pos].name = name
    BY <2>3
  <2>5. r = [ll |-> [l EXCEPT !.icache = first, !.ncache = name], ret |-> first]
    BY <1>2, <1>4
  <2> HIDE DEF pos
  <2>6. r.ret = l.idxmap[chain][pos].index
        /\ r.ll = [l EXCEPT !.icache = l.idxmap[chain][pos].index, !.ncache = name]
    BY <2>5
  <2> QED
    BY <2>2, <2>4, <2>6 DEF r, LooksUp
<1> QED
  BY <1>3, <1>4

\* A lookup keeps the invariant.
LEMMA LookUpKept ==
  ASSUME Ind, NEW name \in LinkNames, LookUp(name)
  PROVE  Ind'
<1> DEFINE now == {i \in Indexes : links[i] = name}
           x == IF now = {} THEN 0 ELSE CHOOSE i \in now : TRUE
           r == ll_name_to_index(ll, name, x)
<1>1. r.ll # ll /\ ll' = r.ll /\ told' = told /\ links' = links /\ sock' = sock /\ nlseq' = nlseq /\ call' = call
      /\ events' = events
  BY DEF LookUp
<1>2. ll \in LlSet /\ told \in Seq(LinkMsgs) /\ Chained(ll) /\ HoldsNewest(ll, told) /\ HoldsAll(ll, told)
      /\ LlBuckets \in Nat \ {0}
  BY SizesAssumption DEF Ind, MapInv
<1>3. ~(ll.icache # 0 /\ ll.ncache = name)
  BY <1>1 DEF ll_name_to_index
<1> HIDE DEF x
<1>4. PICK h \in Hashes : \E i \in DOMAIN ll.idxmap[h] :
             ll.idxmap[h][i].name = name /\ r.ll = [ll EXCEPT !.icache = ll.idxmap[h][i].index, !.ncache = name]
  <2>1. \/ r.ll = ll
        \/ \E h \in Hashes : \E i \in DOMAIN ll.idxmap[h] :
             ll.idxmap[h][i].name = name /\ r.ll = [ll EXCEPT !.icache = ll.idxmap[h][i].index, !.ncache = name]
    <3>1. LooksUp(ll, name, x, r)
      BY <1>2, <1>3, LookUpFinds
    <3> HIDE DEF r
    <3> QED
      BY <3>1 DEF LooksUp
  <2> QED
    BY <1>1, <2>1
<1> HIDE DEF r
<1>5. PICK i \in DOMAIN ll.idxmap[h] :
             ll.idxmap[h][i].name = name /\ r.ll = [ll EXCEPT !.icache = ll.idxmap[h][i].index, !.ncache = name]
  BY <1>4
<1> DEFINE e == ll.idxmap[h][i]
<1>6. e \in Entries
  <2>1. ll.idxmap[h] \in Seq(Entries)
    BY <1>2 DEF LlSet, Hashes
  <2> QED
    BY <1>5, <2>1
<1>7. PICK k \in DOMAIN told : EntryOf(told[k]) = e
  BY <1>2, <1>5 DEF HoldsNewest
<1> HIDE DEF e
<1>8. ll' = [ll EXCEPT !.icache = e.index, !.ncache = name] /\ e.name = name
  BY <1>1, <1>5 DEF e
<1>9. e.index \in Nat
  BY <1>6, Interfaces DEF Entries
<1>10. ll'.idxmap = ll.idxmap /\ ll'.icache = e.index /\ ll'.ncache = name /\ ll' \in LlSet
  BY <1>2, <1>8, <1>9 DEF LlSet
<1>11. told[k].idx = e.index /\ told[k].name = name
  BY <1>7, <1>8 DEF EntryOf
<1>12. CacheTold(ll', told)
  BY <1>10, <1>11 DEF CacheTold
<1>13. Chained(ll') /\ HoldsNewest(ll', told) /\ HoldsAll(ll', told)
  BY <1>2, <1>10 DEF Chained, HoldsNewest, HoldsAll
<1>14. MapInv(ll', told)
  BY <1>2, <1>10, <1>12, <1>13 DEF MapInv
<1>15. NetlinkInv'
  BY <1>1 DEF Ind, NetlinkInv, NetTyped, NumbersOK, CallInv, AnswersBelong, AnswerComes, FreshSocket, BeforeOK,
              All, DumpOK
<1> QED
  BY <1>1, <1>14, <1>15 DEF Ind

\* A step that leaves the map alone.
LEMMA MapStays ==
  ASSUME Ind, ll' = ll, told' = told, NetlinkInv'
  PROVE  Ind'
BY DEF Ind

\* Every step keeps the invariant, and
LEMMA NetlinkStep == Ind /\ [NetlinkNext]_netlinkVars => Ind'
<1> SUFFICES ASSUME Ind, [NetlinkNext]_netlinkVars
             PROVE  Ind'
  OBVIOUS
<1>0. NetlinkInv
  BY DEF Ind
<1>1. CASE KernelDumps
  BY <1>0, <1>1, DumpKept, MapStays DEF KernelDumps
<1>2. ASSUME NEW i \in Indexes, NEW name \in LinkNames, KernelRenames(i, name)
      PROVE  Ind'
  BY <1>0, <1>2, RenameKept, MapStays DEF KernelRenames
<1>3. ASSUME NEW i \in Indexes, KernelNotices(i)
      PROVE  Ind'
  BY <1>0, <1>3, NoticeKept, MapStays DEF KernelNotices
<1>4. ASSUME NEW type \in {"done", "ack"}, ForeignArrives(type)
      PROVE  Ind'
  BY <1>0, <1>4, ForeignKept, MapStays DEF ForeignArrives
<1>5. ASSUME NEW groups \in BOOLEAN, rtnl_open(groups)
      PROVE  Ind'
  BY <1>0, <1>5, OpenKept, MapStays DEF rtnl_open
<1>6. CASE rtnl_close
  BY <1>0, <1>6, CloseKept, MapStays DEF rtnl_close
<1>7. ASSUME NEW op \in {"set", "get"}, NEW i \in {1}, NEW answer \in BOOLEAN, NEW junk \in BOOLEAN,
             op = "set" => ~answer, rtnl_talk(op, i, answer, junk)
      PROVE  Ind'
  <2>1. op \in Talks /\ i \in Indexes
    BY <1>7, Interfaces DEF Talks
  <2>2. NetlinkInv'
    BY <1>0, <1>7, <2>1, TalkStarts
  <2> QED
    BY <1>7, <2>2, MapStays DEF rtnl_talk
<1>8. CASE rtnl_send
  BY <1>0, <1>8, SendKept, MapStays DEF rtnl_send
<1>9. CASE rtnl_talk_routeadd
  BY <1>0, <1>9, RouteaddKept, MapStays DEF rtnl_talk_routeadd
<1>10. ASSUME NEW op \in Dumps \cup {"readSock", "recv_reply"}, NEW junk \in BOOLEAN, NEW stop \in Nat,
              op = "readSock" => OwnSocket(FALSE), StartDump(op, junk, stop)
       PROVE  Ind'
  <2>1. NetlinkInv'
    BY <1>0, <1>10, DumpStarts
  <2> QED
    BY <1>10, <2>1, MapStays DEF StartDump
<1>11. ASSUME NEW op \in {"listen", "recv_reply"}, Listen(op)
       PROVE  Ind'
  <2>1. NetlinkInv'
    BY <1>0, <1>11, ListenStarts
  <2> QED
    BY <1>11, <2>1, MapStays DEF Listen
<1>12. ASSUME NEW junk \in BOOLEAN, NEW stop \in {0, 1}, rtnl_dump(junk, stop)
       PROVE  Ind'
  BY <1>10, <1>12 DEF rtnl_dump, Dumps
<1>13. CASE ll_init_map
  BY <1>10, <1>13 DEF ll_init_map, Dumps
<1>14. CASE nl_addr_get
  BY <1>10, <1>14 DEF nl_addr_get
<1>15. CASE set_routing_table
  BY <1>8, <1>15 DEF set_routing_table
<1>16. CASE get_routing_table
  BY <1>10, <1>16 DEF get_routing_table
<1>17. CASE rtnl_listen
  BY <1>11, <1>17 DEF rtnl_listen
<1>18. CASE mon_routing_table
  BY <1>11, <1>18 DEF mon_routing_table
<1>19. CASE Receive
  BY <1>19, ReceiveKept
<1>20. ASSUME NEW name \in LinkNames, LookUp(name)
       PROVE  Ind'
  BY <1>20, LookUpKept
<1>21. CASE UNCHANGED netlinkVars
  <2>1. NetlinkInv'
    BY <1>0, <1>21 DEF netlinkVars, NetlinkInv, NetTyped, NumbersOK, CallInv, AnswersBelong, AnswerComes,
                       FreshSocket, BeforeOK, All, DumpOK
  <2> QED
    BY <1>21, <2>1, MapStays DEF netlinkVars
<1> QED
  BY <1>1, <1>2, <1>3, <1>4, <1>5, <1>6, <1>7, <1>8, <1>9, <1>12, <1>13, <1>14, <1>15, <1>16, <1>17, <1>18,
     <1>19, <1>20, <1>21 DEF NetlinkNext

\* it holds at the start, so that
LEMMA NetlinkStarts == NetlinkInit => Ind
<1> SUFFICES ASSUME NetlinkInit
             PROVE  Ind
  OBVIOUS
<1>1. sock = NoSock /\ nlseq = 0 /\ call = NoCall /\ ll = EmptyLl /\ told = << >> /\ events = 0
  BY DEF NetlinkInit
<1>2. links \in [Indexes -> LinkNames]
  <2>1. links = CHOOSE f \in [Indexes -> LinkNames] : \A i, j \in Indexes : i # j => f[i] # f[j]
    BY DEF NetlinkInit
  <2>2. \E f \in [Indexes -> LinkNames] : \A i, j \in Indexes : i # j => f[i] # f[j]
    BY LinksAssumption
  <2> QED
    BY <2>1, <2>2
<1>3. call \in ShortCalls /\ call \notin Calls /\ call.ret = "ok" /\ call.op = "none"
  BY <1>1, ShortApart DEF NoCall, ShortCalls
<1>4. sock \in Socks /\ sock.q = << >> /\ sock.dump = << >> /\ ~sock.open
  BY <1>1 DEF NoSock, Socks
<1>5. NetTyped
  <2>1. Len(sock.q) <= QLen
    BY <1>4, SizesAssumption
  <2> QED
    BY <1>1, <1>2, <1>3, <1>4, <2>1 DEF NetTyped
<1>6. NumbersOK
  BY <1>3, <1>4 DEF NumbersOK, DumpOK
<1>7. CallInv /\ AnswerComes
  BY <1>3 DEF CallInv, TalkInv, DumpInv, ReadInv, AnswersBelong, AnswerComes, Waits, Talks, Dumps
<1>8. FreshSocket /\ BeforeOK
  BY <1>4 DEF FreshSocket, BeforeOK
<1>9. MapInv(ll, told)
  <2>1. ll \in LlSet /\ told \in Seq(LinkMsgs)
    BY <1>1 DEF EmptyLl, LlSet
  <2>2. \A h \in Hashes : ll.idxmap[h] = << >>
    BY <1>1 DEF EmptyLl, Hashes
  <2>3. Chained(ll) /\ HoldsNewest(ll, told)
    BY <2>2 DEF Chained, HoldsNewest
  <2>4. HoldsAll(ll, told) /\ CacheTold(ll, told)
    BY <1>1 DEF HoldsAll, CacheTold, EmptyLl
  <2> QED
    BY <2>1, <2>3, <2>4 DEF MapInv
<1> QED
  BY <1>5, <1>6, <1>7, <1>8, <1>9 DEF Ind, NetlinkInv

\* it always holds.
LEMMA NetlinkAlways == NetlinkSpec => []Ind
BY NetlinkStarts, NetlinkStep, PTL DEF NetlinkSpec

-----------------------------------------------------------------------------

\* A call of the netlink library returns what the kernel answered to that very
\* request, whatever abandoned calls, notices and other processes left in the
\* socket: NetlinkInv says which messages of the queue are the call's, that
\* those of a dump go on where the call is, and what is still to come.
THEOREM AnswersAreOwn == NetlinkSpec => []AnswersBelong
<1>1. Ind => AnswersBelong
  BY DEF Ind, NetlinkInv, CallInv
<1> QED
  BY <1>1, NetlinkAlways, PTL

\* rtnl_talk, a dump and readSock wait only while an answer is in the socket or
\* to be sent, or was dropped when the socket overran.
THEOREM AnswersCome == NetlinkSpec => []WaitsForAnAnswer
<1>1. Ind => WaitsForAnAnswer
  <2> SUFFICES ASSUME Ind, call.ret = "wait", call.op \in {"set", "get", "dump", "ll_init_map", "readSock"}
               PROVE  sock.q # << >> \/ sock.dump # << >> \/ call.lost
    BY DEF WaitsForAnAnswer
  <2>1. Coming(call, sock.q, sock.dump)
    BY DEF Ind, NetlinkInv, AnswerComes, Waits, Talks, Dumps
  <2> QED
    BY <2>1 DEF Coming, AnswerQueued, MyDump
<1> QED
  BY <1>1, NetlinkAlways, PTL

\* What the map finds of an interface.
LEMMA FoundIs ==
  ASSUME NEW l, NEW t, MapInv(l, t), NEW i \in Indexes
  PROVE  \/ At(l, i) = {} /\ \A k \in DOMAIN t : t[k].idx = i => t[k].name = NoName
         \/ /\ At(l, i) # {} /\ Found(l, i) \in Entries /\ Found(l, i).index = i
            /\ \E h \in Hashes : \E x \in DOMAIN l.idxmap[h] : l.idxmap[h][x] = Found(l, i)
<1> DEFINE h == i % LlBuckets
           ch == l.idxmap[h]
<1>1. h \in Hashes /\ i \in Nat
  BY Interfaces, SizesAssumption DEF Hashes
<1>2. ch \in Seq(Entries) /\ l \in LlSet
  BY <1>1 DEF MapInv, LlSet, Hashes
<1>3. At(l, i) = {x \in 1..Len(ch) : ch[x].index = i} /\ DOMAIN ch = 1..Len(ch)
  BY <1>2 DEF At, Chain
<1>4. Found(l, i) = ch[CHOOSE x \in At(l, i) : \A y \in At(l, i) : x <= y]
  BY DEF Found, Chain
<1>5. CASE At(l, i) = {}
  <2>1. ASSUME NEW k \in DOMAIN t, t[k].idx = i, t[k].name # NoName
        PROVE  FALSE
    <3>1. \E x \in DOMAIN ch : ch[x].index = i
      BY <2>1 DEF MapInv, HoldsAll
    <3> QED
      BY <1>3, <1>5, <3>1
  <2> QED
    BY <1>5, <2>1
<1>6. CASE At(l, i) # {}
  <2> HIDE DEF ch
  <2>1. PICK x \in DOMAIN ch : ch[x].index = i
    BY <1>3, <1>6
  <2>2. \A y \in DOMAIN ch : ch[y].index = i => y = x
    BY <1>1, <2>1 DEF MapInv, Chained, ch
  <2>3. At(l, i) = {x} /\ x \in Nat
    BY <1>2, <1>3, <2>1, <2>2
  <2>4. Found(l, i) = ch[x]
    <3>1. (CHOOSE z \in At(l, i) : \A y \in At(l, i) : z <= y) = x
      BY <2>3
    <3> QED
      BY <1>4, <3>1
  <2>5. ch[x] \in Entries
    BY <1>2, <2>1
  <2>6. \E z \in Hashes : \E y \in DOMAIN l.idxmap[z] : l.idxmap[z][y] = Found(l, i)
    BY <1>1, <2>1, <2>4 DEF ch
  <2> QED
    BY <1>6, <2>1, <2>4, <2>5, <2>6
<1> QED
  BY <1>5, <1>6

\* The interface map of ll_map.c holds of every interface what rtnl_listen or
\* the dump of ll_init_map handed it last, and ll_name_to_index answers with an
\* index that once had the name, however the one-entry cache has aged.
THEOREM MapHoldsNewest == NetlinkSpec => []MapIsNewest
<1>1. ASSUME Ind
      PROVE  MapIsNewest
  <2> DEFINE about(i) == {k \in DOMAIN told : told[k].idx = i /\ told[k].name # NoName}
             Newest(i) == told[CHOOSE k \in about(i) : \A j \in about(i) : j <= k]
             Had(name) == {told[k].idx : k \in {j \in DOMAIN told : told[j].name = name}}
             ret(name) == ll_name_to_index(ll, name, 0).ret
  <2>1. MapInv(ll, told) /\ ll \in LlSet /\ HoldsNewest(ll, told) /\ CacheTold(ll, told) /\ told \in Seq(LinkMsgs)
        /\ DOMAIN told \subseteq Nat
    BY <1>1 DEF Ind, MapInv
  <2>2. \A e \in Entries : e.name \in LinkNames /\ e.name # NoName /\ e.index \in Indexes
    BY LinksAssumption DEF Entries
  <2>3. \A i \in Indexes : i # 0
    BY Interfaces
  <2>4. ASSUME NEW i \in Indexes
        PROVE  IF about(i) = {} THEN ll_idx_n2a(ll, i) = NoName
               ELSE ll_idx_n2a(ll, i) = Newest(i).name /\ ll_index_to_flags(ll, i) = Newest(i).flags
    <3>1. CASE At(ll, i) = {} /\ \A k \in DOMAIN told : told[k].idx = i => told[k].name = NoName
      <4>1. about(i) = {}
        BY <3>1
      <4> QED
        BY <3>1, <4>1 DEF ll_idx_n2a
    <3>2. CASE /\ At(ll, i) # {} /\ Found(ll, i) \in Entries /\ Found(ll, i).index = i
               /\ \E h \in Hashes : \E x \in DOMAIN ll.idxmap[h] : ll.idxmap[h][x] = Found(ll, i)
      <4>1. PICK k \in DOMAIN told : EntryOf(told[k]) = Found(ll, i) /\ LastTold(told, k)
        BY <2>1, <3>2 DEF HoldsNewest
      <4>2. told[k].idx = i /\ told[k].name = Found(ll, i).name /\ told[k].flags = Found(ll, i).flags
            /\ told[k].name # NoName
        BY <2>2, <3>2, <4>1 DEF EntryOf
      <4>3. k \in about(i) /\ about(i) \subseteq Nat
        BY <2>1, <4>2
      <4>4. \A j \in about(i) : j <= k
        <5> SUFFICES ASSUME NEW j \in about(i)
                     PROVE  j <= k
          OBVIOUS
        <5>1. j \in DOMAIN told /\ told[j].idx = told[k].idx /\ told[j].name # NoName /\ j \in Nat /\ k \in Nat
          BY <2>1, <4>2
        <5>2. ~(j > k)
          BY <4>1, <5>1 DEF LastTold
        <5> QED
          BY <5>1, <5>2
      <4>5. Newest(i) = told[k]
        <5> HIDE DEF about
        <5> DEFINE c == CHOOSE z \in about(i) : \A j \in about(i) : j <= z
        <5>1. c \in about(i) /\ \A j \in about(i) : j <= c
          BY <4>3, <4>4
        <5> HIDE DEF c
        <5>2. c = k
          BY <4>3, <4>4, <5>1
        <5> QED
          BY <5>2 DEF c
      <4>6. ll_idx_n2a(ll, i) = Found(ll, i).name /\ ll_index_to_flags(ll, i) = Found(ll, i).flags
        BY <2>3, <3>2 DEF ll_idx_n2a, ll_index_to_flags
      <4> HIDE DEF Newest
      <4> QED
        BY <4>2, <4>3, <4>5, <4>6
    <3> HIDE DEF about, Newest
    <3> QED
      BY <2>1, <3>1, <3>2, FoundIs
  <2>5. ASSUME NEW name \in LinkNames
        PROVE  /\ ret(name) # 0 => ret(name) \in Had(name)
               /\ \A i \in Indexes : Had(name) = {i} /\ ll_idx_n2a(ll, i) = name => ret(name) = i
    <3>1. CASE ll.icache # 0 /\ ll.ncache = name
      <4>1. ret(name) = ll.icache
        BY <3>1 DEF ll_name_to_index
      <4>2. ll.icache \in Had(name)
        BY <2>1, <3>1 DEF CacheTold
      <4> HIDE DEF ret, Had
      <4> QED
        BY <4>1, <4>2
    <3>2. CASE ~(ll.icache # 0 /\ ll.ncache = name)
      <4> DEFINE r == ll_name_to_index(ll, name, 0)
      <4>1. LooksUp(ll, name, 0, r)
        BY <2>1, <3>2, LookUpFinds
      <4>2. ret(name) = r.ret
        OBVIOUS
      <4> HIDE DEF r, ret
      <4>3. CASE /\ r.ret = 0
                 /\ \A h \in Hashes : \A i \in DOMAIN ll.idxmap[h] : ll.idxmap[h][i].name # name
        <5>1. ASSUME NEW i \in Indexes, ll_idx_n2a(ll, i) = name
              PROVE  FALSE
          <6>1. name # NoName
            BY LinksAssumption
          <6>2. At(ll, i) # {} /\ Found(ll, i).name = name
            BY <5>1, <6>1 DEF ll_idx_n2a
          <6>3. \E h \in Hashes : \E x \in DOMAIN ll.idxmap[h] : ll.idxmap[h][x] = Found(ll, i)
            BY <2>1, <6>2, FoundIs
          <6> QED
            BY <4>3, <6>2, <6>3
        <5> QED
          BY <4>2, <4>3, <5>1
      <4>4. CASE \E h \in Hashes : \E i \in DOMAIN ll.idxmap[h] :
                   ll.idxmap[h][i].name = name /\ r.ret = ll.idxmap[h][i].index
        <5>1. PICK h \in Hashes : \E i \in DOMAIN ll.idxmap[h] :
                     ll.idxmap[h][i].name = name /\ r.ret = ll.idxmap[h][i].index
          BY <4>4
        <5>2. PICK i \in DOMAIN ll.idxmap[h] : ll.idxmap[h][i].name = name /\ r.ret = ll.idxmap[h][i].index
          BY <5>1
        <5>3. PICK k \in DOMAIN told : EntryOf(told[k]) = ll.idxmap[h][i]
          BY <2>1 DEF HoldsNewest
        <5>4. told[k].name = name /\ told[k].idx = r.ret
          BY <5>2, <5>3 DEF EntryOf
        <5>5. r.ret \in Had(name)
          BY <5>4
        <5> HIDE DEF Had
        <5> QED
          BY <4>2, <5>5
      <4> QED
        BY <4>1, <4>3, <4>4 DEF LooksUp
    <3> QED
      BY <3>1, <3>2
  <2> QED
    BY <2>4, <2>5 DEF MapIsNewest
<1> QED
  BY <1>1, NetlinkAlways, PTL
-----------------------------------------------------------------------------
(* Netlink attributes.                                                     *)

Hdrs == [off : Nat, type : Nat, len : Nat]
BuiltMessages ==
  [kind : {"message", "nested", "routeadd"}, max : Nat, len : Nat, start : Nat, hdrs : Seq(Hdrs), top : Nat]

\* Where an attribute ends with its padding.
EndOf(h) == h.off + ALIGN(h.len)

\* The attributes of a message lie one behind the other, each at the aligned end
\* of the one before it, the last at the end of the message.
InARow(hdrs, start) ==
  /\ \A k \in DOMAIN hdrs : hdrs[k].len >= 4
  /\ hdrs # << >> => hdrs[1].off = start
  /\ \A k \in DOMAIN hdrs : k + 1 \in DOMAIN hdrs => hdrs[k + 1].off = EndOf(hdrs[k])
  /\ \A j, k \in DOMAIN hdrs : j < k => EndOf(hdrs[j]) <= hdrs[k].off
Laid(b) ==
  /\ b \in BuiltMessages
  /\ b.start >= 4 /\ b.top <= b.max /\ b.len <= b.max
  /\ InARow(b.hdrs, b.start)
  /\ b.hdrs = << >> => b.len = b.start /\ ALIGN(b.len) = b.len
  /\ b.hdrs # << >> => ALIGN(b.len) = EndOf(b.hdrs[Len(b.hdrs)])
  /\ b.kind # "routeadd" => ALIGN(b.len) = b.len
  /\ b.kind = "routeadd" => /\ b.start = NLHDR
                            /\ b.hdrs # << >> => b.len = b.hdrs[Len(b.hdrs)].off + b.hdrs[Len(b.hdrs)].len

\* Alignment rounds up to the next multiple of four.
LEMMA Aligned ==
  ASSUME NEW n \in Nat
  PROVE  /\ ALIGN(n) \in Nat /\ n <= ALIGN(n) /\ ALIGN(n) <= n + 3
         /\ ALIGN(ALIGN(n)) = ALIGN(n)
         /\ \A m \in Nat : ALIGN(ALIGN(n) + m) = ALIGN(n) + ALIGN(m)
BY DEF ALIGN

\* A header put at the aligned end of a message keeps it laid out.
LEMMA PutKeepsLaid ==
  ASSUME NEW b, Laid(b), NEW type \in Nat, NEW len \in Nat, len >= 4,
         NEW end \in Nat, NEW newlen \in Nat, end <= b.max, newlen <= b.max,
         ALIGN(newlen) = ALIGN(b.len) + ALIGN(len),
         b.kind # "routeadd" => ALIGN(newlen) = newlen,
         b.kind = "routeadd" => newlen = ALIGN(b.len) + len
  PROVE  Laid(Put(b, type, len, end, newlen))
<1> DEFINE h == [off |-> ALIGN(b.len), type |-> type, len |-> len]
           q == Append(b.hdrs, h)
           w == Put(b, type, len, end, newlen)
           n == Len(b.hdrs)
<1>1. b \in BuiltMessages /\ b.hdrs \in Seq(Hdrs) /\ b.len \in Nat /\ b.start \in Nat
  BY DEF Laid, BuiltMessages
<1>2. ALIGN(b.len) \in Nat
  BY <1>1, Aligned
<1>3. h \in Hdrs /\ h.off = ALIGN(b.len) /\ h.len = len /\ EndOf(h) = ALIGN(b.len) + ALIGN(len)
  BY <1>2 DEF Hdrs, EndOf
<1> HIDE DEF h
<1>4. n \in Nat /\ DOMAIN b.hdrs = 1..n
  BY <1>1
<1>5. q \in Seq(Hdrs) /\ Len(q) = n + 1 /\ q[n + 1] = h /\ \A k \in 1..n : q[k] = b.hdrs[k]
  BY <1>1, <1>3, AppendProperties
<1>6. w = [b EXCEPT !.hdrs = q, !.top = end, !.len = newlen]
  BY DEF Put, h
<1> HIDE DEF q, w, n
<1>7. /\ w \in BuiltMessages /\ w.kind = b.kind /\ w.max = b.max /\ w.start = b.start
      /\ w.hdrs = q /\ w.top = end /\ w.len = newlen
  BY <1>1, <1>5, <1>6 DEF BuiltMessages
<1>8. b.hdrs = << >> <=> n = 0
  BY <1>1 DEF n
<1>9. q # << >> /\ q[Len(q)] = h /\ DOMAIN q = 1..(n + 1)
  BY <1>4, <1>5
<1>10. \A k \in 1..n : b.hdrs[k] \in Hdrs
  BY <1>1, <1>4
<1>11. \A k \in 1..n : EndOf(b.hdrs[k]) <= ALIGN(b.len)
  <2>1. ASSUME NEW k \in 1..n
        PROVE  EndOf(b.hdrs[k]) <= ALIGN(b.len)
    <3>1. n # 0 /\ n \in 1..n /\ ALIGN(b.len) = EndOf(b.hdrs[n])
      BY <1>4, <1>8 DEF Laid, n
    <3>2. CASE k = n
      BY <1>2, <3>1, <3>2
    <3>3. CASE k # n
      <4>1. EndOf(b.hdrs[k]) <= b.hdrs[n].off
        BY <1>4, <3>1, <3>3 DEF Laid, InARow
      <4>2. b.hdrs[n].off \in Nat /\ b.hdrs[n].len \in Nat /\ b.hdrs[k].off \in Nat /\ b.hdrs[k].len \in Nat
        BY <1>10, <3>1 DEF Hdrs
      <4>3. ALIGN(b.hdrs[n].len) \in Nat /\ ALIGN(b.hdrs[k].len) \in Nat
        BY <4>2, Aligned
      <4> QED
        BY <3>1, <4>1, <4>2, <4>3 DEF EndOf
    <3> QED
      BY <3>2, <3>3
  <2> QED
    BY <2>1
<1>12. InARow(q, b.start)
  <2>1. \A k \in 1..(n + 1) : q[k].len >= 4
    <3>1. \A k \in 1..n : b.hdrs[k].len >= 4
      BY <1>4 DEF Laid, InARow
    <3> QED
      <4>1. \A k \in 1..(n + 1) : k \in 1..n \/ k = n + 1
        BY <1>4
      <4> QED
        BY <1>3, <1>5, <3>1, <4>1
  <2>2. q[1].off = b.start
    <3>1. CASE n = 0
      BY <1>3, <1>5, <1>8, <3>1 DEF Laid
    <3>2. CASE n # 0
      BY <1>4, <1>5, <1>8, <3>2 DEF Laid, InARow
    <3> QED
      BY <3>1, <3>2
  <2>3. \A k \in 1..n : q[k + 1].off = EndOf(q[k])
    <3>1. ASSUME NEW k \in 1..n
          PROVE  q[k + 1].off = EndOf(q[k])
      <4>1. CASE k = n
        <5>1. ALIGN(b.len) = EndOf(b.hdrs[n])
          BY <1>4, <1>8, <4>1 DEF Laid, n
        <5>2. q[k] = b.hdrs[n] /\ q[k + 1] = h
          BY <1>5, <4>1
        <5> QED
          BY <1>3, <5>1, <5>2
      <4>2. CASE k # n
        <5>1. k + 1 \in 1..n
          BY <1>4, <4>2
        <5>2. b.hdrs[k + 1].off = EndOf(b.hdrs[k])
          BY <1>4, <5>1 DEF Laid, InARow
        <5> QED
          BY <1>5, <5>1, <5>2
      <4> QED
        BY <4>1, <4>2
    <3> QED
      BY <3>1
  <2>4. \A j, k \in 1..(n + 1) : j < k => EndOf(q[j]) <= q[k].off
    <3>1. ASSUME NEW j \in 1..(n + 1), NEW k \in 1..(n + 1), j < k
          PROVE  EndOf(q[j]) <= q[k].off
      <4>1. j \in 1..n
        BY <1>4, <3>1
      <4>2. CASE k = n + 1
        BY <1>3, <1>5, <1>11, <4>1, <4>2
      <4>3. CASE k # n + 1
        <5>1. k \in 1..n
          BY <1>4, <4>3
        <5>2. EndOf(b.hdrs[j]) <= b.hdrs[k].off
          BY <1>4, <3>1, <4>1, <5>1 DEF Laid, InARow
        <5> QED
          BY <1>5, <4>1, <5>1, <5>2
      <4> QED
        BY <4>2, <4>3
    <3> QED
      BY <3>1
  <2> QED
    BY <1>4, <1>9, <2>1, <2>2, <2>3, <2>4 DEF InARow
<1>13. b.start >= 4 /\ (b.kind = "routeadd" => b.start = NLHDR)
  BY DEF Laid
<1>14. Laid(w)
  BY <1>3, <1>7, <1>9, <1>12, <1>13 DEF Laid
<1> QED
  BY <1>14 DEF w

-----------------------------------------------------------------------------
(* Parsing.                                                                *)

\* A parser's walk, as a function of the place.
Walks(f, b) ==
  f = [off \in Int |->
         IF RTA_OK(HdrAt(b, off), b.len - off)
         THEN [f[off + ALIGN(HdrAt(b, off).len)] EXCEPT !.seen = <<HdrAt(b, off)>> \o @]
         ELSE [seen |-> << >>, left |-> b.len - off]]
Walked == [seen : Seq(Hdrs), left : Int]

\* A header that passes RTA_OK is one that was put there.
LEMMA HdrFound ==
  ASSUME NEW b, b.hdrs \in Seq(Hdrs), NEW off \in Int, NEW left \in Int, RTA_OK(HdrAt(b, off), left)
  PROVE  /\ HdrAt(b, off) \in Hdrs /\ ALIGN(HdrAt(b, off).len) \in Nat
         /\ ALIGN(HdrAt(b, off).len) >= 4 /\ ALIGN(HdrAt(b, off).len) <= left + 3
<1> DEFINE h == HdrAt(b, off)
<1>1. left >= 4 /\ h.len >= 4 /\ h.len <= left
  BY DEF RTA_OK
<1>2. h \in Hdrs
  <2>1. CASE \E k \in DOMAIN b.hdrs : b.hdrs[k].off = off
    <3> DEFINE k == CHOOSE k \in DOMAIN b.hdrs : b.hdrs[k].off = off
    <3>1. k \in DOMAIN b.hdrs
      BY <2>1
    <3>2. h = b.hdrs[k]
      BY <2>1 DEF HdrAt
    <3> HIDE DEF k, h
    <3> QED
      BY <3>1, <3>2
  <2>2. CASE ~\E k \in DOMAIN b.hdrs : b.hdrs[k].off = off
    <3>1. h.len = 0
      BY <2>2 DEF HdrAt
    <3> QED
      BY <1>1, <3>1
  <2> QED
    BY <2>1, <2>2
<1> HIDE DEF h
<1>3. h.len \in Nat
  BY <1>2 DEF Hdrs
<1>4. ALIGN(h.len) \in Nat /\ h.len <= ALIGN(h.len) /\ ALIGN(h.len) <= h.len + 3
  BY <1>3, Aligned
<1> QED
  BY <1>1, <1>2, <1>3, <1>4 DEF h

\* The walk ends: each header takes at least four bytes from what is left.
LEMMA WalkExists ==
  ASSUME NEW b, b.hdrs \in Seq(Hdrs), b.len \in Nat
  PROVE  \E f : Walks(f, b)
<1> DEFINE Off(a) == b.len - (a - 3)
           Ok(a) == RTA_OK(HdrAt(b, Off(a)), a - 3)
           Base == {a \in Nat : ~Ok(a)}
           down == [a \in Nat |-> a - ALIGN(HdrAt(b, Off(a)).len)]
           start == [a \in Nat |-> [seen |-> << >>, left |-> a - 3]]
           step == [a \in Nat |-> [x \in Walked |->
                      IF Ok(a) THEN [x EXCEPT !.seen = <<HdrAt(b, Off(a))>> \o @] ELSE x]]
<1>1. \A a \in Nat : Ok(a) => /\ HdrAt(b, Off(a)) \in Hdrs
                             /\ a - ALIGN(HdrAt(b, Off(a)).len) \in Nat
                             /\ a - ALIGN(HdrAt(b, Off(a)).len) < a
  <2>1. ASSUME NEW a \in Nat, Ok(a)
        PROVE  /\ HdrAt(b, Off(a)) \in Hdrs
               /\ a - ALIGN(HdrAt(b, Off(a)).len) \in Nat
               /\ a - ALIGN(HdrAt(b, Off(a)).len) < a
    <3>1. Off(a) \in Int /\ a - 3 \in Int
      OBVIOUS
    <3> DEFINE o == Off(a)
               l == a - 3
    <3>2. RTA_OK(HdrAt(b, o), l)
      BY <2>1
    <3>3. l + 3 = a
      OBVIOUS
    <3> HIDE DEF o, l
    <3>4. HdrAt(b, o) \in Hdrs /\ ALIGN(HdrAt(b, o).len) \in Nat /\ ALIGN(HdrAt(b, o).len) >= 4 /\ ALIGN(HdrAt(b, o).len) <= l + 3
      BY <3>1, <3>2, HdrFound DEF o, l
    <3> QED
      BY <3>3, <3>4 DEF o
  <2> QED
    BY <2>1
<1>2. Descends(Base, down)
  BY <1>1 DEF Descends
<1>3. \A a \in Base : start[a] \in Walked
  BY DEF Walked
<1>4. \A a \in Nat, x \in Walked : step[a][x] \in Walked
  <2>1. ASSUME NEW a \in Nat, NEW x \in Walked
        PROVE  step[a][x] \in Walked
    <3>1. step[a][x] = IF Ok(a) THEN [x EXCEPT !.seen = <<HdrAt(b, Off(a))>> \o @] ELSE x
      OBVIOUS
    <3>2. CASE Ok(a)
      <4> DEFINE h == HdrAt(b, Off(a))
      <4>1. h \in Hdrs
        BY <1>1, <3>2
      <4> HIDE DEF h
      <4>2. <<h>> \in Seq(Hdrs) /\ x.seen \in Seq(Hdrs)
        BY <4>1 DEF Walked
      <4>3. <<h>> \o x.seen \in Seq(Hdrs)
        BY <4>2, ConcatProperties
      <4>4. [x EXCEPT !.seen = <<h>> \o @] \in Walked
        BY <4>3 DEF Walked
      <4> QED
        BY <3>1, <3>2, <4>4 DEF h
    <3>3. CASE ~Ok(a)
      BY <3>1, <3>3
    <3> QED
      BY <3>2, <3>3
  <2> QED
    BY <2>1
<1>5. PICK g \in [Nat -> Walked] : Recurs(g, Nat, Base, start, down, step)
  <2> HIDE DEF Base, down, start, step
  <2> QED
    BY <1>2, <1>3, <1>4, DescendingRecursion
<1>6. ASSUME NEW a \in Nat
      PROVE  g[a] = IF Ok(a) THEN [g[a - ALIGN(HdrAt(b, Off(a)).len)] EXCEPT !.seen = <<HdrAt(b, Off(a))>> \o @]
                    ELSE [seen |-> << >>, left |-> a - 3]
  <2>1. g[a] = IF a \in Base THEN start[a] ELSE step[a][g[down[a]]]
    BY <1>5 DEF Recurs
  <2>2. CASE Ok(a)
    <3> DEFINE d == a - ALIGN(HdrAt(b, Off(a)).len)
    <3>1. a \notin Base /\ down[a] = d
      BY <2>2
    <3>2. d \in Nat
      BY <1>1, <2>2
    <3> HIDE DEF d
    <3>3. g[d] \in Walked
      BY <1>5, <3>2
    <3>4. step[a][g[d]] = [g[d] EXCEPT !.seen = <<HdrAt(b, Off(a))>> \o @]
      BY <2>2, <3>3
    <3> HIDE DEF Base, down, step, start
    <3> QED
      BY <2>1, <2>2, <3>1, <3>4 DEF d
  <2>3. CASE ~Ok(a)
    <3>1. a \in Base /\ start[a] = [seen |-> << >>, left |-> a - 3]
      BY <2>3
    <3> HIDE DEF Base, down, step, start
    <3> QED
      BY <2>1, <2>3, <3>1
  <2> QED
    BY <2>2, <2>3
<1> DEFINE f == [off \in Int |-> IF b.len - off >= -3 THEN g[b.len - off + 3] ELSE [seen |-> << >>, left |-> b.len - off]]
<1>7. ASSUME NEW off \in Int
      PROVE  f[off] = IF RTA_OK(HdrAt(b, off), b.len - off)
                      THEN [f[off + ALIGN(HdrAt(b, off).len)] EXCEPT !.seen = <<HdrAt(b, off)>> \o @]
                      ELSE [seen |-> << >>, left |-> b.len - off]
  <2> DEFINE l == b.len - off
             h == HdrAt(b, off)
  <2>1. l \in Int
    OBVIOUS
  <2>2. CASE l < -3
    <3>1. ~RTA_OK(h, l)
      BY <2>1, <2>2 DEF RTA_OK
    <3> QED
      BY <2>1, <2>2, <3>1
  <2>3. CASE l >= -3
    <3> DEFINE a == l + 3
    <3>1. a \in Nat /\ a - 3 = l /\ Off(a) = off
      BY <2>1, <2>3
    <3>2. f[off] = g[a]
      BY <2>3
    <3>3. g[a] = IF RTA_OK(h, l) THEN [g[a - ALIGN(h.len)] EXCEPT !.seen = <<h>> \o @]
                 ELSE [seen |-> << >>, left |-> l]
      <4> HIDE DEF a, l
      <4> QED
        BY <1>6, <3>1
    <3>4. CASE RTA_OK(h, l)
      <4>1. /\ ALIGN(h.len) \in Nat /\ ALIGN(h.len) >= 4 /\ ALIGN(h.len) <= l + 3
        <5> HIDE DEF l
        <5> QED
          BY <2>1, <3>4, HdrFound
      <4> DEFINE p == ALIGN(h.len)
      <4>2. b.len - (off + p) = a - p - 3 /\ a - p - 3 >= -3 /\ off + p \in Int
        <5> HIDE DEF p
        <5>1. p \in Nat /\ p <= l + 3
          BY <4>1 DEF p
        <5> QED
          BY <5>1
      <4>3. f[off + p] = g[a - p]
        <5>1. b.len - (off + p) + 3 = a - p
          <6> HIDE DEF p
          <6>1. p \in Nat
            BY <4>1 DEF p
          <6> QED
            BY <6>1
        <5> HIDE DEF p, a
        <5> QED
          BY <4>2, <5>1
      <4> HIDE DEF f, a
      <4> QED
        BY <3>2, <3>3, <3>4, <4>3
    <3>5. CASE ~RTA_OK(h, l)
      <4> HIDE DEF f, a
      <4> QED
        BY <3>2, <3>3, <3>5
    <3> QED
      BY <3>4, <3>5
  <2>4. l < -3 \/ l >= -3
    <3> HIDE DEF l
    <3> QED
      BY <2>1
  <2> HIDE DEF l, f
  <2> QED
    BY <2>2, <2>3, <2>4 DEF l
<1>8. f = [off \in Int |-> f[off]]
  OBVIOUS
<1> HIDE DEF f
<1>9. Walks(f, b)
  <2>1. [off \in Int |-> f[off]] =
          [off \in Int |-> IF RTA_OK(HdrAt(b, off), b.len - off)
                           THEN [f[off + ALIGN(HdrAt(b, off).len)] EXCEPT !.seen = <<HdrAt(b, off)>> \o @]
                           ELSE [seen |-> << >>, left |-> b.len - off]]
    BY <1>7
  <2> QED
    BY <1>8, <2>1 DEF Walks
<1> QED
  BY <1>9

\* AttrWalk is such a walk from the start.
LEMMA WalkOf ==
  ASSUME NEW b, b.hdrs \in Seq(Hdrs), b.len \in Nat
  PROVE  \E f : Walks(f, b) /\ AttrWalk(b) = f[b.start]
<1> DEFINE visit == CHOOSE f : f = [off \in Int |->
                      LET h == HdrAt(b, off)
                      IN  IF RTA_OK(h, b.len - off)
                          THEN [f[off + ALIGN(h.len)] EXCEPT !.seen = <<h>> \o @]
                          ELSE [seen |-> << >>, left |-> b.len - off]]
<1>1. AttrWalk(b) = visit[b.start]
  BY Zenon DEF AttrWalk
<1>2. \E f : f = [off \in Int |->
                      LET h == HdrAt(b, off)
                      IN  IF RTA_OK(h, b.len - off)
                          THEN [f[off + ALIGN(h.len)] EXCEPT !.seen = <<h>> \o @]
                          ELSE [seen |-> << >>, left |-> b.len - off]]
  BY WalkExists, Zenon DEF Walks
<1>3. Walks(visit, b)
  BY <1>2, Zenon DEF Walks
<1> QED
  BY <1>1, <1>3

\* A part of a sequence is its first member and the rest.
LEMMA SubSeqFromFirst ==
  ASSUME NEW S, NEW q \in Seq(S), NEW k \in 1..Len(q)
  PROVE  <<q[k]>> \o SubSeq(q, k + 1, Len(q)) = SubSeq(q, k, Len(q))
<1> DEFINE n == Len(q)
           r == SubSeq(q, k + 1, n)
           w == SubSeq(q, k, n)
           v == <<q[k]>> \o r
<1>1. n \in Nat /\ k \in 1..n /\ q[k] \in S
  OBVIOUS
<1>2. r \in Seq(S) /\ Len(r) = n - k /\ \A i \in 1..(n - k) : r[i] = q[k + i]
  BY SubSeqProperties
<1>3. w \in Seq(S) /\ Len(w) = n - k + 1 /\ \A i \in 1..(n - k + 1) : w[i] = q[k + i - 1]
  BY SubSeqProperties
<1>4. <<q[k]>> \in Seq(S) /\ Len(<<q[k]>>) = 1 /\ <<q[k]>>[1] = q[k]
  BY <1>1
<1> HIDE DEF r, w, n
<1>5. v \in Seq(S) /\ Len(v) = 1 + (n - k) /\ \A i \in 1..(1 + (n - k)) : v[i] = IF i <= 1 THEN <<q[k]>>[i] ELSE r[i - 1]
  <2> DEFINE a == <<q[k]>>
  <2>1. a \in Seq(S) /\ Len(a) = 1
    BY <1>4
  <2> HIDE DEF a
  <2>2. a \o r \in Seq(S) /\ Len(a \o r) = Len(a) + Len(r) /\ \A i \in 1..(Len(a) + Len(r)) : (a \o r)[i] = IF i <= Len(a) THEN a[i] ELSE r[i - Len(a)]
    BY <1>2, <2>1, ConcatProperties
  <2>3. a \o r \in Seq(S) /\ Len(a \o r) = 1 + (n - k) /\ \A i \in 1..(1 + (n - k)) : (a \o r)[i] = IF i <= 1 THEN a[i] ELSE r[i - 1]
    BY <1>2, <2>1, <2>2
  <2> QED
    BY <2>3 DEF a
<1> HIDE DEF v
<1>6. Len(v) = Len(w)
  BY <1>1, <1>3, <1>5
<1>7. ASSUME NEW i \in 1..Len(v)
      PROVE  v[i] = w[i]
  <2>1. i \in 1..(n - k + 1) /\ i \in 1..(1 + (n - k))
    BY <1>1, <1>5
  <2>2. CASE i = 1
    BY <1>1, <1>3, <1>4, <1>5, <2>1, <2>2
  <2>3. CASE i # 1
    <3>1. i - 1 \in 1..(n - k) /\ k + (i - 1) = k + i - 1 /\ ~(i <= 1)
      BY <1>1, <2>1, <2>3
    <3>2. v[i] = r[i - 1]
      BY <1>5, <2>1, <3>1
    <3>3. r[i - 1] = q[k + i - 1]
      BY <1>2, <3>1
    <3> QED
      BY <1>3, <2>1, <3>2, <3>3
  <2> QED
    BY <2>2, <2>3
<1>8. v = w
  BY <1>3, <1>5, <1>6, <1>7, SeqEqual
<1> QED
  BY <1>8 DEF v, w, r, n

\* The parser finds each header at its place, with enough bytes left.
LEMMA HdrAtPlace ==
  ASSUME NEW b, Laid(b), NEW k \in DOMAIN b.hdrs
  PROVE  HdrAt(b, b.hdrs[k].off) = b.hdrs[k] /\ RTA_OK(b.hdrs[k], b.len - b.hdrs[k].off)
<1> DEFINE n == Len(b.hdrs)
           off == b.hdrs[k].off
<1>1. b.hdrs \in Seq(Hdrs) /\ b.len \in Nat /\ n \in Nat /\ DOMAIN b.hdrs = 1..n /\ k \in 1..n
  BY DEF Laid, BuiltMessages
<1>2. \A j \in 1..n : b.hdrs[j].off \in Nat /\ b.hdrs[j].len \in Nat /\ b.hdrs[j].len >= 4
  <2>1. \A j \in 1..n : b.hdrs[j] \in Hdrs
    BY <1>1
  <2>2. \A j \in 1..n : b.hdrs[j].len >= 4
    BY <1>1 DEF Laid, InARow
  <2> HIDE DEF n
  <2> QED
    BY <2>1, <2>2 DEF Hdrs
<1>3. \A j \in 1..n : ALIGN(b.hdrs[j].len) \in Nat /\ b.hdrs[j].len <= ALIGN(b.hdrs[j].len)
  BY <1>2, Aligned
<1>4. \A i, j \in 1..n : i < j => b.hdrs[i].off + ALIGN(b.hdrs[i].len) <= b.hdrs[j].off
  BY <1>1 DEF Laid, InARow, EndOf
<1>5. \A i, j \in 1..n : i < j => b.hdrs[i].off < b.hdrs[j].off
  <2>1. ASSUME NEW i \in 1..n, NEW j \in 1..n, i < j
        PROVE  b.hdrs[i].off < b.hdrs[j].off
    <3>1. b.hdrs[i].off \in Nat /\ b.hdrs[j].off \in Nat /\ ALIGN(b.hdrs[i].len) \in Nat /\ ALIGN(b.hdrs[i].len) >= 4
      BY <1>2, <1>3
    <3>2. b.hdrs[i].off + ALIGN(b.hdrs[i].len) <= b.hdrs[j].off
      BY <1>4, <2>1
    <3> QED
      BY <3>1, <3>2
  <2> QED
    BY <2>1
<1>6. HdrAt(b, off) = b.hdrs[k]
  <2> DEFINE c == CHOOSE j \in DOMAIN b.hdrs : b.hdrs[j].off = off
  <2>1. \E j \in DOMAIN b.hdrs : b.hdrs[j].off = off
    OBVIOUS
  <2>2. c \in 1..n /\ b.hdrs[c].off = off
    BY <1>1, <2>1
  <2>3. HdrAt(b, off) = b.hdrs[c]
    BY <2>1 DEF HdrAt
  <2> HIDE DEF c
  <2>4. c = k
    <3>1. ~(c < k) /\ ~(k < c)
      BY <1>1, <1>2, <1>5, <2>2
    <3> QED
      BY <1>1, <2>2, <3>1
  <2> QED
    BY <2>3, <2>4
<1>7. b.len - off >= b.hdrs[k].len
  <2>1. b.hdrs # << >> /\ n \in 1..n
    BY <1>1
  <2> DEFINE l == b.hdrs[n]
             h == b.hdrs[k]
  <2>2. ALIGN(b.len) = l.off + ALIGN(l.len)
    BY <2>1 DEF Laid, EndOf
  <2>3. h.off \in Nat /\ h.len \in Nat /\ l.off \in Nat /\ l.len \in Nat /\ ALIGN(h.len) \in Nat /\ ALIGN(l.len) \in Nat
        /\ h.len <= ALIGN(h.len) /\ l.len <= ALIGN(l.len)
    BY <1>1, <1>2, <1>3, <2>1
  <2>4. k = n \/ h.off + ALIGN(h.len) <= l.off
    BY <1>1, <1>4, <2>1
  <2>5. CASE b.kind # "routeadd"
    <3>1. b.len = l.off + ALIGN(l.len)
      BY <2>2, <2>5 DEF Laid
    <3>2. CASE k = n
      BY <1>1, <2>3, <3>1, <3>2
    <3>3. CASE h.off + ALIGN(h.len) <= l.off
      <4> HIDE DEF h, l
      <4>1. b.len - h.off >= h.len
        BY <1>1, <2>3, <3>1, <3>3
      <4> QED
        BY <4>1 DEF h
    <3> QED
      BY <2>4, <3>2, <3>3
  <2>6. CASE b.kind = "routeadd"
    <3>1. b.len = l.off + l.len
      BY <2>1, <2>6 DEF Laid
    <3>2. CASE k = n
      BY <1>1, <2>3, <3>1, <3>2
    <3>3. CASE h.off + ALIGN(h.len) <= l.off
      <4> HIDE DEF h, l
      <4>1. b.len - h.off >= h.len
        <5>1. \A lo, lh, ho, hl, ha, bl \in Nat : bl = lo + lh /\ ho + ha <= lo /\ hl <= ha => bl - ho >= hl
          OBVIOUS
        <5> QED
          BY <1>1, <2>3, <3>1, <3>3, <5>1
      <4> QED
        BY <4>1 DEF h
    <3> QED
      BY <2>4, <3>2, <3>3
  <2> QED
    BY <2>5, <2>6
<1>8. b.hdrs[k].len \in Nat /\ b.hdrs[k].len >= 4 /\ b.len - off \in Int
  BY <1>1, <1>2
<1>9. RTA_OK(b.hdrs[k], b.len - off)
  <2> DEFINE x == b.len - off
             y == b.hdrs[k].len
  <2>1. x \in Int /\ y \in Nat /\ y >= 4 /\ x >= y
    BY <1>7, <1>8
  <2> HIDE DEF x, y
  <2>2. x >= 4 /\ y >= 4 /\ y <= x
    BY <2>1
  <2> QED
    BY <2>2 DEF RTA_OK, x, y
<1> QED
  BY <1>6, <1>9

\* The parser visits the attributes that were put, all of them and in order.
LEMMA WalkSeesAll ==
  ASSUME NEW b, Laid(b)
  PROVE  /\ AttrWalk(b).seen = b.hdrs
         /\ b.kind # "routeadd" => AttrWalk(b).left = 0
<1> DEFINE n == Len(b.hdrs)
           end == ALIGN(b.len)
           place(k) == IF k <= n THEN b.hdrs[k].off ELSE end
<1>1. b.hdrs \in Seq(Hdrs) /\ b.len \in Nat /\ n \in Nat /\ DOMAIN b.hdrs = 1..n /\ b.start \in Nat
  BY DEF Laid, BuiltMessages
<1>2. end \in Nat /\ b.len <= end
  BY <1>1, Aligned
<1>3. PICK f : Walks(f, b) /\ AttrWalk(b) = f[b.start]
  BY <1>1, WalkOf
<1>4. \A off \in Int : f[off] = IF RTA_OK(HdrAt(b, off), b.len - off)
                               THEN [f[off + ALIGN(HdrAt(b, off).len)] EXCEPT !.seen = <<HdrAt(b, off)>> \o @]
                               ELSE [seen |-> << >>, left |-> b.len - off]
  <2> DEFINE F == [off \in Int |-> IF RTA_OK(HdrAt(b, off), b.len - off)
                               THEN [f[off + ALIGN(HdrAt(b, off).len)] EXCEPT !.seen = <<HdrAt(b, off)>> \o @]
                               ELSE [seen |-> << >>, left |-> b.len - off]]
  <2>1. f = F
    BY <1>3 DEF Walks
  <2>2. \A off \in Int : F[off] = IF RTA_OK(HdrAt(b, off), b.len - off)
                               THEN [f[off + ALIGN(HdrAt(b, off).len)] EXCEPT !.seen = <<HdrAt(b, off)>> \o @]
                               ELSE [seen |-> << >>, left |-> b.len - off]
    OBVIOUS
  <2> HIDE DEF F
  <2> QED
    BY <2>1, <2>2
<1>5. \A k \in 1..n : b.hdrs[k] \in Hdrs /\ b.hdrs[k].off \in Nat
  <2>1. \A k \in 1..n : b.hdrs[k] \in Hdrs
    BY <1>1
  <2> HIDE DEF n
  <2> QED
    BY <2>1 DEF Hdrs
<1> DEFINE From(j) == [seen |-> SubSeq(b.hdrs, n + 1 - j, n), left |-> b.len - end]
           J == {j \in 0..n : f[place(n + 1 - j)] = From(j)}
<1>6. 0 \in J
  <2>1. place(n + 1) = end
    BY <1>1
  <2>2. ~RTA_OK(HdrAt(b, end), b.len - end)
    BY <1>1, <1>2 DEF RTA_OK
  <2>3. f[end] = [seen |-> << >>, left |-> b.len - end]
    <3> HIDE DEF end
    <3>1. f[end] = IF RTA_OK(HdrAt(b, end), b.len - end)
                   THEN [f[end + ALIGN(HdrAt(b, end).len)] EXCEPT !.seen = <<HdrAt(b, end)>> \o @]
                   ELSE [seen |-> << >>, left |-> b.len - end]
      <4>1. end \in Int
        BY <1>2
      <4> QED
        BY <1>4, <4>1, Zenon
    <3> QED
      BY <2>2, <3>1
  <2>4. SubSeq(b.hdrs, n + 1, n) = << >>
    BY <1>1
  <2>5. f[place(n + 1)] = [seen |-> SubSeq(b.hdrs, n + 1, n), left |-> b.len - end]
    BY <2>1, <2>3, <2>4
  <2>6. n + 1 - 0 = n + 1 /\ 0 \in 0..n
    BY <1>1
  <2> HIDE DEF place, end, n
  <2> QED
    BY <2>5, <2>6
<1>7. ASSUME NEW j \in 1..n, j - 1 \in J
      PROVE  j \in J
  <2> DEFINE k == n + 1 - j
             h == b.hdrs[k]
  <2>1. k \in 1..n /\ n + 1 - (j - 1) = k + 1 /\ j \in 0..n
    BY <1>1
  <2>2. place(k) = h.off /\ h.off \in Nat
    BY <1>5, <2>1
  <2>3. HdrAt(b, h.off) = h /\ RTA_OK(h, b.len - h.off)
    <3> HIDE DEF k
    <3> QED
      BY <1>1, <2>1, HdrAtPlace
  <2>4. place(k + 1) = h.off + ALIGN(h.len)
    <3>1. CASE k = n
      <4>1. b.hdrs # << >>
        BY <1>1, <2>1
      <4>2. end = EndOf(b.hdrs[n])
        BY <4>1 DEF Laid
      <4>3. place(k + 1) = end
        BY <1>1, <3>1
      <4> HIDE DEF place, end, k
      <4> QED
        BY <3>1, <4>2, <4>3 DEF EndOf
    <3>2. CASE k # n
      <4>1. k \in 1..n /\ k + 1 \in 1..n
        BY <1>1, <2>1, <3>2
      <4>2. place(k + 1) = b.hdrs[k + 1].off
        BY <4>1
      <4> HIDE DEF place, k
      <4>3. b.hdrs[k + 1].off = EndOf(b.hdrs[k])
        BY <1>1, <4>1 DEF Laid, InARow
      <4> QED
        BY <4>2, <4>3 DEF EndOf
    <3> QED
      BY <3>1, <3>2
  <2>5. f[place(k + 1)] = [seen |-> SubSeq(b.hdrs, k + 1, n), left |-> b.len - end]
    <3>1. f[place(n + 1 - (j - 1))] = From(j - 1)
      BY <1>7
    <3> HIDE DEF place, end, n, k
    <3> QED
      BY <2>1, <3>1
  <2>6. f[h.off] = [f[h.off + ALIGN(h.len)] EXCEPT !.seen = <<h>> \o @]
    <3> HIDE DEF h, n
    <3> QED
      <4>1. h.off \in Int
        BY <2>2
      <4>2. f[h.off] = IF RTA_OK(HdrAt(b, h.off), b.len - h.off)
                       THEN [f[h.off + ALIGN(HdrAt(b, h.off).len)] EXCEPT !.seen = <<HdrAt(b, h.off)>> \o @]
                       ELSE [seen |-> << >>, left |-> b.len - h.off]
        BY <1>4, <4>1, Zenon
      <4> QED
        BY <2>3, <4>2
  <2>7. <<h>> \o SubSeq(b.hdrs, k + 1, n) = SubSeq(b.hdrs, k, n)
    <3> HIDE DEF k
    <3> QED
      BY <1>1, <2>1, SubSeqFromFirst
  <2> HIDE DEF place, end, h
  <2>8. f[h.off] = [[seen |-> SubSeq(b.hdrs, k + 1, n), left |-> b.len - end] EXCEPT !.seen = <<h>> \o @]
    BY <2>4, <2>5, <2>6
  <2> HIDE DEF k, n
  <2>9. f[h.off] = [seen |-> <<h>> \o SubSeq(b.hdrs, k + 1, n), left |-> b.len - end]
    BY <2>8
  <2>10. f[place(k)] = [seen |-> SubSeq(b.hdrs, k, n), left |-> b.len - end]
    BY <2>2, <2>7, <2>9
  <2> QED
    BY <2>1, <2>10 DEF k
<1> HIDE DEF J
<1>8. 0..n \subseteq J
  <2> HIDE DEF n
  <2> QED
    BY <1>1, <1>6, <1>7, IntervalInduction
<1>9. f[place(1)] = [seen |-> SubSeq(b.hdrs, 1, n), left |-> b.len - end]
  <2>1. n \in J /\ n + 1 - n = 1
    BY <1>1, <1>8
  <2> HIDE DEF place, end, n
  <2> QED
    BY <2>1 DEF J
<1>10. place(1) = b.start
  <2>1. CASE n = 0
    <3>1. b.hdrs = << >>
      BY <1>1, <2>1
    <3> QED
      BY <1>1, <2>1, <3>1 DEF Laid
  <2>2. CASE n # 0
    <3>1. b.hdrs # << >> /\ place(1) = b.hdrs[1].off
      BY <1>1, <2>2
    <3> QED
      BY <3>1 DEF Laid, InARow
  <2> QED
    BY <2>1, <2>2
<1>11. SubSeq(b.hdrs, 1, n) = b.hdrs
  BY <1>1
<1>12. AttrWalk(b) = [seen |-> b.hdrs, left |-> b.len - end]
  <2> HIDE DEF place, end, n
  <2> QED
    BY <1>3, <1>9, <1>10, <1>11
<1>13. b.kind # "routeadd" => b.len - end = 0
  BY <1>1 DEF Laid
<1> HIDE DEF end
<1> QED
  BY <1>12, <1>13

\* A set of places that is not empty has a last one.
LEMMA LastPlace ==
  ASSUME NEW n \in Nat, NEW S, S \subseteq 1..n, S # {}
  PROVE  \E k \in S : \A j \in S : j <= k
<1> DEFINE D == {d \in 0..n : n - d \in S}
<1>1. PICK s \in S : TRUE
  OBVIOUS
<1>2. n - s \in D /\ D \subseteq Nat
  <2>1. s \in 1..n
    BY <1>1
  <2>2. n - s \in 0..n /\ n - (n - s) = s
    BY <2>1
  <2> QED
    BY <2>2
<1>3. PICK m \in D : \A k \in D : m <= k
  <2> HIDE DEF D
  <2> QED
    BY <1>2, LeastNumber
<1>4. n - m \in S /\ m \in Nat
  BY <1>3
<1>5. ASSUME NEW j \in S
      PROVE  j <= n - m
  <2>1. j \in 1..n
    OBVIOUS
  <2>2. n - j \in 0..n /\ n - (n - j) = j
    BY <2>1
  <2>3. m <= n - j
    BY <1>3, <2>2
  <2> QED
    BY <1>4, <2>1, <2>3
<1> QED
  BY <1>4, <1>5

\* AttrsReadBack, for a message that is laid out so.
LEMMA LaidReadsBack ==
  ASSUME attrs.kind # "none" => Laid(attrs)
  PROVE  AttrsReadBack
<1> SUFFICES ASSUME attrs.kind # "none"
             PROVE  LET known == KnownHdrs(attrs.hdrs)
                        Of(t) == {attrs.hdrs[k].off : k \in {j \in DOMAIN attrs.hdrs : attrs.hdrs[j].type = t}}
                        p == parse_rtattr(attrs)
                    IN  /\ attrs.top <= attrs.max /\ attrs.len <= attrs.max
                        /\ \A t \in 0..AttrMax :
                             p.tb[t] = IF Of(t) = {} THEN 0 ELSE CHOOSE o \in Of(t) : \A q \in Of(t) : q <= o
                        /\ parse_rtattr_byindex(attrs) =
                             [i \in 1..(IF Len(known) < AttrMax THEN Len(known) ELSE AttrMax) |-> known[i].off]
                        /\ attrs.kind # "routeadd" => p.deficit = 0
  BY DEF AttrsReadBack
<1> DEFINE n == Len(attrs.hdrs)
           Places(t) == {k \in DOMAIN attrs.hdrs : attrs.hdrs[k].type = t}
           Of(t) == {attrs.hdrs[k].off : k \in Places(t)}
           p == parse_rtattr(attrs)
           known == KnownHdrs(attrs.hdrs)
<1>1. Laid(attrs) /\ AttrWalk(attrs).seen = attrs.hdrs /\ (attrs.kind # "routeadd" => AttrWalk(attrs).left = 0)
  BY WalkSeesAll
<1>2. p = [tb |-> [t \in 0..AttrMax |->
                     IF Places(t) = {} THEN 0
                     ELSE attrs.hdrs[CHOOSE k \in Places(t) : \A j \in Places(t) : j <= k].off],
           deficit |-> AttrWalk(attrs).left]
  BY <1>1 DEF parse_rtattr
<1>3. attrs.hdrs \in Seq(Hdrs) /\ n \in Nat /\ DOMAIN attrs.hdrs = 1..n
  BY <1>1 DEF Laid, BuiltMessages
<1>4. \A j \in 1..n : attrs.hdrs[j].off \in Nat /\ attrs.hdrs[j].len \in Nat
  <2>1. \A k \in 1..n : attrs.hdrs[k] \in Hdrs
    BY <1>3
  <2> HIDE DEF n
  <2> QED
    BY <2>1 DEF Hdrs
<1>5. ASSUME NEW j \in 1..n, NEW k \in 1..n, j <= k
      PROVE  attrs.hdrs[j].off <= attrs.hdrs[k].off
  <2>1. CASE j = k
    BY <1>4, <2>1
  <2>2. CASE j # k
    <3>1. j < k
      BY <1>3, <1>5, <2>2
    <3>2. attrs.hdrs[j].off + ALIGN(attrs.hdrs[j].len) <= attrs.hdrs[k].off
      BY <1>1, <1>3, <3>1 DEF Laid, InARow, EndOf
    <3>3. ALIGN(attrs.hdrs[j].len) \in Nat /\ attrs.hdrs[j].off \in Nat /\ attrs.hdrs[k].off \in Nat
      BY <1>4, Aligned
    <3> QED
      BY <3>2, <3>3
  <2> QED
    BY <2>1, <2>2
<1>6. ASSUME NEW t \in 0..AttrMax
      PROVE  p.tb[t] = IF Of(t) = {} THEN 0 ELSE CHOOSE o \in Of(t) : \A q \in Of(t) : q <= o
  <2> DEFINE c == CHOOSE k \in Places(t) : \A j \in Places(t) : j <= k
             e == CHOOSE o \in Of(t) : \A q \in Of(t) : q <= o
  <2>1. p.tb[t] = IF Places(t) = {} THEN 0 ELSE attrs.hdrs[c].off
    BY <1>2
  <2>2. Of(t) = {} <=> Places(t) = {}
    OBVIOUS
  <2>3. ASSUME Places(t) # {}
        PROVE  attrs.hdrs[c].off = e
    <3>1. Places(t) \subseteq 1..n
      BY <1>3
    <3>2. \E k \in Places(t) : \A j \in Places(t) : j <= k
      <4> HIDE DEF Places, n
      <4> QED
        BY <1>3, <2>3, <3>1, LastPlace
    <3>3. c \in Places(t) /\ \A j \in Places(t) : j <= c
      BY <3>2
    <3>4. attrs.hdrs[c].off \in Of(t)
      BY <3>3
    <3>5. \A q \in Of(t) : q <= attrs.hdrs[c].off
      <4> HIDE DEF c
      <4>1. ASSUME NEW j \in Places(t)
            PROVE  attrs.hdrs[j].off <= attrs.hdrs[c].off
        <5>1. j \in 1..n /\ c \in 1..n /\ j <= c
          BY <3>1, <3>3, <4>1
        <5> HIDE DEF n, Places
        <5> QED
          BY <1>5, <5>1
      <4> QED
        BY <4>1
    <3>6. e \in Of(t) /\ \A q \in Of(t) : q <= e
      BY <3>4, <3>5
    <3>7. attrs.hdrs[c].off \in Nat
      BY <1>4, <3>1, <3>3
    <3>8. e \in Nat
      BY <1>4, <3>1, <3>6
    <3>9. e <= attrs.hdrs[c].off /\ attrs.hdrs[c].off <= e
      BY <3>4, <3>5, <3>6
    <3> HIDE DEF e, c
    <3> QED
      BY <3>7, <3>8, <3>9
  <2> HIDE DEF c, e, Places
  <2> QED
    BY <2>1, <2>2, <2>3 DEF e
<1>7. parse_rtattr_byindex(attrs) = [i \in 1..(IF Len(known) < AttrMax THEN Len(known) ELSE AttrMax) |-> known[i].off]
  BY <1>1 DEF parse_rtattr_byindex
<1>8. p.deficit = AttrWalk(attrs).left
  BY <1>2
<1>9. attrs.top <= attrs.max /\ attrs.len <= attrs.max
  BY <1>1 DEF Laid
<1> HIDE DEF p, known
<1>10. attrs.kind # "routeadd" => p.deficit = 0
  BY <1>1, <1>8
<1> QED
  BY <1>6, <1>7, <1>9, <1>10 DEF p, known

-----------------------------------------------------------------------------
(* Building.                                                               *)

\* What the code appends keeps a message laid out.
LEMMA AddKeepsLaid ==
  ASSUME NEW b, Laid(b), NEW type \in Nat, NEW alen \in Nat
  PROVE  /\ b.kind # "routeadd" => /\ Laid(addattr_l(b, type, alen)) /\ Laid(addattr32(b, type))
                                   /\ Laid(rta_addattr_l(b, type, alen)) /\ Laid(rta_addattr32(b, type))
         /\ b.kind = "routeadd" => /\ Laid(addattr_l_routeadd(b, type, alen))
                                   /\ addattr_l_routeadd(b, type, alen).kind = "routeadd"
<1> DEFINE L == ALIGN(b.len)
           len == RTA_LENGTH(alen)
           A == ALIGN(len)
<1>1. b \in BuiltMessages /\ b.len \in Nat /\ b.max \in Nat
  BY DEF Laid, BuiltMessages
<1>2. L \in Nat /\ \A m \in Nat : ALIGN(L + m) = L + ALIGN(m)
  BY <1>1, Aligned
<1>3. len \in Nat /\ len >= 4
  BY DEF RTA_LENGTH
<1>4. A \in Nat /\ len <= A /\ ALIGN(A) = A
  <2> HIDE DEF len
  <2> QED
    BY <1>3, Aligned
<1>5. RTA_LENGTH(4) = 8 /\ ALIGN(8) = 8
  BY DEF RTA_LENGTH, ALIGN
<1> HIDE DEF L, len, A
<1>6. CASE b.kind # "routeadd"
  <2>1. ASSUME L + 8 <= b.max
        PROVE  Laid(Put(b, type, 8, L + 8, L + 8))
    <3> DEFINE e == L + 8
    <3>1. e \in Nat /\ e <= b.max /\ ALIGN(e) = L + 8
      BY <1>2, <1>5, <2>1
    <3>2. ALIGN(e) = ALIGN(b.len) + ALIGN(8) /\ ALIGN(e) = e
      BY <1>5, <3>1 DEF L
    <3> HIDE DEF e
    <3>3. Laid(Put(b, type, 8, e, e))
      BY <1>6, <3>1, <3>2, PutKeepsLaid
    <3> QED
      BY <3>3 DEF e
  <2>2. ASSUME L + A <= b.max
        PROVE  Laid(Put(b, type, len, L + len, L + A))
    <3> DEFINE e == L + len
               f == L + A
    <3>1. e \in Nat /\ f \in Nat /\ e <= b.max /\ f <= b.max
      BY <1>1, <1>2, <1>3, <1>4, <2>2
    <3>2. ALIGN(f) = f
      BY <1>2, <1>4
    <3>3. ALIGN(f) = ALIGN(b.len) + ALIGN(len)
      BY <3>2 DEF A, L
    <3> HIDE DEF e, f
    <3>4. Laid(Put(b, type, len, e, f))
      BY <1>3, <1>6, <3>1, <3>2, <3>3, PutKeepsLaid
    <3> QED
      BY <3>4 DEF e, f
  <2>3. addattr_l(b, type, alen) = IF L + A > b.max THEN b ELSE Put(b, type, len, L + len, L + A)
    BY DEF addattr_l, L, A, len
  <2>4. rta_addattr_l(b, type, alen) = IF L + A > b.max THEN b ELSE Put(b, type, len, L + len, L + A)
    BY DEF rta_addattr_l, L, A, len
  <2>5. addattr32(b, type) = IF L + 8 > b.max THEN b ELSE Put(b, type, 8, L + 8, L + 8)
    BY <1>5 DEF addattr32, L
  <2>6. rta_addattr32(b, type) = IF L + 8 > b.max THEN b ELSE Put(b, type, 8, L + 8, L + 8)
    BY <1>5 DEF rta_addattr32, L
  <2>7. (L + A > b.max \/ L + A <= b.max) /\ (L + 8 > b.max \/ L + 8 <= b.max)
    BY <1>1, <1>2, <1>4
  <2>8. Laid(addattr_l(b, type, alen)) /\ Laid(rta_addattr_l(b, type, alen))
    BY <1>1, <1>2, <1>4, <2>2, <2>3, <2>4, <2>7
  <2>9. Laid(addattr32(b, type)) /\ Laid(rta_addattr32(b, type))
    BY <1>1, <1>2, <2>1, <2>5, <2>6, <2>7
  <2> QED
    BY <1>6, <2>8, <2>9
<1>7. CASE b.kind = "routeadd"
  <2> DEFINE e == L + len
  <2>1. addattr_l_routeadd(b, type, alen) = IF e > b.max THEN b ELSE Put(b, type, len, e, e)
    BY DEF addattr_l_routeadd, L, len
  <2>2. CASE e > b.max
    BY <1>7, <2>1, <2>2
  <2>3. CASE ~(e > b.max)
    <3>1. e \in Nat /\ e <= b.max /\ e = ALIGN(b.len) + len /\ ALIGN(e) = ALIGN(b.len) + ALIGN(len)
      BY <1>1, <1>2, <1>3, <2>3 DEF L
    <3> HIDE DEF e
    <3>2. Laid(Put(b, type, len, e, e))
      BY <1>3, <1>7, <3>1, PutKeepsLaid
    <3>3. Put(b, type, len, e, e).kind = b.kind
      BY <1>1 DEF Put, BuiltMessages
    <3> QED
      BY <1>7, <2>1, <2>3, <3>2, <3>3
  <2> QED
    BY <2>2, <2>3
<1> QED
  BY <1>6, <1>7

\* Raw data before the first attribute moves the start.
LEMMA RawKeepsLaid ==
  ASSUME NEW b, Laid(b), b.kind # "routeadd", b.hdrs = << >>, NEW len \in Nat
  PROVE  Laid(addraw_l(b, len))
<1> DEFINE e == ALIGN(b.len) + ALIGN(len)
           w == [b EXCEPT !.top = e, !.len = e, !.start = e]
<1>1. b \in BuiltMessages /\ b.len \in Nat /\ b.max \in Nat /\ b.len = b.start /\ ALIGN(b.len) = b.len /\ b.start >= 4
  BY DEF Laid, BuiltMessages
<1>2. ALIGN(len) \in Nat /\ ALIGN(ALIGN(len)) = ALIGN(len)
  BY Aligned
<1>3. e \in Nat /\ e >= 4
  BY <1>1, <1>2
<1>4. ALIGN(e) = e
  <2>1. ALIGN(ALIGN(b.len) + ALIGN(len)) = ALIGN(b.len) + ALIGN(ALIGN(len))
    BY <1>1, <1>2, Aligned
  <2> QED
    BY <1>2, <2>1
<1>5. CASE e > b.max
  BY <1>5 DEF addraw_l
<1>6. CASE ~(e > b.max)
  <2>1. addraw_l(b, len) = w
    BY <1>6 DEF addraw_l
  <2> HIDE DEF e
  <2>2. /\ w \in BuiltMessages /\ w.kind = b.kind /\ w.max = b.max /\ w.hdrs = b.hdrs
        /\ w.start = e /\ w.top = e /\ w.len = e
    BY <1>1, <1>3 DEF BuiltMessages
  <2> HIDE DEF w
  <2>3. InARow(w.hdrs, w.start)
    BY <2>2 DEF InARow
  <2>4. Laid(w)
    BY <1>1, <1>3, <1>4, <1>6, <2>2, <2>3 DEF Laid
  <2> QED
    BY <2>1, <2>4
<1> QED
  BY <1>5, <1>6

\* The request laid out by hand is laid out like one built by the calls.
LEMMA FormKeepsLaid ==
  ASSUME NEW b, Laid(b), b.kind = "routeadd", b.max >= 20, NEW dst \in Nat, NEW oif \in Nat
  PROVE  Laid(form_request(b, dst, oif))
<1> DEFINE one == [off |-> 4, type |-> dst, len |-> 8]
           two == [off |-> 12, type |-> oif, len |-> 8]
           q == <<one, two>>
           w == [b EXCEPT !.hdrs = q, !.len = 20, !.top = 20]
<1>1. b \in BuiltMessages /\ b.max \in Nat /\ b.start = 4
  BY DEF Laid, BuiltMessages, NLHDR
<1>2. form_request(b, dst, oif) = w
  BY DEF form_request, NLHDR, RTA_LENGTH
<1>3. /\ one \in Hdrs /\ one.off = 4 /\ one.len = 8 /\ EndOf(one) = 12
      /\ two \in Hdrs /\ two.off = 12 /\ two.len = 8 /\ EndOf(two) = 20
  BY DEF Hdrs, EndOf, ALIGN
<1> HIDE DEF one, two
<1>4. q \in Seq(Hdrs) /\ Len(q) = 2 /\ DOMAIN q = 1..2 /\ q[1] = one /\ q[2] = two /\ q # << >>
  BY <1>3
<1> HIDE DEF q
<1>5. /\ w \in BuiltMessages /\ w.kind = b.kind /\ w.max = b.max /\ w.start = b.start
      /\ w.hdrs = q /\ w.len = 20 /\ w.top = 20
  BY <1>1, <1>4 DEF BuiltMessages
<1> HIDE DEF w
<1>6. \A k \in 1..2 : k = 1 \/ k = 2
  OBVIOUS
<1>7. InARow(q, b.start)
  <2>1. \A k \in DOMAIN q : q[k].len >= 4
    BY <1>3, <1>4, <1>6
  <2>2. q[1].off = b.start
    BY <1>1, <1>3, <1>4
  <2>3. \A k \in DOMAIN q : k + 1 \in DOMAIN q => q[k + 1].off = EndOf(q[k])
    BY <1>3, <1>4, <1>6
  <2>4. \A j, k \in DOMAIN q : j < k => EndOf(q[j]) <= q[k].off
    BY <1>3, <1>4, <1>6
  <2> QED
    BY <2>1, <2>2, <2>3, <2>4 DEF InARow
<1>8. ALIGN(20) = 20
  BY DEF ALIGN
<1>9. Laid(w)
  <2>1. w.start >= 4 /\ w.top <= w.max /\ w.len <= w.max
    BY <1>1, <1>5
  <2>2. w.hdrs # << >> /\ w.hdrs[Len(w.hdrs)] = two
    BY <1>4, <1>5
  <2>3. ALIGN(w.len) = EndOf(w.hdrs[Len(w.hdrs)]) /\ ALIGN(w.len) = w.len
    BY <1>3, <1>5, <1>8, <2>2
  <2>4. w.start = NLHDR /\ w.len = w.hdrs[Len(w.hdrs)].off + w.hdrs[Len(w.hdrs)].len
    BY <1>1, <1>3, <1>5, <2>2 DEF NLHDR
  <2>5. w \in BuiltMessages /\ InARow(w.hdrs, w.start)
    BY <1>5, <1>7
  <2> QED
    BY <2>1, <2>2, <2>3, <2>4, <2>5 DEF Laid
<1> QED
  BY <1>2, <1>9

-----------------------------------------------------------------------------
(* Reading a file.                                                         *)

\* Files: only the last record may be cut, and one that is cut has a body.
RecsOK(recs) ==
  /\ recs \in Seq([len : FileLens, cut : {"none", "header", "body"}])
  /\ \A k \in DOMAIN recs : recs[k].cut # "none" => k = Len(recs) /\ recs[k].len # 0
EndsWell(recs) ==
  \/ recs[Len(recs)].cut = "none"
  \/ recs[Len(recs)].cut = "header" /\ (Len(recs) = 1 \/ recs[Len(recs) - 1].len = 0)
Results == [handed : Seq(Nat), ret : {"ok", "malformed", "truncated", "handler"}]

\* What reading the records from k on can have handed over and returned.
ReadFrom(recs, k, r) ==
  /\ r \in Results
  /\ \A i \in DOMAIN r.handed : r.handed[i] = k + i - 1
  /\ r.ret = "ok" => Len(r.handed) = Len(recs) + 1 - k /\ (k <= Len(recs) => EndsWell(recs))
  /\ r.ret = "truncated" => recs[Len(recs)].cut # "none" /\ Len(r.handed) = Len(recs) - k

\* One message more in front.
More(k, r) == [r EXCEPT !.handed = <<k>> \o @]

\* One turn of the loop: the length read and what reading on gives.
LensAt(recs, k) == IF recs[k].cut = "header" THEN StaleLens(recs, k) ELSE {recs[k].len}
ReadOne(recs, stop, k, len, rest) ==
  IF len > FileBuf THEN {[handed |-> << >>, ret |-> "malformed"]}
  ELSE IF Truncated(recs[k], len) THEN {[handed |-> << >>, ret |-> "truncated"]}
  ELSE IF k = stop THEN {[handed |-> <<k>>, ret |-> "handler"]}
  ELSE {More(k, r) : r \in rest}
ReadAll(recs, stop, k, rest) == UNION {ReadOne(recs, stop, k, len, rest) : len \in LensAt(recs, k)}
ReadsOver(f, recs, stop) ==
  f = [k \in 1..(Len(recs) + 1) |->
         IF k > Len(recs) THEN {[handed |-> << >>, ret |-> "ok"]} ELSE ReadAll(recs, stop, k, f[k + 1])]

\* What it hands over begins with this message, and the rest follows.
LEMMA HandedMore ==
  ASSUME NEW r \in Results, NEW k \in Nat
  PROVE  /\ More(k, r) \in Results /\ More(k, r).ret = r.ret /\ Len(More(k, r).handed) = Len(r.handed) + 1
         /\ More(k, r).handed[1] = k
         /\ \A i \in 2..(Len(r.handed) + 1) : More(k, r).handed[i] = r.handed[i - 1]
<1> DEFINE a == <<k>>
           q == a \o r.handed
           w == More(k, r)
<1>1. r.handed \in Seq(Nat) /\ Len(r.handed) \in Nat
  BY DEF Results
<1>2. a \in Seq(Nat) /\ Len(a) = 1 /\ a[1] = k
  OBVIOUS
<1>3. w = [r EXCEPT !.handed = q]
  BY DEF More
<1> HIDE DEF a, w
<1>4. q \in Seq(Nat) /\ Len(q) = Len(a) + Len(r.handed)
      /\ \A i \in 1..(Len(a) + Len(r.handed)) : q[i] = IF i <= Len(a) THEN a[i] ELSE r.handed[i - Len(a)]
  BY <1>1, <1>2, ConcatProperties
<1> HIDE DEF q
<1>5. Len(q) = Len(r.handed) + 1 /\ q[1] = k /\ \A i \in 2..(Len(r.handed) + 1) : q[i] = r.handed[i - 1]
  <2>1. Len(q) = Len(r.handed) + 1 /\ \A i \in 1..(Len(r.handed) + 1) : q[i] = IF i <= 1 THEN a[i] ELSE r.handed[i - 1]
    BY <1>1, <1>2, <1>4
  <2>2. 1 \in 1..(Len(r.handed) + 1)
    BY <1>1
  <2>3. ASSUME NEW i \in 2..(Len(r.handed) + 1)
        PROVE  q[i] = r.handed[i - 1]
    <3>1. i \in 1..(Len(r.handed) + 1) /\ ~(i <= 1)
      BY <1>1, <2>3
    <3> QED
      BY <2>1, <3>1
  <2> QED
    BY <1>2, <2>1, <2>2, <2>3
<1>6. w \in Results /\ w.handed = q /\ w.ret = r.ret
  BY <1>3, <1>4 DEF Results
<1> QED
  BY <1>5, <1>6 DEF w

\* A turn gives results, whatever it read.
LEMMA ReadOneResults ==
  ASSUME NEW recs, NEW stop, NEW k \in Nat, NEW len, NEW rest \in SUBSET Results
  PROVE  ReadOne(recs, stop, k, len, rest) \in SUBSET Results
<1>1. << >> \in Seq(Nat) /\ <<k>> \in Seq(Nat)
  OBVIOUS
<1>2. \A r \in rest : More(k, r) \in Results
  BY HandedMore
<1>3. /\ [handed |-> << >>, ret |-> "malformed"] \in Results
      /\ [handed |-> << >>, ret |-> "truncated"] \in Results
      /\ [handed |-> <<k>>, ret |-> "handler"] \in Results
  BY <1>1 DEF Results
<1>4. {More(k, r) : r \in rest} \subseteq Results
  BY <1>2
<1> QED
  BY <1>3, <1>4 DEF ReadOne

\* So do all the lengths the turn may have read.
LEMMA ReadAllResults ==
  ASSUME NEW recs, NEW stop, NEW k \in Nat, NEW rest \in SUBSET Results
  PROVE  ReadAll(recs, stop, k, rest) \in SUBSET Results
BY ReadOneResults DEF ReadAll

\* The loop over the records ends.
LEMMA ReadsExists ==
  ASSUME NEW recs, Len(recs) \in Nat, NEW stop
  PROVE  \E f : ReadsOver(f, recs, stop)
<1> DEFINE n == Len(recs)
           Base == {0}
           down == [a \in Nat |-> a - 1]
           start == [a \in Nat |-> {[handed |-> << >>, ret |-> "ok"]}]
           step == [a \in Nat |-> [x \in SUBSET Results |->
                      IF a <= n THEN ReadAll(recs, stop, n + 1 - a, x) ELSE {}]]
<1>1. Descends(Base, down)
  BY DEF Descends
<1>2. \A a \in Base : start[a] \in SUBSET Results
  BY DEF Results
<1>3. ASSUME NEW a \in Nat, NEW x \in SUBSET Results
      PROVE  step[a][x] \in SUBSET Results
  <2>1. step[a][x] = IF a <= n THEN ReadAll(recs, stop, n + 1 - a, x) ELSE {}
    OBVIOUS
  <2>2. CASE a <= n
    <3>1. n + 1 - a \in Nat
      BY <2>2
    <3> HIDE DEF n, step
    <3> QED
      BY <2>1, <2>2, <3>1, ReadAllResults
  <2>3. CASE ~(a <= n)
    BY <2>1, <2>3
  <2> QED
    BY <2>2, <2>3
<1>4. PICK g \in [Nat -> SUBSET Results] : Recurs(g, Nat, Base, start, down, step)
  <2> HIDE DEF Base, down, start, step
  <2> QED
    BY <1>1, <1>2, <1>3, DescendingRecursion
<1>5. g[0] = {[handed |-> << >>, ret |-> "ok"]}
  BY <1>4 DEF Recurs
<1>6. ASSUME NEW k \in 1..n
      PROVE  g[n + 1 - k] = ReadAll(recs, stop, k, g[n - k])
  <2> DEFINE a == n + 1 - k
  <2>1. a \in Nat /\ a # 0 /\ a - 1 = n - k /\ a <= n /\ n + 1 - a = k /\ a - 1 \in Nat
    OBVIOUS
  <2> HIDE DEF a
  <2>2. a \notin Base /\ down[a] = a - 1
    BY <2>1
  <2>3. g[a] = IF a \in Base THEN start[a] ELSE step[a][g[down[a]]]
    BY <1>4, <2>1 DEF Recurs
  <2>4. g[a - 1] \in SUBSET Results
    BY <1>4, <2>1
  <2>5. \A x \in SUBSET Results : step[a][x] = ReadAll(recs, stop, n + 1 - a, x)
    BY <2>1
  <2> HIDE DEF n, Base, down, start, step
  <2>6. g[a] = ReadAll(recs, stop, n + 1 - a, g[a - 1])
    BY <2>2, <2>3, <2>4, <2>5
  <2> QED
    BY <2>1, <2>6 DEF a
<1> DEFINE f == [k \in 1..(n + 1) |-> g[n + 1 - k]]
<1>7. ASSUME NEW k \in 1..(n + 1)
      PROVE  f[k] = IF k > n THEN {[handed |-> << >>, ret |-> "ok"]} ELSE ReadAll(recs, stop, k, f[k + 1])
  <2>1. CASE k > n
    <3>1. n + 1 - k = 0
      BY <2>1
    <3>2. f[k] = g[0]
      BY <3>1
    <3> HIDE DEF f
    <3> QED
      BY <1>5, <2>1, <3>2
  <2>2. CASE ~(k > n)
    <3>1. k \in 1..n /\ k + 1 \in 1..(n + 1) /\ n + 1 - (k + 1) = n - k
      BY <2>2
    <3>2. f[k] = g[n + 1 - k] /\ f[k + 1] = g[n - k]
      BY <3>1
    <3> HIDE DEF f
    <3> QED
      BY <1>6, <2>2, <3>1, <3>2
  <2> QED
    BY <2>1, <2>2
<1>8. f = [k \in 1..(n + 1) |-> f[k]]
  OBVIOUS
<1> HIDE DEF f
<1>9. [k \in 1..(n + 1) |-> f[k]] =
        [k \in 1..(n + 1) |-> IF k > n THEN {[handed |-> << >>, ret |-> "ok"]} ELSE ReadAll(recs, stop, k, f[k + 1])]
  BY <1>7
<1>10. ReadsOver(f, recs, stop)
  BY <1>8, <1>9 DEF ReadsOver
<1> QED
  BY <1>10

\* rtnl_from_file gives what such a loop gives from the first record on.
LEMMA ReadsOf ==
  ASSUME NEW recs, Len(recs) \in Nat, NEW stop
  PROVE  \E f : ReadsOver(f, recs, stop) /\ rtnl_from_file(recs, stop) = f[1]
<1> DEFINE from == CHOOSE from : from = [k \in 1..(Len(recs) + 1) |->
        IF k > Len(recs) THEN {[handed |-> << >>, ret |-> "ok"]}
        ELSE UNION {
               IF len > FileBuf THEN {[handed |-> << >>, ret |-> "malformed"]}
               ELSE IF Truncated(recs[k], len) THEN {[handed |-> << >>, ret |-> "truncated"]}
               ELSE IF k = stop THEN {[handed |-> <<k>>, ret |-> "handler"]}
               ELSE {[r EXCEPT !.handed = <<k>> \o @] : r \in from[k + 1]}
             : len \in IF recs[k].cut = "header" THEN StaleLens(recs, k) ELSE {recs[k].len}}]
<1>1. rtnl_from_file(recs, stop) = from[1]
  BY Zenon DEF rtnl_from_file
<1>2. PICK g : ReadsOver(g, recs, stop)
  BY ReadsExists
<1>3. g = [k \in 1..(Len(recs) + 1) |->
        IF k > Len(recs) THEN {[handed |-> << >>, ret |-> "ok"]}
        ELSE UNION {
               IF len > FileBuf THEN {[handed |-> << >>, ret |-> "malformed"]}
               ELSE IF Truncated(recs[k], len) THEN {[handed |-> << >>, ret |-> "truncated"]}
               ELSE IF k = stop THEN {[handed |-> <<k>>, ret |-> "handler"]}
               ELSE {[r EXCEPT !.handed = <<k>> \o @] : r \in g[k + 1]}
             : len \in IF recs[k].cut = "header" THEN StaleLens(recs, k) ELSE {recs[k].len}}]
  BY <1>2, Zenon DEF ReadsOver, ReadAll, ReadOne, LensAt, More
<1>4. \E h : h = [k \in 1..(Len(recs) + 1) |->
        IF k > Len(recs) THEN {[handed |-> << >>, ret |-> "ok"]}
        ELSE UNION {
               IF len > FileBuf THEN {[handed |-> << >>, ret |-> "malformed"]}
               ELSE IF Truncated(recs[k], len) THEN {[handed |-> << >>, ret |-> "truncated"]}
               ELSE IF k = stop THEN {[handed |-> <<k>>, ret |-> "handler"]}
               ELSE {[r EXCEPT !.handed = <<k>> \o @] : r \in h[k + 1]}
             : len \in IF recs[k].cut = "header" THEN StaleLens(recs, k) ELSE {recs[k].len}}]
  BY <1>3, Zenon
<1>5. ReadsOver(from, recs, stop)
  BY <1>4, Zenon DEF ReadsOver, ReadAll, ReadOne, LensAt, More
<1> QED
  BY <1>1, <1>5

\* One turn more, whatever it read.
LEMMA ReadOneFrom ==
  ASSUME NEW recs, RecsOK(recs), NEW stop, NEW k \in 1..Len(recs), NEW len \in LensAt(recs, k),
         NEW rest, \A r \in rest : ReadFrom(recs, k + 1, r),
         NEW s \in ReadOne(recs, stop, k, len, rest)
  PROVE  ReadFrom(recs, k, s)
<1> DEFINE n == Len(recs)
<1>1. n \in Nat /\ DOMAIN recs = 1..n /\ k \in 1..n
  BY DEF RecsOK
<1>a. ASSUME NEW j \in 1..n
      PROVE  /\ recs[j].len \in Nat /\ recs[j].len \in FileLens /\ recs[j].cut \in {"none", "header", "body"}
             /\ recs[j].cut # "none" => j = n /\ recs[j].len # 0
  <2> DEFINE T == [len : FileLens, cut : {"none", "header", "body"}]
  <2>0. recs \in Seq(T)
    BY DEF RecsOK
  <2> HIDE DEF T
  <2>1. recs[j] \in T /\ j \in DOMAIN recs
    BY <1>1, <2>0
  <2>2. recs[j].cut # "none" => j = n /\ recs[j].len # 0
    BY <2>1 DEF RecsOK
  <2> HIDE DEF n
  <2>3. recs[j].len \in FileLens /\ recs[j].cut \in {"none", "header", "body"}
    BY <2>1 DEF T
  <2> QED
    BY <2>2, <2>3, LensAssumption
<1>b. n = Len(recs)
  OBVIOUS
<1> HIDE DEF n
<1>c. k \in Nat /\ 1 <= k /\ k <= n /\ (k # 1 => k - 1 \in 1..n) /\ n + 1 - (k + 1) = n - k
  BY <1>1
<1>2. len \in Nat
  <2>2. \A l \in LensAt(recs, k) : l = recs[k].len \/ l \in FileLens \/ (k # 1 /\ l = recs[k - 1].len)
    BY DEF LensAt, StaleLens
  <2> QED
    BY <1>1, <1>a, <1>c, <2>2, LensAssumption
<1>3. << >> \in Seq(Nat) /\ Len(<< >>) = 0 /\ DOMAIN << >> = {}
  OBVIOUS
<1>4. CASE len > FileBuf
  <2> DEFINE z == [handed |-> << >>, ret |-> "malformed"]
  <2>1. s = z
    BY <1>4 DEF ReadOne
  <2>2. z \in Results /\ z.handed = << >> /\ z.ret = "malformed"
    BY <1>3 DEF Results
  <2> HIDE DEF z
  <2> QED
    BY <1>3, <2>1, <2>2 DEF ReadFrom
<1>5. CASE ~(len > FileBuf) /\ Truncated(recs[k], len)
  <2> DEFINE z == [handed |-> << >>, ret |-> "truncated"]
  <2>1. s = z
    BY <1>5 DEF ReadOne
  <2>2. z \in Results /\ z.handed = << >> /\ z.ret = "truncated"
    BY <1>3 DEF Results
  <2> HIDE DEF z
  <2>3. k = n /\ recs[n].cut # "none"
    BY <1>1, <1>a, <1>5 DEF Truncated
  <2>4. Len(s.handed) = n - k
    BY <1>c, <1>3, <2>1, <2>2, <2>3
  <2> QED
    BY <1>b, <1>3, <2>1, <2>2, <2>3, <2>4 DEF ReadFrom
<1>6. CASE ~(len > FileBuf) /\ ~Truncated(recs[k], len) /\ k = stop
  <2> DEFINE z == [handed |-> <<k>>, ret |-> "handler"]
  <2>1. s = z
    BY <1>6 DEF ReadOne
  <2>2. z \in Results /\ z.handed = <<k>> /\ z.ret = "handler"
    BY <1>c DEF Results
  <2> HIDE DEF z
  <2>3. \A i \in DOMAIN <<k>> : <<k>>[i] = k + i - 1
    BY <1>c
  <2> QED
    BY <2>1, <2>2, <2>3 DEF ReadFrom
<1>7. CASE ~(len > FileBuf) /\ ~Truncated(recs[k], len) /\ k # stop
  <2>1. PICK r \in rest : s = More(k, r)
    BY <1>7 DEF ReadOne
  <2>2. ReadFrom(recs, k + 1, r)
    BY <2>1
  <2>3. r \in Results /\ r.handed \in Seq(Nat) /\ Len(r.handed) \in Nat /\ DOMAIN r.handed = 1..Len(r.handed)
    BY <2>2 DEF ReadFrom, Results
  <2>4. /\ s \in Results /\ s.ret = r.ret /\ Len(s.handed) = Len(r.handed) + 1
        /\ s.handed[1] = k /\ \A i \in 2..(Len(r.handed) + 1) : s.handed[i] = r.handed[i - 1]
    <3>1. k \in Nat /\ r \in Results
      BY <1>c, <2>3
    <3> QED
      BY <2>1, <3>1, HandedMore
  <2>5. DOMAIN s.handed = 1..(Len(r.handed) + 1)
    BY <2>3, <2>4 DEF Results
  <2>6. ASSUME NEW i \in DOMAIN s.handed
        PROVE  s.handed[i] = k + i - 1
    <3>1. CASE i = 1
      BY <1>c, <2>4, <3>1
    <3>2. CASE i # 1
      <4>1. i \in 2..(Len(r.handed) + 1) /\ i - 1 \in DOMAIN r.handed /\ i \in Nat
        BY <2>3, <2>5, <3>2
      <4>2. r.handed[i - 1] = (k + 1) + (i - 1) - 1
        BY <2>2, <4>1 DEF ReadFrom
      <4>3. (k + 1) + (i - 1) - 1 = k + i - 1
        <5>1. \A x, y \in Nat : (x + 1) + (y - 1) - 1 = x + y - 1
          OBVIOUS
        <5>2. k \in Nat /\ i \in Nat
          BY <1>c, <4>1
        <5> QED
          BY <5>1, <5>2
      <4> QED
        BY <2>4, <4>1, <4>2, <4>3
    <3> QED
      BY <3>1, <3>2
  <2>7. ASSUME s.ret = "ok"
        PROVE  Len(s.handed) = n + 1 - k /\ EndsWell(recs)
    <3>1. Len(r.handed) = n + 1 - (k + 1) /\ (k + 1 <= n => EndsWell(recs))
      BY <1>b, <2>2, <2>4, <2>7 DEF ReadFrom
    <3>2. Len(s.handed) = n + 1 - k
      BY <1>c, <1>1, <2>3, <2>4, <3>1
    <3>3. CASE k + 1 <= n
      BY <3>1, <3>2, <3>3
    <3>4. CASE ~(k + 1 <= n)
      <4>1. k = n
        BY <1>1, <1>c, <3>4
      <4>2. recs[n].cut = "none" \/ len = 0
        BY <1>2, <1>7, <4>1 DEF Truncated
      <4>3. CASE recs[n].cut = "none"
        BY <1>b, <3>2, <4>3 DEF EndsWell
      <4>4. CASE recs[n].cut # "none"
        <5>1. len = 0 /\ recs[n].len # 0
          BY <1>1, <1>a, <4>1, <4>2, <4>4
        <5>2. recs[n].cut = "header" /\ len \in StaleLens(recs, n)
          BY <1>1, <1>a, <4>1, <4>4, <5>1 DEF LensAt
        <5>3. n = 1 \/ recs[n - 1].len = 0
          BY <5>1, <5>2 DEF StaleLens
        <5> QED
          BY <1>b, <3>2, <5>2, <5>3 DEF EndsWell
      <4> QED
        BY <4>3, <4>4
    <3> QED
      BY <3>3, <3>4
  <2>8. ASSUME s.ret = "truncated"
        PROVE  recs[n].cut # "none" /\ Len(s.handed) = n - k
    <3>1. recs[n].cut # "none" /\ Len(r.handed) = n - (k + 1)
      BY <1>b, <2>2, <2>4, <2>8 DEF ReadFrom
    <3> QED
      BY <1>c, <1>1, <2>3, <2>4, <3>1
  <2> QED
    BY <1>b, <2>4, <2>6, <2>7, <2>8 DEF ReadFrom
<1> QED
  BY <1>4, <1>5, <1>6, <1>7

\* What the loop hands over and returns, from the first record on.
LEMMA FileRead ==
  ASSUME NEW recs, RecsOK(recs), NEW stop, NEW r \in rtnl_from_file(recs, stop)
  PROVE  ReadFrom(recs, 1, r)
<1> DEFINE n == Len(recs)
<1>1. n \in Nat
  BY DEF RecsOK
<1>2. PICK f : ReadsOver(f, recs, stop) /\ rtnl_from_file(recs, stop) = f[1]
  BY <1>1, ReadsOf
<1>3. f[n + 1] = {[handed |-> << >>, ret |-> "ok"]}
  <2>1. n + 1 \in 1..(n + 1) /\ n + 1 > n
    BY <1>1
  <2> QED
    BY <1>2, <2>1 DEF ReadsOver
<1>4. ASSUME NEW k \in 1..n
      PROVE  f[k] = ReadAll(recs, stop, k, f[k + 1])
  <2>1. k \in 1..(n + 1) /\ ~(k > n)
    BY <1>1
  <2> QED
    BY <1>2, <2>1 DEF ReadsOver
<1> DEFINE S == {a \in Nat : \A q \in f[n + 1 - a] : ReadFrom(recs, n + 1 - a, q)}
<1>5. 0 \in S
  <2> DEFINE z == [handed |-> << >>, ret |-> "ok"]
  <2>1. z \in Results /\ z.handed = << >> /\ z.ret = "ok" /\ Len(<< >>) = 0 /\ DOMAIN << >> = {}
    BY DEF Results
  <2>2. n + 1 - 0 = n + 1 /\ n + 1 - (n + 1) = 0 /\ ~(n + 1 <= n)
    BY <1>1
  <2>3. \A q \in f[n + 1] : q = z
    BY <1>3
  <2> HIDE DEF z
  <2>4. ReadFrom(recs, n + 1, z)
    BY <2>1, <2>2 DEF ReadFrom
  <2> QED
    BY <2>2, <2>3, <2>4
<1>6. ASSUME NEW a \in 1..n, a - 1 \in S
      PROVE  a \in S
  <2> DEFINE k == n + 1 - a
  <2>1. k \in 1..n /\ k + 1 = n + 1 - (a - 1) /\ a \in Nat
    BY <1>1
  <2>2. \A q \in f[k + 1] : ReadFrom(recs, k + 1, q)
    BY <1>6, <2>1
  <2>3. f[k] = ReadAll(recs, stop, k, f[k + 1])
    BY <1>4, <2>1
  <2> SUFFICES \A q \in f[k] : ReadFrom(recs, k, q)
    BY <2>1
  <2> HIDE DEF k
  <2>4. ASSUME NEW q \in f[k]
        PROVE  ReadFrom(recs, k, q)
    <3>1. PICK len \in LensAt(recs, k) : q \in ReadOne(recs, stop, k, len, f[k + 1])
      BY <2>3, <2>4 DEF ReadAll
    <3> QED
      BY <2>1, <2>2, <3>1, ReadOneFrom
  <2> QED
    BY <2>4
<1> HIDE DEF S
<1>7. 0..n \subseteq S
  BY <1>1, <1>5, <1>6, IntervalInduction
<1>8. n \in S /\ n + 1 - n = 1
  BY <1>1, <1>7
<1> QED
  BY <1>2, <1>8 DEF S

-----------------------------------------------------------------------------
(* The invariant, and the theorem.                                         *)

\* The files there are: at most two whole records, then perhaps one that is cut.
LEMMA FilesOK ==
  ASSUME NEW f \in Files
  PROVE  RecsOK(f)
<1> DEFINE T == [len : FileLens, cut : {"none", "header", "body"}]
           whole == {<< >>} \cup {<<a>> : a \in Records} \cup {<<a, b>> : a, b \in Records}
<1>1. ASSUME NEW a \in Records
      PROVE  a \in T /\ a.cut = "none"
  BY DEF Records
<1>2. ASSUME NEW e \in Ends
      PROVE  e \in T /\ e.len # 0
  BY DEF Ends
<1>3. f \in whole \/ \E g \in whole, e \in Ends : f = Append(g, e)
  BY DEF Files
<1> HIDE DEF T
<1>4. ASSUME NEW g \in whole
      PROVE  g \in Seq(T) /\ \A k \in DOMAIN g : g[k].cut = "none"
  <2>1. CASE g = << >>
    BY <2>1
  <2>2. ASSUME NEW a \in Records, g = <<a>>
        PROVE  g \in Seq(T) /\ \A k \in DOMAIN g : g[k].cut = "none"
    BY <1>1, <2>2
  <2>3. ASSUME NEW a \in Records, NEW b \in Records, g = <<a, b>>
        PROVE  g \in Seq(T) /\ \A k \in DOMAIN g : g[k].cut = "none"
    <3>1. a \in T /\ b \in T /\ a.cut = "none" /\ b.cut = "none"
      BY <1>1
    <3>2. g \in Seq(T) /\ DOMAIN g = 1..2 /\ g[1] = a /\ g[2] = b
      BY <2>3, <3>1
    <3>3. \A k \in 1..2 : k = 1 \/ k = 2
      OBVIOUS
    <3> QED
      BY <3>1, <3>2, <3>3
  <2> QED
    BY <2>1, <2>2, <2>3
<1> HIDE DEF whole
<1>5. CASE f \in whole
  <2>1. f \in Seq(T) /\ \A k \in DOMAIN f : f[k].cut = "none"
    BY <1>4, <1>5
  <2> QED
    BY <2>1 DEF RecsOK, T
<1>6. ASSUME NEW g \in whole, NEW e \in Ends, f = Append(g, e)
      PROVE  RecsOK(f)
  <2>1. g \in Seq(T) /\ \A k \in DOMAIN g : g[k].cut = "none"
    BY <1>4
  <2>2. e \in T /\ e.len # 0
    BY <1>2
  <2>3. /\ f \in Seq(T) /\ Len(f) = Len(g) + 1 /\ f[Len(f)] = e
        /\ \A k \in 1..Len(g) : f[k] = g[k]
    BY <1>6, <2>1, <2>2, AppendProperties
  <2>4. Len(g) \in Nat /\ DOMAIN g = 1..Len(g) /\ DOMAIN f = 1..Len(f)
    BY <2>1, <2>3
  <2>5. \A k \in DOMAIN f : k \in 1..Len(g) \/ k = Len(f)
    BY <2>3, <2>4
  <2>6. \A k \in DOMAIN f : f[k].cut # "none" => k = Len(f) /\ f[k].len # 0
    BY <2>1, <2>2, <2>3, <2>4, <2>5
  <2> QED
    BY <2>3, <2>6 DEF RecsOK, T
<1> QED
  BY <1>3, <1>5, <1>6

\* A message under construction is laid out, and a file that was read, was read
\* through.
ReadingStates ==
  [recs : Seq([len : FileLens, cut : {"none", "header", "body"}]), handed : Seq(Nat),
   ret : {"none", "ok", "malformed", "truncated", "handler"}]
AttrInv ==
  /\ attrs.kind = "none" \/ Laid(attrs)
  /\ nfile \in ReadingStates /\ RecsOK(nfile.recs)
  /\ FileReadThrough

\* The invariant says that messages are read back.
LEMMA AttrInvImplies == AttrInv => MessagesReadBack
<1> SUFFICES ASSUME AttrInv
             PROVE  AttrsReadBack /\ FileReadThrough
  BY DEF MessagesReadBack
<1>1. CASE attrs.kind = "none"
  BY <1>1 DEF AttrsReadBack, AttrInv
<1>2. CASE Laid(attrs)
  BY <1>2, LaidReadsBack DEF AttrInv
<1> QED
  BY <1>1, <1>2 DEF AttrInv

\* A new message is laid out: there is nothing in it.
LEMMA NewIsLaid ==
  ASSUME NEW kind \in {"message", "nested", "routeadd"}, NEW max \in MaxLens
  PROVE  Laid(NewMessage(kind, max))
<1> DEFINE w == NewMessage(kind, max)
<1>1. max \in Nat /\ max >= 4
  BY LensAssumption
<1>2. /\ w.kind = kind /\ w.max = max /\ w.len = 4 /\ w.start = 4 /\ w.hdrs = << >> /\ w.top = 4
      /\ w \in BuiltMessages
  BY <1>1 DEF NewMessage, NLHDR, BuiltMessages
<1> HIDE DEF w
<1>3. ALIGN(4) = 4
  BY DEF ALIGN
<1>4. InARow(<< >>, 4)
  BY DEF InARow
<1>5. Laid(w)
  BY <1>1, <1>2, <1>3, <1>4 DEF Laid, NLHDR
<1> QED
  BY <1>5 DEF w

\* It holds of a new message and of a file not yet read.
LEMMA AttrInitially == AttrInit => AttrInv
<1> SUFFICES ASSUME AttrInit
             PROVE  AttrInv
  OBVIOUS
<1>1. NoFile \in ReadingStates /\ NoFile.recs = << >> /\ NoFile.ret = "none"
  BY DEF NoFile, ReadingStates
<1>2. RecsOK(<< >>)
  BY DEF RecsOK
<1>3. CASE /\ \E kind \in {"message", "nested", "routeadd"}, max \in MaxLens : attrs = NewMessage(kind, max)
           /\ nfile = NoFile
  <2>1. Laid(attrs)
    BY <1>3, NewIsLaid
  <2> QED
    BY <1>1, <1>2, <1>3, <2>1 DEF AttrInv, FileReadThrough
<1>4. CASE /\ attrs = NewMessage("none", 0)
           /\ \E f \in Files : nfile = [NoFile EXCEPT !.recs = f]
  <2>1. attrs.kind = "none"
    BY <1>4 DEF NewMessage
  <2>2. PICK f \in Files : nfile = [NoFile EXCEPT !.recs = f]
    BY <1>4
  <2>3. RecsOK(f)
    BY FilesOK
  <2>4. nfile.recs = f /\ nfile.ret = "none"
    BY <2>2 DEF NoFile
  <2>5. nfile \in ReadingStates
    <3>1. f \in Seq([len : FileLens, cut : {"none", "header", "body"}])
      BY <2>3 DEF RecsOK
    <3>2. nfile = [recs |-> f, handed |-> << >>, ret |-> "none"]
      BY <2>2 DEF NoFile
    <3> QED
      BY <3>1, <3>2 DEF ReadingStates
  <2> QED
    BY <2>1, <2>3, <2>4, <2>5 DEF AttrInv, FileReadThrough
<1> QED
  BY <1>3, <1>4 DEF AttrInit

\* Every call that appends, and reading the file, keep it.
LEMMA AttrNextKeeps ==
  ASSUME AttrInv, [AttrNext]_attrVars
  PROVE  AttrInv'
<1>1. ASSUME NEW b, Laid(b), attrs' = b, UNCHANGED nfile
      PROVE  AttrInv'
  BY <1>1 DEF AttrInv, FileReadThrough
<1>2. ASSUME attrs.kind \in {"message", "nested", "routeadd"}
      PROVE  Laid(attrs)
  BY <1>2 DEF AttrInv
<1>3. AttrTypes \subseteq Nat /\ AttrLens \subseteq Nat
  BY AttrAssumption
<1>4. ASSUME NEW type \in AttrTypes, attrs.kind = "message",
             Build(addattr32(attrs, type)) \/ \E alen \in AttrLens : Build(addattr_l(attrs, type, alen))
      PROVE  AttrInv'
  <2>1. Laid(attrs) /\ type \in Nat /\ 0 \in Nat /\ attrs.kind # "routeadd"
    BY <1>2, <1>3, <1>4
  <2>2. \A alen \in Nat : Laid(addattr_l(attrs, type, alen)) /\ Laid(addattr32(attrs, type))
    BY <1>4, <2>1, AddKeepsLaid
  <2> QED
    BY <1>1, <1>3, <1>4, <2>1, <2>2 DEF Build
<1>5. ASSUME NEW type \in AttrTypes, attrs.kind = "nested",
             Build(rta_addattr32(attrs, type)) \/ \E alen \in AttrLens : Build(rta_addattr_l(attrs, type, alen))
      PROVE  AttrInv'
  <2>1. Laid(attrs) /\ type \in Nat /\ 0 \in Nat /\ attrs.kind # "routeadd"
    BY <1>2, <1>3, <1>5
  <2>2. \A alen \in Nat : Laid(rta_addattr_l(attrs, type, alen)) /\ Laid(rta_addattr32(attrs, type))
    BY <1>5, <2>1, AddKeepsLaid
  <2> QED
    BY <1>1, <1>3, <1>5, <2>1, <2>2 DEF Build
<1>6. ASSUME NEW type \in AttrTypes, NEW alen \in AttrLens, attrs.kind = "routeadd",
             Build(addattr_l_routeadd(attrs, type, alen))
      PROVE  AttrInv'
  <2>1. Laid(attrs) /\ type \in Nat /\ alen \in Nat
    BY <1>2, <1>3, <1>6
  <2>2. Laid(addattr_l_routeadd(attrs, type, alen))
    BY <1>6, <2>1, AddKeepsLaid
  <2> QED
    BY <1>1, <1>6, <2>2 DEF Build
<1>7. ASSUME NEW len \in AttrLens, attrs.kind = "message", attrs.hdrs = << >>, Build(addraw_l(attrs, len))
      PROVE  AttrInv'
  <2>1. Laid(attrs) /\ len \in Nat /\ attrs.kind # "routeadd"
    BY <1>2, <1>3, <1>7
  <2>2. Laid(addraw_l(attrs, len))
    BY <1>7, <2>1, RawKeepsLaid
  <2> QED
    BY <1>1, <1>7, <2>2 DEF Build
<1>8. ASSUME NEW dst \in AttrTypes, NEW other \in AttrTypes, attrs.kind = "routeadd", attrs.max >= 20,
             Build(route_add(attrs, dst, other)) \/ Build(form_request(attrs, dst, other))
      PROVE  AttrInv'
  <2>1. Laid(attrs) /\ dst \in Nat /\ other \in Nat
    BY <1>2, <1>3, <1>8
  <2>2. Laid(form_request(attrs, dst, other))
    BY <1>8, <2>1, FormKeepsLaid
  <2>3. Laid(route_add(attrs, dst, other))
    <3> DEFINE one == addattr_l_routeadd(attrs, dst, 4)
    <3>1. Laid(one) /\ one.kind = "routeadd"
      BY <1>8, <2>1, AddKeepsLaid
    <3>2. route_add(attrs, dst, other) = addattr_l_routeadd(one, other, 4)
      BY DEF route_add
    <3> HIDE DEF one
    <3>3. Laid(addattr_l_routeadd(one, other, 4))
      BY <2>1, <3>1, AddKeepsLaid
    <3> QED
      BY <3>2, <3>3
  <2> QED
    BY <1>1, <1>8, <2>2, <2>3 DEF Build
<1>9. ASSUME NEW stop, NEW r \in rtnl_from_file(nfile.recs, stop), nfile.recs # << >>,
             nfile' = [nfile EXCEPT !.handed = r.handed, !.ret = r.ret], UNCHANGED attrs
      PROVE  AttrInv'
  <2>1. nfile \in ReadingStates /\ RecsOK(nfile.recs)
    BY DEF AttrInv
  <2>2. ReadFrom(nfile.recs, 1, r)
    BY <2>1, FileRead
  <2>3. r.handed \in Seq(Nat) /\ r.ret \in {"ok", "malformed", "truncated", "handler"}
    BY <2>2 DEF ReadFrom, Results
  <2>4. /\ nfile' \in ReadingStates /\ nfile'.recs = nfile.recs
        /\ nfile'.handed = r.handed /\ nfile'.ret = r.ret
    BY <1>9, <2>1, <2>3 DEF ReadingStates
  <2>5. Len(nfile.recs) \in Nat /\ Len(nfile.recs) >= 1
    BY <1>9, <2>1 DEF ReadingStates
  <2>6. ASSUME NEW i \in DOMAIN r.handed
        PROVE  r.handed[i] = i
    <3>1. r.handed[i] = 1 + i - 1 /\ i \in Nat
      BY <2>2, <2>3 DEF ReadFrom
    <3> QED
      BY <3>1
  <2>7. r.ret = "ok" => Len(r.handed) = Len(nfile.recs) /\ EndsWell(nfile.recs)
    BY <2>2, <2>5 DEF ReadFrom
  <2>8. r.ret = "truncated" => nfile.recs[Len(nfile.recs)].cut # "none" /\ Len(r.handed) = Len(nfile.recs) - 1
    BY <2>2 DEF ReadFrom
  <2>9. FileReadThrough'
    BY <2>4, <2>6, <2>7, <2>8 DEF FileReadThrough, EndsWell
  <2>10. attrs'.kind = "none" \/ Laid(attrs')
    BY <1>9 DEF AttrInv
  <2> QED
    BY <2>1, <2>4, <2>9, <2>10 DEF AttrInv
<1>10. CASE UNCHANGED attrVars
  BY <1>10 DEF AttrInv, FileReadThrough, attrVars
<1>11. CASE AttrNext
  BY <1>4, <1>5, <1>6, <1>7, <1>8, <1>9, <1>11, Zenon DEF AttrNext
<1> QED
  BY <1>10, <1>11

\* Whatever is appended and in whatever order, within the room there is, a parser
\* of libnetlink.c finds every attribute and nothing else; and rtnl_from_file
\* hands over a file's messages in order, none twice, and says ok only of one
\* that ended well.
THEOREM MessagesAreReadBack == AttrSpec => []MessagesReadBack
<1>1. AttrInit => AttrInv
  BY AttrInitially
<1>2. AttrInv /\ [AttrNext]_attrVars => AttrInv'
  BY AttrNextKeeps
<1>3. AttrInv => MessagesReadBack
  BY AttrInvImplies
<1> QED
  BY <1>1, <1>2, <1>3, PTL DEF AttrSpec
=============================================================================
