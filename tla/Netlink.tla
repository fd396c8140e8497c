------------------------------ MODULE Netlink ------------------------------
(***************************************************************************)
(* The netlink library, netlink/libnetlink.c, used by one process on one   *)
(* socket, with the interface map of ll_map.c as dump filter and listener, *)
(* and the programs that read a socket by themselves: nl_addr_get.c and    *)
(* netlink/get_, set_ and mon_routing_table.c.                             *)
(*                                                                         *)
(* The kernel is external: a socket is a bounded queue of datagrams, each  *)
(* a sequence of messages.  A request is served inside sendmsg.  An answer *)
(* or a notice that finds the queue full is dropped and makes the next     *)
(* read fail (overrun).  A dump is sent in parts, as the queue has room,   *)
(* each with the table as it is then, and NLMSG_DONE on its own.  Anyone   *)
(* may send to the socket, with the header they like.  Lengths are counted *)
(* in messages; BufMsgs fit the receive buffer, the rest of a datagram is  *)
(* cut off, inside a message ("partial") or before its header ("short").   *)
(***************************************************************************)
EXTENDS LlMap, FiniteSets

CONSTANTS
  Indexes, LinkNames,    \* interfaces 1..n and names, one more than interfaces
  QLen,                  \* datagrams the socket holds
  BufMsgs,               \* messages that fit the receive buffer
  PartMsgs,              \* messages in a part of a dump, at most
  MaxSeq, MaxNotices      \* bounds: requests; notices and foreign datagrams

ASSUME LinksAssumption ==
  /\ Cardinality(Indexes) \in Nat \ {0} /\ Indexes = 1..Cardinality(Indexes)
  /\ NoName \notin LinkNames
  /\ \E f \in [Indexes -> LinkNames] : \A i, j \in Indexes : i # j => f[i] # f[j]
ASSUME SizesAssumption ==
  /\ LlBuckets \in Nat \ {0} /\ QLen \in Nat /\ BufMsgs \in Nat \ {0} /\ PartMsgs \in Nat
  /\ MaxSeq \in Nat /\ MaxNotices \in Nat

VARIABLES
  links,      \* the kernel's interfaces: index -> name
  sock,       \* the socket: its queue, whether it overran, is subscribed, is open,
              \* the dump under way, whether rtnl_send used it, and the requests
              \* and events before it was opened
  nlseq,      \* rth->seq
  call,       \* the call under way or last finished
  ll,         \* the map of ll_map.c
  told,       \* the links handed to ll_remember_index, oldest first
  events      \* notices and foreign datagrams so far

netlinkVars == <<links, sock, nlseq, call, ll, told, events>>

Me == 1
Other == 2
Kernel == 0
NoSock == [q |-> << >>, overrun |-> FALSE, groups |-> FALSE, dump |-> << >>,
            open |-> FALSE, sent |-> FALSE, before |-> <<0, 0>>]
NoCall == [op |-> "none", ret |-> "ok"]

Link(i, seq, pid) ==
  [pid |-> pid, seq |-> seq, type |-> "link", idx |-> i, name |-> links[i], flags |-> i % 2]
Control(type, seq) == [pid |-> Me, seq |-> seq, type |-> type, idx |-> 0, name |-> NoName, flags |-> 0]
Datagram(from, msgs) == [from |-> from, msgs |-> msgs]

-----------------------------------------------------------------------------
(* The kernel's side.                                                      *)

Fits(s, n) == Len(s.q) + n <= QLen
AtMost(msgs, n) == IF Len(msgs) <= n THEN msgs ELSE SubSeq(msgs, 1, n)

\* The socket after these datagrams arrive: those that find it full are dropped.
Deliver(s, datagrams) ==
  [s EXCEPT !.q = AtMost(@ \o datagrams, QLen), !.overrun = @ \/ ~Fits(s, Len(datagrams))]

\* What a request is answered with.
Answers(op, seq, ack, i, verdict) ==
  IF verdict = "fail" THEN <<Datagram(Kernel, <<Control("fail", seq)>>)>>
  ELSE (IF op = "get" THEN <<Datagram(Kernel, <<Link(i, seq, Me)>>)>> ELSE << >>)
       \o (IF ack THEN <<Datagram(Kernel, <<Control("ack", seq)>>)>> ELSE << >>)

\* The next part of the dump under way, of a size the kernel chooses.
KernelDumps ==
  /\ sock.dump # << >> /\ Fits(sock, 1)
  /\ LET seq == sock.dump[1]
         left == Tail(sock.dump)
     IN  IF left = << >>
         THEN sock' = [Deliver(sock, <<Datagram(Kernel, <<Control("done", seq)>>)>>) EXCEPT !.dump = << >>]
         ELSE \E n \in 1..PartMsgs :
                /\ n <= Len(left)
                /\ sock' = [Deliver(sock, <<Datagram(Kernel, [k \in 1..n |-> Link(left[k], seq, Me)])>>)
                              EXCEPT !.dump = <<seq>> \o SubSeq(left, n + 1, Len(left))]
  /\ UNCHANGED <<links, nlseq, call, ll, told, events>>

\* Another process renames an interface; subscribers are told, with the
\* sequence number of that process's request.
KernelRenames(i, name) ==
  /\ events < MaxNotices /\ \A j \in Indexes : name # links[j]
  /\ events' = events + 1
  /\ links' = [links EXCEPT ![i] = name]
  /\ sock' = IF sock.open /\ sock.groups
             THEN Deliver(sock, <<Datagram(Kernel, <<[Link(i, nlseq, Other) EXCEPT !.name = name]>>)>>)
             ELSE sock
  /\ UNCHANGED <<nlseq, call, ll, told>>

\* A notice about an interface that does not carry its name.
KernelNotices(i) ==
  /\ events < MaxNotices /\ sock.open /\ sock.groups
  /\ events' = events + 1
  /\ sock' = Deliver(sock, <<Datagram(Kernel, <<[Link(i, 0, Kernel) EXCEPT !.name = NoName]>>)>>)
  /\ UNCHANGED <<links, nlseq, call, ll, told>>

\* Another process sends to the socket what looks like an answer.
ForeignArrives(type) ==
  /\ events < MaxNotices /\ sock.open
  /\ events' = events + 1
  /\ sock' = Deliver(sock, <<Datagram(Other, <<Control(type, nlseq)>>)>>)
  /\ UNCHANGED <<links, nlseq, call, ll, told>>

-----------------------------------------------------------------------------
(* Opening and sending.                                                    *)

\* ll_init_map ends the program when it fails.
Returned == call.ret # "wait" /\ call.op # "exited" /\ ~(call.op = "ll_init_map" /\ call.ret = "error")

\* socket, setsockopt, bind, getsockname in turn; a failure after socket leaves
\* the descriptor open.
rtnl_open(groups) ==
  /\ Returned /\ ~sock.open
  /\ sock' = [NoSock EXCEPT !.open = TRUE, !.groups = groups, !.before = <<nlseq, events>>]
  /\ \E ret \in {"ok", "error"} :
       call' = [op |-> IF ret = "ok" THEN "none" ELSE "unopened", ret |-> ret]
  /\ UNCHANGED <<links, nlseq, ll, told, events>>

rtnl_close ==
  /\ Returned /\ sock.open
  /\ sock' = NoSock /\ call' = NoCall
  /\ UNCHANGED <<links, nlseq, ll, told, events>>

NewCall(op, seq, answer, junk, stop, verdict, lost) ==
  [op |-> op, seq |-> seq, answer |-> answer, junk |-> junk, stop |-> stop, verdict |-> verdict,
   ret |-> "wait", got |-> << >>, lost |-> lost, cut |-> FALSE]

Ready == Returned /\ sock.open /\ call.op # "unopened" /\ nlseq < MaxSeq

AckFlag_Never(answer) == FALSE

\* NLM_F_ACK is set when no answer is wanted.
AckFlag(answer) == ~answer

\* A request; its answers may find the queue full.
rtnl_talk(op, i, answer, junk) ==
  /\ Ready
  /\ nlseq' = nlseq + 1
  /\ \/ \E verdict \in {"ack", "fail"} :
          LET answers == Answers(op, nlseq', AckFlag(answer), i, verdict)
          IN  /\ call' = NewCall(op, nlseq', answer, junk, 0, verdict, ~Fits(sock, Len(answers)))
              /\ sock' = Deliver(sock, answers)
     \/ call' = [op |-> "none", ret |-> "error"] /\ UNCHANGED sock   \* sendmsg fails
  /\ UNCHANGED <<links, ll, told, events>>

\* The message has a number of the caller's,
\* 0, and nobody waits for what the kernel says.
rtnl_send ==
  /\ Ready
  /\ call' = NoCall
  /\ \E verdict \in {"ack", "fail"} :
       sock' = [Deliver(sock, Answers("set", 0, FALSE, 1, verdict)) EXCEPT !.sent = TRUE]
  /\ UNCHANGED <<links, nlseq, ll, told, events>>
\* routeadd's rtnl_talk asks for an acknowledgement and does not wait for it.
rtnl_talk_routeadd ==
  /\ Ready
  /\ nlseq' = nlseq + 1 /\ call' = NoCall
  /\ \E verdict \in {"ack", "fail"} : sock' = Deliver(sock, Answers("set", nlseq', AckFlag(FALSE), 1, verdict))
  /\ UNCHANGED <<links, ll, told, events>>

\* A dump starts: rth->dump is the new sequence number.  A dump of this socket
\* that is still under way makes the kernel refuse it.
StartDump(op, junk, stop) ==
  /\ Ready
  /\ nlseq' = nlseq + 1
  /\ LET busy == sock.dump # << >>
         refusal == <<Datagram(Kernel, <<Control("fail", nlseq')>>)>>
     IN  \/ /\ call' = NewCall(op, nlseq', FALSE, junk, stop, IF busy THEN "fail" ELSE "ack",
                               busy /\ ~Fits(sock, 1))
            /\ sock' = IF busy THEN Deliver(sock, refusal)
                       ELSE [sock EXCEPT !.dump = <<nlseq'>> \o [i \in 1..Len(links) |-> i]]
         \/ /\ op # "recv_reply"             \* get_routing_table does not look
            /\ call' = [op |-> IF op = "ll_init_map" THEN "exited" ELSE "none", ret |-> "error"]
            /\ UNCHANGED sock
  /\ UNCHANGED <<links, ll, told, events>>

\* ll_init_map: rtnl_wilddump_request and rtnl_dump_filter with
\* ll_remember_index, no junk handler; any other filter may stop at a link.
rtnl_dump(junk, stop) == StartDump("dump", junk, stop)
ll_init_map == StartDump("ll_init_map", FALSE, 0)
\* The programs open a socket of their own.
\* nl_addr_get's request and readSock; get_routing_table's and recv_reply.
OwnSocket(groups) == sock.groups = groups /\ nlseq = sock.before[1] /\ ~sock.sent
nl_addr_get == OwnSocket(FALSE) /\ StartDump("readSock", FALSE, 0)
set_routing_table == OwnSocket(FALSE) /\ rtnl_send
get_routing_table == OwnSocket(TRUE) /\ StartDump("recv_reply", FALSE, 0)

Listen(op) ==
  /\ Ready /\ sock.groups
  /\ call' = NewCall(op, nlseq, FALSE, FALSE, 0, "ack", FALSE)
  /\ UNCHANGED <<links, sock, nlseq, ll, told, events>>
rtnl_listen == Listen("listen")
mon_routing_table == OwnSocket(TRUE) /\ Listen("recv_reply")

-----------------------------------------------------------------------------
(* Receiving.  p is the call, the map and what the map was told.           *)

Hand(p, m) == [p EXCEPT !.call.got = Append(@, m)]
HandToMap(p, m) ==
  [Hand(p, m) EXCEPT !.ll = ll_remember_index(@, m), !.told = Append(@, m)]
Return(p, ret) == [p EXCEPT !.call.ret = ret]

Mine_AnySeq(c, from, m) == from = Kernel /\ m.pid = Me
Mine(c, from, m) == from = Kernel /\ m.pid = Me /\ m.seq = c.seq
Junk(p) == IF p.call.junk THEN Return(p, "junk") ELSE p

rtnl_talk_message(p, from, m) ==
  CASE ~Mine(p.call, from, m) -> Junk(p)
    [] Mine(p.call, from, m) /\ m.type = "fail" -> Return(p, "error")
    [] Mine(p.call, from, m) /\ m.type = "ack" ->
         Return(IF p.call.answer THEN Hand(p, m) ELSE p, "ok")
    [] OTHER -> IF p.call.answer THEN Return(Hand(p, m), "ok") ELSE p   \* unexpected reply

rtnl_dump_filter_message(p, from, m) ==
  CASE ~Mine(p.call, from, m) -> Junk(p)
    [] Mine(p.call, from, m) /\ m.type = "done" -> Return(p, "ok")
    [] Mine(p.call, from, m) /\ m.type \in {"fail", "ack"} -> Return(p, "error")
    [] OTHER -> IF p.call.op = "ll_init_map" THEN HandToMap(p, m)
                ELSE IF m.idx = p.call.stop THEN Return(p, "filter") ELSE Hand(p, m)

\* The listener's handler here is ll_remember_index, which ignores what is not
\* a link.
rtnl_listen_message(p, from, m) == IF m.type = "link" THEN HandToMap(p, m) ELSE p

Message(p, from, m) ==
  IF p.call.ret # "wait" THEN p
  ELSE CASE p.call.op \in {"set", "get"} -> rtnl_talk_message(p, from, m)
         [] p.call.op \in {"dump", "ll_init_map"} -> rtnl_dump_filter_message(p, from, m)
         [] p.call.op = "listen" -> rtnl_listen_message(p, from, m)

Messages(p, from, msgs) ==
  LET after[n \in 0..Len(msgs)] == IF n = 0 THEN p ELSE Message(after[n - 1], from, msgs[n])
  IN  after[Len(msgs)]

\* A datagram read by the library: its whole messages, then, if it was cut, the
\* part of a message (talk and listen give up, a dump reads on) or nothing.
LibraryReads(p, d, cut) ==
  LET q == Messages(p, d.from, AtMost(d.msgs, BufMsgs))
      c == [q EXCEPT !.call.cut = TRUE]
  IN  IF Len(d.msgs) <= BufMsgs THEN q
      ELSE IF q.call.ret = "wait" /\ cut = "partial" /\ q.call.op \in {"set", "get", "listen"}
           THEN Return(c, "error") ELSE c

\* The programs read into what is left of one buffer, look at the first header
\* of each datagram and keep all of it.  readSock refuses an error and a first
\* message that is not whole, and reads until the dump is done; recv_reply looks
\* for neither and, as route changes are subscribed, reads once.
Kept(p, d) ==
  LET room == BufMsgs - Len(p.call.got)
  IN  [p EXCEPT !.call.got = @ \o AtMost(d.msgs, room), !.call.cut = @ \/ Len(d.msgs) > room]
readSock(p, d) ==
  LET head == d.msgs[1].type
  IN  IF BufMsgs = Len(p.call.got) \/ head \in {"ack", "fail"} THEN Return(p, "error")
      ELSE IF head = "done" THEN Return(p, "ok") ELSE Kept(p, d)
recv_reply(p, d) == Return(IF d.msgs[1].type = "done" THEN p ELSE Kept(p, d), "ok")

\* One recvmsg or recv: overrun is an error, after which the library and
\* recv_reply's caller go on and readSock gives up.
Receive ==
  /\ call.ret = "wait"
  /\ LET p == [call |-> call, ll |-> ll, told |-> told]
         After(q) == call' = q.call /\ ll' = q.ll /\ told' = q.told
     IN  \/ /\ sock.overrun
            /\ sock' = [sock EXCEPT !.overrun = FALSE]
            /\ After(CASE call.op = "readSock" -> Return(p, "error")
                       [] call.op = "recv_reply" -> Return(p, "ok")
                       [] OTHER -> p)
         \/ /\ ~sock.overrun /\ sock.q # << >>
            /\ sock' = [sock EXCEPT !.q = Tail(@)]
            /\ IF call.op = "readSock" THEN After(readSock(p, Head(sock.q)))
               ELSE IF call.op = "recv_reply" THEN After(recv_reply(p, Head(sock.q)))
               ELSE \E cut \in {"partial", "short"} : After(LibraryReads(p, Head(sock.q), cut))
  /\ UNCHANGED <<links, nlseq, events>>

\* A lookup by name, between calls or beside a listener's calls.
LookUp(name) ==
  /\ LET now == {i \in Indexes : links[i] = name}
         r == ll_name_to_index(ll, name, IF now = {} THEN 0 ELSE CHOOSE i \in now : TRUE)
     IN  r.ll # ll /\ ll' = r.ll
  /\ UNCHANGED <<links, sock, nlseq, call, told, events>>

NetlinkInit ==
  /\ links = CHOOSE f \in [Indexes -> LinkNames] : \A i, j \in Indexes : i # j => f[i] # f[j]
  /\ sock = NoSock /\ nlseq = 0 /\ call = NoCall /\ ll = EmptyLl /\ told = << >> /\ events = 0

NetlinkNext ==
  \/ KernelDumps
  \/ \E i \in Indexes, name \in LinkNames : KernelRenames(i, name)
  \/ \E i \in Indexes : KernelNotices(i)
  \/ \E type \in {"done", "ack"} : ForeignArrives(type)
  \/ \E groups \in BOOLEAN : rtnl_open(groups)
  \/ rtnl_close
  \/ \E op \in {"set", "get"}, i \in {1}, answer, junk \in BOOLEAN :
       (op = "set" => ~answer) /\ rtnl_talk(op, i, answer, junk)
  \/ rtnl_send \/ rtnl_talk_routeadd
  \/ \E junk \in BOOLEAN, stop \in {0, 1} : rtnl_dump(junk, stop)
  \/ ll_init_map \/ nl_addr_get \/ set_routing_table \/ get_routing_table \/ rtnl_listen \/ mon_routing_table
  \/ Receive
  \/ \E name \in LinkNames : LookUp(name)
NetlinkSpec == NetlinkInit /\ [][NetlinkNext]_netlinkVars

-----------------------------------------------------------------------------
IndexesOf(msgs) == [k \in DOMAIN msgs |-> msgs[k].idx]
All == [i \in 1..Len(links) |-> i]
Ascending(s) == \A j, k \in DOMAIN s : j < k => s[j] < s[k]

\* A call returns what the kernel answered to that very request, although the
\* socket also holds answers to calls that were abandoned half way, notices to
\* subscribers and datagrams of other processes: talk succeeds only if the
\* request did and hands out its own answer; a dump that succeeds has seen every
\* interface once, in order, unless a part did not fit the buffer; and so has
\* nl_addr_get unless somebody sent to its socket.
AnswersBelong ==
  /\ call.op \in {"set", "get"} =>
       /\ call.ret = "ok" => call.verdict = "ack"
       /\ call.ret = "ok" /\ call.answer => Len(call.got) = 1 /\ call.got[1].seq = call.seq
       /\ call.ret = "error" => call.verdict = "fail" \/ call.cut
  /\ call.op \in {"dump", "ll_init_map"} =>
       /\ Ascending(IndexesOf(call.got))
       /\ call.ret = "ok" => call.verdict = "ack" /\ (call.cut \/ IndexesOf(call.got) = All)
       /\ call.ret = "error" => call.verdict = "fail"
  /\ call.op = "readSock" /\ call.ret = "ok" /\ events = sock.before[2] =>
       call.cut \/ IndexesOf(call.got) = All

\* Nobody waits for an answer that is neither in the socket nor still to be
\* sent, unless the socket overran and dropped it: then rtnl_talk, which reads
\* on after the error, waits for ever.
WaitsForAnAnswer ==
  call.ret = "wait" /\ call.op \in {"set", "get", "dump", "ll_init_map", "readSock"} =>
    sock.q # << >> \/ sock.dump # << >> \/ call.lost

\* The map holds for each interface what was last said of it; a name is
\* translated to an index that once had it, and, where only one ever had it and
\* still has it, to that index, whatever the cache remembers.
MapIsNewest ==
  LET about(i) == {k \in DOMAIN told : told[k].idx = i /\ told[k].name # NoName}
      Newest(i) == told[CHOOSE k \in about(i) : \A j \in about(i) : j <= k]
      Had(name) == {told[k].idx : k \in {j \in DOMAIN told : told[j].name = name}}
  IN  /\ \A i \in Indexes :
           IF about(i) = {} THEN ll_idx_n2a(ll, i) = NoName
           ELSE ll_idx_n2a(ll, i) = Newest(i).name /\ ll_index_to_flags(ll, i) = Newest(i).flags
      /\ \A name \in LinkNames :
           LET ret == ll_name_to_index(ll, name, 0).ret
           IN  /\ ret # 0 => ret \in Had(name)
               /\ \A i \in Indexes : Had(name) = {i} /\ ll_idx_n2a(ll, i) = name => ret = i
=============================================================================
