---------------------------- MODULE PacketFilter ----------------------------
(***************************************************************************)
(* The programs that take packets from a socket through a BPF filter:      *)
(* sniff_stun.c, mylpf5.c, pf_udprecv.c and raw_pf_igmp.c on packet        *)
(* sockets, raw_pf_stun.c, raw_pf_udprecv.c and the STUN server            *)
(* (ss_main_csumnotready.c, with the frame check of test_packet.c) on raw  *)
(* UDP sockets, udprecv.c on a datagram socket, and raw_igmp.c, which has  *)
(* no filter.                                                              *)
(*                                                                         *)
(* The filters are the programs' own instructions, run by the machine the  *)
(* kernel runs them on.  A frame is the record of the fields they read.    *)
(* The socket hears packets from the moment it exists, the filter is       *)
(* attached by a later call.                                               *)
(***************************************************************************)
EXTENDS Integers, Sequences, SequencesExt

CONSTANTS
  FieldValues, \* field of a frame -> the values it takes
  RcvBuf,      \* packets a socket's receive buffer holds
  MaxFrames,   \* bound: frames that arrive
  MaxUnusual   \* bound: those of them that differ from what the program is for

VARIABLES
  cprog,  \* the program that runs
  cpc,    \* its next call: "socket", "aux", "attach", "xmlrpc", "event", "bind", "read", "exit"
  csock,  \* "none", "open", "filtered" or "closed"
  cqueue, \* the receive buffer: packets and the bytes kept of each
  cheard, \* packets that reached the socket, whether it took them, whether before the filter
  cout,   \* packets read, what was done with them and how many bytes
  cstats  \* the STUN server's ss_global_stats
captureVars == <<cprog, cpc, csock, cqueue, cheard, cout, cstats>>

ETH_P_IP == 2048
ETH_P_IPV6 == 34525
IPPROTO_UDP == 17
IPPROTO_IGMP == 2
PORT == 6600
Magic == 8466 * 65536 + 42050          \* 0x2112a442
LJ == 27754                            \* "lj"

-----------------------------------------------------------------------------
(* A frame's bytes, two at an even offset at a time, as a socket whose     *)
(* packets start at base sees them.                                        *)

IpHdr(p) == IF p.ethertype = ETH_P_IPV6 THEN 40 ELSE 4 * p.ihl
Stated(p) == IF p.udplen = "right" THEN p.dlen ELSE p.dlen + 1
Length(p, base) ==
  CASE base = "eth" -> 14 + IpHdr(p) + p.dlen
    [] base = "ip" -> IpHdr(p) + p.dlen
    [] base = "udp" -> p.dlen

IpField(p, i) ==
  CASE i = -2 -> p.ethertype
    [] i = 0 -> (64 + p.ihl) * 256
    [] i = 6 -> IF p.ethertype = ETH_P_IPV6 THEN p.proto * 256 ELSE p.frag
    [] i = 8 -> p.proto
    [] i = 16 -> p.dst * 256
    [] OTHER -> 0
UdpField(p, u) ==
  CASE u = 0 -> p.sport
    [] u = 2 -> p.dport
    [] u = 4 -> Stated(p)
    [] u = 8 -> p.first
    [] u = 10 -> p.mlen
    [] u = 12 -> p.magic \div 65536
    [] u = 14 -> p.magic % 65536
    [] OTHER -> 0
Half(p, base, o) ==
  LET i == CASE base = "eth" -> o - 14 [] base = "ip" -> o [] base = "udp" -> o + IpHdr(p)
  IN  IF i < IpHdr(p) THEN IpField(p, i) ELSE UdpField(p, i - IpHdr(p))
Byte(p, base, o) ==
  IF o % 2 = 0 THEN Half(p, base, o) \div 256 ELSE Half(p, base, o - 1) % 256

-----------------------------------------------------------------------------
(* The filter machine: accumulator a, index x, jumps forward only.  A load *)
(* past the packet's end rejects it.  Every mask of jset is all ones.      *)

BpfLoad(p, base, op, o) ==
  CASE op = "ldb" -> Byte(p, base, o)
    [] op = "ldh" -> Half(p, base, o)
    [] op = "ld" -> Half(p, base, o) * 65536 + Half(p, base, o + 2)
LoadSize(op) == CASE op = "ldb" -> 1 [] op = "ldh" -> 2 [] op = "ld" -> 4
Holds(op, a, k) ==
  CASE op = "jeq" -> a = k [] op = "jge" -> a >= k [] op = "jset" -> a % (k + 1) # 0

RECURSIVE BpfRun(_, _, _, _, _, _)
BpfRun(code, p, base, pc, a, x) ==
  LET i == code[pc]
      o == IF i.ind THEN x + i.k ELSE i.k
  IN  CASE i.op = "ret" -> i.k
        [] i.op \in {"jeq", "jge", "jset"} ->
             BpfRun(code, p, base, pc + 1 + (IF Holds(i.op, a, i.k) THEN i.jt ELSE i.jf), a, x)
        [] i.op = "ldxb" ->
             IF i.k >= Length(p, base) THEN 0
             ELSE BpfRun(code, p, base, pc + 1, a, 4 * (Byte(p, base, i.k) % 16))
        [] OTHER ->
             IF o + LoadSize(i.op) > Length(p, base) THEN 0
             ELSE BpfRun(code, p, base, pc + 1, BpfLoad(p, base, i.op, o), x)

Ld(op, k) == [op |-> op, k |-> k, ind |-> FALSE, jt |-> 0, jf |-> 0]
LdX(op, k) == [op |-> op, k |-> k, ind |-> TRUE, jt |-> 0, jf |-> 0]
J(op, jt, jf, k) == [op |-> op, k |-> k, ind |-> FALSE, jt |-> jt, jf |-> jf]
Ret(k) == [op |-> "ret", k |-> k, ind |-> FALSE, jt |-> 0, jf |-> 0]

IgmpCode == <<Ld("ldh", 12), J("jeq", 0, 3, ETH_P_IP), Ld("ldb", 23), J("jeq", 0, 1, IPPROTO_IGMP),
              Ret(96), Ret(0)>>

SniffStunCode ==
  <<Ld("ldh", 12), J("jeq", 0, 14, ETH_P_IP), Ld("ldb", 30), J("jge", 12, 0, 224),
    Ld("ldb", 23), J("jeq", 0, 10, IPPROTO_UDP), Ld("ldh", 20), J("jset", 8, 0, 8191),
    Ld("ldxb", 14), LdX("ldb", 22), J("jeq", 0, 5, 0), LdX("ldh", 24), J("jset", 3, 0, 3),
    LdX("ld", 26), J("jeq", 0, 1, Magic), Ret(1514), Ret(0)>>

\* The same without the 14 bytes of the Ethernet header, and without the type and
\* protocol a raw UDP socket has already looked at.
RawStunCode ==
  <<Ld("ldb", 16), J("jge", 10, 0, 224), Ld("ldh", 6), J("jset", 8, 0, 8191),
    Ld("ldxb", 0), LdX("ldb", 8), J("jeq", 0, 5, 0), LdX("ldh", 10), J("jset", 3, 0, 3),
    LdX("ld", 12), J("jeq", 0, 1, Magic), Ret(256), Ret(0)>>

PfUdpCode ==
  <<Ld("ldh", 12), J("jeq", 0, 6, ETH_P_IPV6), Ld("ldb", 20), J("jeq", 0, 15, IPPROTO_UDP),
    Ld("ldh", 54), J("jeq", 12, 0, PORT), Ld("ldh", 56), J("jeq", 10, 11, PORT),
    J("jeq", 0, 10, ETH_P_IP), Ld("ldb", 23), J("jeq", 0, 8, IPPROTO_UDP), Ld("ldh", 20),
    J("jset", 6, 0, 8191), Ld("ldxb", 14), LdX("ldh", 14), J("jeq", 2, 0, PORT),
    LdX("ldh", 16), J("jeq", 0, 1, PORT), Ret(96), Ret(0)>>

MyLpfCode ==
  <<Ld("ldh", 12), J("jeq", 0, 11, ETH_P_IP), Ld("ldb", 30), J("jge", 17, 0, 224),
    Ld("ldb", 23), J("jeq", 0, 15, IPPROTO_UDP), Ld("ldh", 20), J("jset", 13, 0, 8191),
    Ld("ldxb", 14), LdX("ldh", 14), J("jeq", 9, 0, PORT), LdX("ldh", 16), J("jeq", 7, 8, PORT),
    J("jeq", 0, 7, ETH_P_IPV6), Ld("ldb", 20), J("jeq", 0, 5, IPPROTO_UDP), Ld("ldh", 54),
    J("jeq", 2, 0, PORT), Ld("ldh", 56), J("jeq", 0, 1, PORT), Ret(256), Ret(0)>>

RawUdpCode == <<Ld("ldh", 28), J("jeq", 0, 1, LJ), Ret(256), Ret(0)>>
UdpRecvCode == <<Ld("ldh", 8), J("jeq", 0, 1, LJ), Ret(256), Ret(0)>>

\* attach_stun_request_filter is a library's: raw_pf_stun's filter, a whole frame kept.
attach_stun_request_filter == [RawStunCode EXCEPT ![12] = Ret(1514)]

Filters ==
  [igmp |-> IgmpCode, sniff_stun |-> SniffStunCode, mylpf5 |-> MyLpfCode, pf_udprecv |-> PfUdpCode,
   raw_stun |-> RawStunCode, raw_udprecv |-> RawUdpCode, udprecv |-> UdpRecvCode,
   stun_server |-> attach_stun_request_filter]

-----------------------------------------------------------------------------
(* The programs. *)

Captures == DOMAIN Filters \cup {"raw_igmp"}
Sniffers == {"igmp", "sniff_stun", "mylpf5"}   \* they end on a frame of less than 42 bytes
PacketSockets == Sniffers \cup {"pf_udprecv"}

Base(prog) ==
  IF prog \in PacketSockets THEN "eth" ELSE IF prog = "udprecv" THEN "udp" ELSE "ip"
BufferSize(prog) ==
  CASE prog \in {"igmp", "raw_igmp"} -> 100
    [] prog \in {"sniff_stun", "mylpf5"} -> 2048
    [] prog = "stun_server" -> 1514
    [] OTHER -> 1000

\* What the kernel hands to the socket the program makes: a raw UDP socket gets
\* packets put together from their fragments, a datagram socket valid ones for the
\* port bind chose, which is PORT here.
Heard(prog, p) ==
  /\ p.ethertype = ETH_P_IP
  /\ prog \in {"raw_stun", "raw_udprecv", "stun_server"} => p.proto = IPPROTO_UDP /\ p.frag = 0
  /\ prog = "raw_igmp" => p.proto = IPPROTO_IGMP /\ p.frag = 0
  /\ prog = "udprecv" =>
       /\ p.proto = IPPROTO_UDP /\ p.frag = 0 /\ p.dst < 224 /\ p.dport = PORT
       /\ p.dlen >= 8 /\ p.udplen = "right" /\ p.csum # "wrong"

Lesser(a, b) == IF a <= b THEN a ELSE b

\* The bytes of p that the socket keeps: all, or as many as the filter says.
KeptBytes(p) ==
  LET base == Base(cprog)
  IN  IF csock = "open" THEN Length(p, base)
      ELSE Lesser(BpfRun(Filters[cprog], p, base, 1, 0, 0), Length(p, base))

Arrive(p) ==
  /\ csock \in {"open", "filtered"} /\ Len(cheard) < MaxFrames
  /\ cprog = "udprecv" => cpc = "read"
  /\ Heard(cprog, p)
  /\ LET kept == KeptBytes(p)
         room == Len(cqueue) < RcvBuf
     IN  /\ cheard' = Append(cheard, [pkt |-> p, room |-> room, early |-> csock = "open" /\ cprog # "raw_igmp"])
         /\ cqueue' = IF kept > 0 /\ room
                      THEN Append(cqueue, [pkt |-> p, n |-> kept, early |-> csock = "open"]) ELSE cqueue
  /\ UNCHANGED <<cprog, cpc, csock, cout, cstats>>

NextCall(prog, call) ==
  CASE call = "socket" -> IF prog = "raw_igmp" THEN "read" ELSE IF prog = "stun_server" THEN "aux" ELSE "attach"
    [] call = "aux" -> "attach"
    [] call = "attach" -> IF prog = "stun_server" THEN "xmlrpc" ELSE IF prog = "udprecv" THEN "bind" ELSE "read"
    [] call = "xmlrpc" -> "event"
    [] OTHER -> "read"

\* Every call of the set-up may fail: the program then closes what it has and ends.
\* A socket without PACKET_AUXDATA will do; udprecv does not look at bind's result.
Setup ==
  /\ cpc \in {"socket", "aux", "attach", "xmlrpc", "event", "bind"}
  /\ cpc' = NextCall(cprog, cpc)
  /\ csock' = CASE cpc = "socket" -> "open" [] cpc = "attach" -> "filtered" [] OTHER -> csock
  /\ UNCHANGED <<cprog, cqueue, cheard, cout, cstats>>
EndProgram ==
  /\ cpc' = "exit" /\ cqueue' = <<>>
  /\ csock' = IF csock = "none" THEN "none" ELSE "closed"
SetupFails ==
  /\ cpc \in {"socket", "aux", "attach", "xmlrpc", "event"}
  /\ EndProgram /\ UNCHANGED <<cprog, cheard, cout, cstats>>

-----------------------------------------------------------------------------
(* The STUN server's defence against packets the filter should have kept   *)
(* out.                                                                    *)

udp_cksum(p) == IF p.ihl = 5 /\ p.csum = "wrong" THEN 1 ELSE 0
StunHeader == 20

FrameHeaders(p, n) ==
  CASE n < 20 -> "tooshortip"
    [] p.proto # IPPROTO_UDP -> "notudp"
    [] n < 4 * p.ihl -> "tooshortip"
    [] n - 4 * p.ihl < 8 -> "tooshortudp"
    [] Stated(p) # n - 4 * p.ihl -> "inconsistent"
    [] OTHER -> "ok"
sanity_check_packet_frame(p, n) ==
  IF /\ FrameHeaders(p, n) = "ok"
     /\ n - 4 * p.ihl - 8 >= StunHeader
     /\ p.csum # "none" => udp_cksum(p) = 0
  THEN 0 ELSE -1

packet_frame_check(p, n) ==
  IF FrameHeaders(p, n) # "ok" THEN FrameHeaders(p, n)
  ELSE IF p.csum # "none" /\ udp_cksum(p) # 0 THEN "chksum" ELSE "ok"

NoStunHeader_Signed(p, n) == n - 4 * p.ihl - 8 < StunHeader

\* The difference is compared as an unsigned number: below zero it is large.
NoStunHeader(p, n) == LET d == n - 4 * p.ihl - 8 IN d >= 0 /\ d < StunHeader

One(b) == IF b THEN 1 ELSE 0
\* The counters after a request of n bytes, and whether it is processed.
stun_socket_read_callback(p, n) ==
  LET ret == packet_frame_check(p, n)
  IN  [ok |-> ret = "ok" /\ ~NoStunHeader(p, n),
       stats |-> [cstats EXCEPT !.total = @ + 1,
                    !.tooshort = @ + One(ret \in {"tooshortip", "tooshortudp"}) + One(NoStunHeader(p, n)),
                    !.notudp = @ + One(ret = "notudp"),
                    !.inconsistent = @ + One(ret = "inconsistent"),
                    !.chksum = @ + One(ret = "chksum"),
                    !.ipoption = @ + One(ret # "tooshortip" /\ p.ihl # 5)]]

-----------------------------------------------------------------------------
(* The receive loops. *)

\* A datagram socket gives the payload; recvfrom gives what the buffer holds.
RecvBytes(e) ==
  Lesser(IF cprog = "udprecv" THEN e.n - 8 ELSE e.n, BufferSize(cprog))

\* The bytes printed: of a frame without IP options its UDP payload by sniff_stun
\* and mylpf5, everything by the others.
Dumped(p, n) ==
  IF cprog \notin {"sniff_stun", "mylpf5"} THEN n
  ELSE IF p.ihl = 5 /\ p.proto = IPPROTO_UDP THEN n - 14 - 20 - 8 ELSE 0

\* Nothing received ends the loops on recvfrom's result, a short frame the sniffers.
Ends(n) ==
  \/ cprog \in Sniffers /\ n < 42
  \/ cprog \notin {"sniff_stun", "mylpf5", "stun_server"} /\ n = 0

Read ==
  /\ cpc = "read" /\ cqueue # <<>>
  /\ LET e == Head(cqueue)
         n == RecvBytes(e)
         served == stun_socket_read_callback(e.pkt, n)
         Shown(what) == Append(cout, [pkt |-> e.pkt, n |-> n, early |-> e.early, did |-> what,
                                      bytes |-> Dumped(e.pkt, n)])
     IN  \/ /\ Ends(n) /\ EndProgram /\ UNCHANGED <<cout, cstats>>
         \/ /\ ~Ends(n) /\ cprog # "stun_server"
            /\ cout' = Shown("shown") /\ cqueue' = Tail(cqueue)
            /\ UNCHANGED <<cpc, csock, cstats>>
         \/ /\ cprog = "stun_server"
            /\ cout' = Shown(IF served.ok THEN "processed" ELSE "dropped")
            /\ cstats' = served.stats /\ cqueue' = Tail(cqueue)
            /\ UNCHANGED <<cpc, csock>>
  /\ UNCHANGED <<cprog, cheard>>

\* An error of recvfrom ends the programs; the server counts it and goes on.
ReadFails ==
  /\ cpc = "read"
  /\ \/ cprog # "stun_server" /\ EndProgram /\ UNCHANGED cstats
     \/ /\ cprog = "stun_server" /\ cstats.recvfrom_error < 1
        /\ cstats' = [cstats EXCEPT !.recvfrom_error = @ + 1]
        /\ UNCHANGED <<cpc, csock, cqueue>>
  /\ UNCHANGED <<cprog, cheard, cout>>

NoServerStats == [total |-> 0, recvfrom_error |-> 0, tooshort |-> 0, notudp |-> 0, inconsistent |-> 0,
            chksum |-> 0, ipoption |-> 0]

\* A STUN binding request between the two ports, and the frames around it.
Request ==
  [ethertype |-> ETH_P_IP, ihl |-> 5, proto |-> IPPROTO_UDP, frag |-> 0, dst |-> 10,
   sport |-> PORT, dport |-> PORT, udplen |-> "right", csum |-> "right",
   first |-> 1, mlen |-> 8, magic |-> Magic, dlen |-> 36]
Typical(prog) ==
  [Request EXCEPT !.proto = IF prog \in {"igmp", "raw_igmp"} THEN IPPROTO_IGMP ELSE @,
                  !.first = IF prog \in {"raw_udprecv", "udprecv"} THEN LJ ELSE @]
Varied(S) == UNION {{[p EXCEPT ![f] = v] : v \in FieldValues[f]} : p \in S, f \in DOMAIN FieldValues}

Unusual(h) == h.pkt # Typical(cprog)
Frames(prog) ==
  IF Len(SelectSeq(cheard, Unusual)) < MaxUnusual THEN Varied({Typical(prog)}) \cup {Typical(prog)}
  ELSE {Typical(prog)}

CaptureState(pc) ==
  /\ cpc = pc /\ csock = "none" /\ cqueue = <<>> /\ cheard = <<>> /\ cout = <<>> /\ cstats = NoServerStats
CaptureInit == cprog \in Captures /\ CaptureState("socket")
CaptureIdle == cprog = "raw_igmp" /\ CaptureState("exit")
CaptureNext ==
  \/ Setup \/ SetupFails \/ Read \/ ReadFails
  \/ \E p \in Frames(cprog) : Arrive(p)

-----------------------------------------------------------------------------
(* What the comments ask of the filters: the expressions given to tcpdump, *)
(* or the payload's first two bytes.                                       *)

ToPort(p) == p.dlen >= 2 /\ (p.sport = PORT \/ (p.dlen >= 4 /\ p.dport = PORT))
UdpPacket(p) == p.ethertype = ETH_P_IP /\ p.proto = IPPROTO_UDP /\ p.frag = 0
BindingRequest(p) ==
  /\ UdpPacket(p) /\ p.dst < 224
  /\ p.dlen >= 16 /\ p.first < 256 /\ p.mlen % 4 = 0 /\ p.magic = Magic
Wanted(prog, p) ==
  CASE prog = "igmp" -> p.ethertype = ETH_P_IP /\ p.proto = IPPROTO_IGMP
    [] prog \in {"sniff_stun", "raw_stun", "stun_server"} -> BindingRequest(p)
    [] prog = "mylpf5" ->
         \/ UdpPacket(p) /\ p.dst < 224 /\ ToPort(p)
         \/ p.ethertype = ETH_P_IPV6 /\ p.proto = IPPROTO_UDP /\ ToPort(p)
    [] prog = "pf_udprecv" ->
         \/ UdpPacket(p) /\ ToPort(p)
         \/ p.ethertype = ETH_P_IPV6 /\ p.proto = IPPROTO_UDP /\ ToPort(p)
    [] prog = "raw_udprecv" -> p.ihl = 5 /\ p.dlen >= 10 /\ p.first = LJ
    [] prog = "udprecv" -> p.dlen >= 10 /\ p.first = LJ
    [] prog = "raw_igmp" -> TRUE

\* A filter takes exactly the frames its comment asks for, whichever two fields
\* differ from what it looks for.
FilterExact(prog) ==
  \A p \in Varied(Varied({Typical(prog)})) :
    (Base(prog) = "eth" \/ Heard(prog, p)) =>
      (BpfRun(Filters[prog], p, Base(prog), 1, 0, 0) > 0) = Wanted(prog, p)

\* What is read, then what waits, is in order what was heard and asked for; a
\* packet from before the filter is there whatever it is.  Filtered packets leave
\* room in the buffer for the zero some programs write behind them, and no more
\* is printed than was received.
CaptureOrdered ==
  LET Taken(h) == h.room /\ (h.early \/ Wanted(cprog, h.pkt))
      wanted == [i \in DOMAIN SelectSeq(cheard, Taken) |-> SelectSeq(cheard, Taken)[i].pkt]
      got == [i \in DOMAIN (cout \o cqueue) |-> (cout \o cqueue)[i].pkt]
  IN  /\ IsPrefix(got, wanted) /\ (cpc # "exit" => got = wanted)
      /\ \A i \in DOMAIN cout :
           /\ cprog \in {"raw_udprecv", "pf_udprecv", "udprecv"} /\ ~cout[i].early => cout[i].n < BufferSize(cprog)
           /\ cout[i].bytes \in 0..cout[i].n

\* The server processes what the frame check of test_packet.c accepts and counts a
\* reason for everything else, too short at most once for a packet.
ServerAccounts ==
  LET Dropped(e) == e.did = "dropped"
      drops == Len(SelectSeq(cout, Dropped))
  IN  cprog = "stun_server" =>
        /\ \A i \in DOMAIN cout :
             (cout[i].did = "processed") = (sanity_check_packet_frame(cout[i].pkt, cout[i].n) = 0)
        /\ cstats.total = Len(cout) /\ cstats.tooshort <= drops
        /\ cstats.tooshort + cstats.notudp + cstats.inconsistent + cstats.chksum >= drops

\* The filters are what their comments say, the programs show what the filters let
\* through, and the STUN server accounts for every request.
CaptureExact ==
  /\ cpc = "socket" /\ cprog # "raw_igmp" => FilterExact(cprog)
  /\ CaptureOrdered
  /\ ServerAccounts
=============================================================================
