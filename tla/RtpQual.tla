------------------------------- MODULE RtpQual ------------------------------
(***************************************************************************)
(* The multicast signal meter rtpqual.c: packets of several senders, with  *)
(* losses, duplicates and late ones, counted per second, per sender and in *)
(* all.  Only the low bits of a sequence number arrive, SeqBits of them    *)
(* instead of 8; the true numbers are kept beside them to judge the        *)
(* counts.  Senders are told apart by strncmp, which stops at a zero octet.*)
(***************************************************************************)
EXTENDS Integers, Sequences, FiniteSets

CONSTANTS
  SeqBits,
  Addresses,     \* sequences of octets
  PacketLen,     \* bytes of a packet and HEADER_FUDGE
  MaxPackets, MaxTrue, MaxSeconds   \* bounds

\* The high bit splits the numbers in halves; addresses have one length.
ASSUME SeqBitsAssumption == 2 ^ (SeqBits - 1) \in Nat \ {0} /\ 2 ^ SeqBits = 2 * 2 ^ (SeqBits - 1)
ASSUME AddressAssumption == Addresses \subseteq Seq(Nat) /\ \A a, b \in Addresses : Len(a) = Len(b)
ASSUME PacketAssumption == PacketLen \in Nat /\ MaxTrue \in Nat

VARIABLES
  ring,     \* the senders: a sequence that starts with the one senders points to
  stats,    \* sender -> its counts
  grand,    \* the grand totals
  tick, now,
  truth     \* sender -> true numbers: first, last, on-time and late packets
rtpVars == <<ring, stats, grand, tick, now, truth>>

RTP_SEQ_MOD == 2 ^ SeqBits
Late(d) == d % RTP_SEQ_MOD >= RTP_SEQ_MOD \div 2       \* the high bit of the difference
Zero == [spkts |-> 0, slost |-> 0, npkts |-> 0, bytes |-> 0]
\* Equal up to the first zero octet, or wholly.
SameAddr(a, b) ==
  \E n \in 0..Len(a) : /\ \A i \in 1..n : a[i] = b[i]
                       /\ n = Len(a) \/ (a[n + 1] = 0 /\ b[n + 1] = 0)

-----------------------------------------------------------------------------
\* findfrom: the sender of this address, or a new one behind the current one.
Senders(r) == {r[i] : i \in DOMAIN r}
Known(f) == {s \in Senders(ring) : SameAddr(f, s)}
findfrom(f) == IF Known(f) # {} THEN CHOOSE s \in Known(f) : TRUE ELSE f
WithSender(s) == IF s \in Senders(ring) \/ ring = <<>> THEN (IF ring = <<>> THEN <<s>> ELSE ring)
                 ELSE <<Head(ring), s>> \o Tail(ring)
\* senders = ss turns the ring.
Turned(r, s) == LET k == CHOOSE i \in DOMAIN r : r[i] = s
                IN  SubSeq(r, k, Len(r)) \o SubSeq(r, 1, k - 1)
getRTPseq(n) == n % RTP_SEQ_MOD

Summed_KeepsLoss(st) ==
  [st EXCEPT !.T = [k \in DOMAIN Zero |-> st.T[k] + st.cur[k]],
             !.cur = [Zero EXCEPT !.npkts = st.cur.npkts, !.slost = st.cur.slost], !.flags = 0]

\* A new second: the counts of the second join the totals and are cleared, all
\* but npkts, which joins them again in every later second.
Summed(st) ==
  [st EXCEPT !.T = [k \in DOMAIN Zero |-> st.T[k] + st.cur[k]], !.cur = [Zero EXCEPT !.npkts = st.cur.npkts], !.flags = 0]
SumOver(S, v) ==
  LET f[T \in SUBSET S] == IF T = {} THEN 0 ELSE LET s == CHOOSE x \in T : TRUE IN v[s] + f[T \ {s}]
  IN  f[S]
NewSecond == tick # now
AllStats == IF NewSecond THEN [s \in Senders(ring) |-> Summed(stats[s])] ELSE stats
GrandTotals == IF NewSecond THEN [k \in DOMAIN Zero |-> grand[k] + SumOver(Senders(ring), [s \in Senders(ring) |-> stats[s].cur[k]])] ELSE grand

\* Tabulate a packet with sequence number sq: late packets count as received
\* too, and leave the expected number alone.
Tabulated(st, sq) ==
  LET gap == sq - st.seq - 1
      got == [st EXCEPT !.flags = 1, !.cur.spkts = @ + 1, !.cur.bytes = @ + PacketLen]
  IN  IF st.seq < 0 THEN [got EXCEPT !.seq = sq]
      ELSE IF Late(gap) THEN [got EXCEPT !.cur.npkts = @ + 1]
      ELSE [got EXCEPT !.cur.slost = @ + (gap % RTP_SEQ_MOD), !.seq = sq]

NewStat == [seq |-> -1, flags |-> 0, cur |-> Zero, T |-> Zero]
NewTruth == [first |-> 0, last |-> 0, ontime |-> 0, late |-> 0, far |-> FALSE]
\* One turn of main's loop: packet n of the sender at address f.
PacketArrives(f, n) ==
  LET s == findfrom(f)
      before == IF s \in DOMAIN AllStats THEN AllStats[s] ELSE NewStat
      was == IF s \in DOMAIN truth THEN truth[s] ELSE NewTruth
      fresh == was.ontime = 0
      near == n - was.last \in (1 - RTP_SEQ_MOD \div 2)..(RTP_SEQ_MOD \div 2)
  IN  /\ stats' = [x \in DOMAIN AllStats \cup {s} |-> IF x = s THEN Tabulated(before, getRTPseq(n)) ELSE AllStats[x]]
      /\ grand' = GrandTotals
      /\ ring' = Turned(WithSender(s), s)
      /\ tick' = now
      /\ truth' = [x \in DOMAIN truth \cup {s} |->
           IF x # s THEN truth[x]
           ELSE IF fresh THEN [NewTruth EXCEPT !.first = n, !.last = n, !.ontime = 1]
           ELSE IF n > was.last THEN [was EXCEPT !.last = n, !.ontime = @ + 1, !.far = @ \/ ~near]
           ELSE [was EXCEPT !.late = @ + 1, !.far = @ \/ ~near]]
      /\ UNCHANGED now
Received == SumOver(DOMAIN truth, [s \in DOMAIN truth |-> truth[s].ontime + truth[s].late])
SecondPasses ==
  /\ now < MaxSeconds /\ now' = now + 1
  /\ UNCHANGED <<ring, stats, grand, tick, truth>>

NoStats == [s \in {} |-> NewStat]
RtpRest == ring = <<>> /\ stats = NoStats /\ grand = Zero /\ tick = 0 /\ truth = [s \in {} |-> NewTruth]
RtpIdle == RtpRest /\ now = MaxSeconds + 1
RtpInit == RtpRest /\ now = 0
RtpNext ==
  \/ now <= MaxSeconds /\ Received < MaxPackets /\ \E f \in Addresses, n \in 0..MaxTrue : PacketArrives(f, n)
  \/ SecondPasses
RtpSpec == RtpInit /\ [][RtpNext]_rtpVars

-----------------------------------------------------------------------------
\* Each address with its own octets up to a zero has one place in the ring and
\* the ring is never broken by insertions and turns.  As long as no packet was
\* further from the last one than half the numbers, the losses counted for a
\* sender, over seconds and wraps of the number, are the numbers skipped; and
\* the packets and bytes are those received.  The grand totals are the sums
\* of the senders' totals.
LossCounted ==
  /\ Senders(ring) = DOMAIN stats /\ Cardinality(Senders(ring)) = Len(ring)
  /\ \A a, b \in Senders(ring) : SameAddr(a, b) => a = b
  /\ \A s \in DOMAIN stats :
       LET st == stats[s]
           t == truth[s]
       IN  /\ st.T.spkts + st.cur.spkts = t.ontime + t.late
           /\ st.T.bytes + st.cur.bytes = PacketLen * (t.ontime + t.late)
           /\ ~t.far => /\ st.T.slost + st.cur.slost = t.last - t.first + 1 - t.ontime
                        /\ st.cur.npkts = t.late
  /\ \A k \in DOMAIN Zero :
       grand[k] = SumOver(Senders(ring), [s \in Senders(ring) |-> stats[s].T[k]])
=============================================================================
