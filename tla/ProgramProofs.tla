---------------------------- MODULE ProgramProofs ----------------------------
(***************************************************************************)
(* What holds of the smaller programs, for any peers, descriptors, groups, *)
(* addresses, files, threads and messages: the echo server                 *)
(* (echoserver_buffered.c), the multicast filter program (pmsft.c), the    *)
(* counter file system (lwnfs.c), the syslog client (syslog.c), the        *)
(* inotify sample (inotify-sample/) and the multicast signal meter         *)
(* (rtpqual.c); and of the inline power of a switch                        *)
(* (test/SM/softwaredesign.h).                                             *)
(***************************************************************************)
EXTENDS EchoServer, Pmsft, Lwnfs, SyslogClient, InotifySample, RtpQual, InlinePower, NatRecursion, FiniteSetTheorems, SequenceTheorems

-----------------------------------------------------------------------------
(* The echo server.                                                        *)

EchoBytes == EchoClients \X Nat
Peers == [state : {"none", "connecting", "open", "eof", "reset", "closed"},
          sent : Seq(EchoBytes), wire : Seq(EchoBytes), got : Seq(EchoBytes)]
ClientStructs == [peer : EchoClients \cup {"none"}, input : Seq(EchoBytes), output : Seq(EchoBytes)]
EchoTyped == peers \in [EchoClients -> Peers] /\ clients \in [Fds -> ClientStructs]

\* A connection that is up has one descriptor, and a descriptor in use is that
\* of a connection that is up.
Up(c) == peers[c].state \in {"open", "eof", "reset"}
OneFdEach ==
  /\ \A f \in UsedFds : clients[f].peer \in EchoClients /\ Up(clients[f].peer)
  /\ \A f, g \in UsedFds : clients[f].peer = clients[g].peer => f = g
  /\ \A c \in EchoClients : Up(c) => \E f \in UsedFds : clients[f].peer = c

\* The bytes a client sent are those it got back, the two buffers' and those
\* on the wire, in this order.
Whole(g, o, i, w) == g \o o \o i \o w
Parts(p, k) == Whole(p.got, k.output, k.input, p.wire) = p.sent
IsStart(q, s) == \E n \in 0..Len(s) : q = SubSeq(s, 1, n)
Carried ==
  /\ \A f \in UsedFds : Parts(peers[clients[f].peer], clients[f])
  /\ \A c \in EchoClients :
       /\ ~Up(c) => IsStart(peers[c].got, peers[c].sent)
       /\ peers[c].state \in {"none", "connecting"} => peers[c].got = <<>> /\ peers[c].wire = peers[c].sent

EchoInv == EchoTyped /\ OneFdEach /\ Carried

-----------------------------------------------------------------------------
(* Sequences that are cut and joined.                                      *)

\* A sequence is what a cut leaves of it, put together.
LEMMA Cut ==
  ASSUME NEW S, NEW q \in Seq(S), NEW n \in 1..Len(q)
  PROVE  /\ SubSeq(q, 1, n) \in Seq(S) /\ SubSeq(q, n + 1, Len(q)) \in Seq(S)
         /\ SubSeq(q, 1, n) \o SubSeq(q, n + 1, Len(q)) = q
<1>1. Len(q) \in Nat /\ \A i \in 1..Len(q) : q[i] \in S
  BY LenProperties, ElementOfSeq
<1>2. SubSeq(q, 1, n) \in Seq(S) /\ SubSeq(q, n + 1, Len(q)) \in Seq(S)
  BY <1>1, SubSeqProperties
<1>3. SubSeq(q, 1, n) \o SubSeq(q, n + 1, Len(q)) = SubSeq(q, 1, Len(q))
  <2>1. 1 \in 1..Len(q) + 1 /\ n \in 1 - 1..Len(q) /\ Len(q) \in n..Len(q)
    BY <1>1
  <2> QED
    BY <2>1, ConcatAdjacentSubSeq
<1>4. SubSeq(q, 1, Len(q)) = q
  BY SubSeqFull
<1> QED
  BY <1>2, <1>3, <1>4

\* The first of two sequences is the start of both together.
LEMMA FirstIsStart ==
  ASSUME NEW S, NEW q \in Seq(S), NEW r \in Seq(S)
  PROVE  IsStart(q, q \o r)
<1>1. Len(q) \in Nat /\ Len(r) \in Nat /\ Len(q \o r) = Len(q) + Len(r)
  BY LenProperties, ConcatProperties
<1>2. SubSeq(q \o r, 1, Len(q)) = q
  <2>1. CASE Len(q) = 0
    <3>1. q = <<>>
      BY <2>1, EmptySeq
    <3>2. SubSeq(q \o r, 1, 0) = <<>>
      BY SubSeqEmpty
    <3> QED
      BY <2>1, <3>1, <3>2
  <2>2. CASE Len(q) # 0
    <3>1. 1 \in 1..Len(q) /\ Len(q) \in 1..Len(q)
      BY <1>1, <2>2
    <3>2. SubSeq(q \o r, 1, Len(q)) = SubSeq(q, 1, Len(q))
      BY <3>1, SubSeqOfConcat1
    <3> QED
      BY <3>2, SubSeqFull
  <2> QED
    BY <2>1, <2>2
<1>3. Len(q) \in 0..Len(q \o r)
  BY <1>1
<1> QED
  BY <1>2, <1>3 DEF IsStart

\* A sequence that continues keeps its starts.
LEMMA StartStays ==
  ASSUME NEW S, NEW s \in Seq(S), NEW e \in S
  PROVE  IsStart(<<>>, Append(s, e))
<1>1. Len(Append(s, e)) = Len(s) + 1 /\ Len(s) \in Nat
  OBVIOUS
<1>2. SubSeq(Append(s, e), 1, 0) = <<>>
  BY SubSeqEmpty
<1> QED
  BY <1>1, <1>2 DEF IsStart

\* Concatenation is associative.
LEMMA Assoc ==
  ASSUME NEW S, NEW a \in Seq(S), NEW x \in Seq(S), NEW y \in Seq(S)
  PROVE  (a \o x) \o y = a \o (x \o y)
BY ConcatAssociative

\* Concatenation stays in the set T, joins as it comes and has the empty
\* sequence as its unit.
ConcatIn(T) ==
  /\ \A a, x \in T : a \o x \in T
  /\ \A a, x, y \in T : (a \o x) \o y = a \o (x \o y)
  /\ \A a \in T : <<>> \o a = a /\ a \o <<>> = a

\* So it is with the sequences over any set.
LEMMA ConcatHere == \A S : ConcatIn(Seq(S))
<1>1. \A S : \A a, x \in Seq(S) : a \o x \in Seq(S)
  BY ConcatProperties
<1>2. \A S : \A a \in Seq(S) : <<>> \o a = a /\ a \o <<>> = a
  BY ConcatEmptySeq
<1> QED
  BY <1>1, <1>2, Assoc DEF ConcatIn

\* What is appended to the end is appended to the whole.
LEMMA AppendToEnd ==
  ASSUME NEW S, NEW a \in Seq(S), NEW w \in Seq(S), NEW e \in S
  PROVE  a \o Append(w, e) = Append(a \o w, e)
<1>1. <<e>> \in Seq(S) /\ a \o w \in Seq(S)
  BY ConcatProperties
<1>2. Append(w, e) = w \o <<e>> /\ Append(a \o w, e) = (a \o w) \o <<e>>
  BY <1>1
<1>3. (a \o w) \o <<e>> = a \o (w \o <<e>>)
  <2>1. ConcatIn(Seq(S))
    BY ConcatHere
  <2> QED
    BY <1>1, <2>1, Zenon DEF ConcatIn
<1> QED
  BY <1>2, <1>3

\* Bytes are read, echoed and written: they move from one place to the next.
LEMMA ReadMove ==
  ASSUME NEW T, ConcatIn(T), NEW g \in T, NEW o \in T, NEW x \in T, NEW y \in T
  PROVE  Whole(g, o, <<>> \o x, y) = Whole(g, o, <<>>, x \o y)
<1> DEFINE a == g \o o
<1>1. a \in T
  BY Zenon DEF ConcatIn
<1> HIDE DEF a
<1>2. (a \o x) \o y = a \o (x \o y)
  BY <1>1, Zenon DEF ConcatIn
<1>3. <<>> \o x = x /\ a \o <<>> = a
  BY <1>1, Zenon DEF ConcatIn
<1> QED
  BY <1>2, <1>3, Zenon DEF Whole, a

\* The output buffer takes the input buffer over.
LEMMA EchoMove ==
  ASSUME NEW T, ConcatIn(T), NEW g \in T, NEW o \in T, NEW i \in T, NEW w \in T
  PROVE  Whole(g, o \o i, <<>>, w) = Whole(g, o, i, w)
<1>1. (g \o o) \o i = g \o (o \o i)
  BY Zenon DEF ConcatIn
<1>2. g \o (o \o i) \in T
  BY Zenon DEF ConcatIn
<1>3. (g \o (o \o i)) \o <<>> = g \o (o \o i)
  BY <1>2, Zenon DEF ConcatIn
<1> QED
  BY <1>1, <1>3, Zenon DEF Whole

\* The first bytes of the output buffer reach the client.
LEMMA WriteMove ==
  ASSUME NEW T, ConcatIn(T), NEW g \in T, NEW x \in T, NEW y \in T, NEW i, NEW w
  PROVE  Whole(g \o x, y, i, w) = Whole(g, x \o y, i, w)
<1>1. (g \o x) \o y = g \o (x \o y)
  BY Zenon DEF ConcatIn
<1> QED
  BY <1>1, Zenon DEF Whole

WholeGrows(S, g, o, i, w) == \A e \in S : Whole(g, o, i, Append(w, e)) = Append(Whole(g, o, i, w), e)

\* What came back is a start of the whole, and what is sent is added to the
\* end of it.
LEMMA StartOfWhole ==
  ASSUME NEW S, NEW g \in Seq(S), NEW o \in Seq(S), NEW i \in Seq(S), NEW w \in Seq(S)
  PROVE  /\ IsStart(g, Whole(g, o, i, w))
         /\ WholeGrows(S, g, o, i, w)
<1> DEFINE T == Seq(S)
           oi == o \o i
           r == oi \o w
           goi == g \o o \o i
<1>0. ConcatIn(T) /\ g \in T /\ o \in T /\ i \in T /\ w \in T
  BY ConcatHere
<1> HIDE DEF T
<1>1. oi \in T /\ g \o o \in T
  BY <1>0 DEF ConcatIn
<1>2. (g \o o) \o i = g \o oi
  BY <1>0, Zenon DEF ConcatIn
<1> HIDE DEF oi
<1>3. r \in T /\ (g \o oi) \o w = g \o r
  BY <1>0, <1>1 DEF ConcatIn
<1>4. Whole(g, o, i, w) = g \o r
  BY <1>2, <1>3, Zenon DEF Whole
<1> HIDE DEF r
<1>5. IsStart(g, g \o r)
  BY <1>0, <1>3, FirstIsStart DEF T
<1>6. goi \in T
  BY <1>0, <1>1 DEF ConcatIn
<1> HIDE DEF goi
<1>7. \A e \in S : goi \o Append(w, e) = Append(goi \o w, e)
  BY <1>0, <1>6, AppendToEnd DEF T
<1> QED
  BY <1>4, <1>5, <1>7 DEF Whole, WholeGrows, goi

-----------------------------------------------------------------------------
\* A descriptor is in use when its structure names a client.
LEMMA UsedNamesClient ==
  ASSUME EchoInv, NEW f \in Fds
  PROVE  f \in UsedFds <=> clients[f].peer # "none"
BY EchoAssumption DEF EchoInv, OneFdEach, UsedFds, NoClient

\* A step that moves bytes of one connection.
LEMMA ByteStep ==
  ASSUME EchoInv, NEW f \in UsedFds, NEW p \in Peers, NEW k \in ClientStructs,
         k.peer = clients[f].peer, p.state = peers[clients[f].peer].state,
         Parts(p, k), peers' = [peers EXCEPT ![clients[f].peer] = p],
         clients' = [clients EXCEPT ![f] = k]
  PROVE  EchoInv'
<1> DEFINE c == clients[f].peer
<1>1. /\ f \in Fds /\ c \in EchoClients /\ Up(c) /\ c # "none"
      /\ peers \in [EchoClients -> Peers] /\ clients \in [Fds -> ClientStructs]
  BY EchoAssumption DEF EchoInv, EchoTyped, OneFdEach, UsedFds
<1> HIDE DEF c
<1>2. EchoTyped'
  BY <1>1 DEF EchoTyped, c, Fds
<1>3. /\ \A d \in EchoClients : /\ peers'[d].state = peers[d].state
                                /\ d # c => peers'[d] = peers[d]
                                /\ d = c => peers'[d] = p
      /\ \A g \in Fds : /\ clients'[g].peer = clients[g].peer
                        /\ g # f => clients'[g] = clients[g]
                        /\ g = f => clients'[g] = k
  BY <1>1 DEF c
<1>4. UsedFds' = UsedFds
  <2>1. clients'[f] # NoClient /\ f \in UsedFds
    BY <1>1, <1>3 DEF NoClient, c
  <2> QED
    BY <1>1, <1>3, <2>1 DEF UsedFds, Fds
<1>5. \A d \in EchoClients : Up(d)' <=> Up(d)
  BY <1>3 DEF Up
<1>6. UsedFds \subseteq Fds
  BY DEF UsedFds
<1>7. OneFdEach'
  BY <1>3, <1>4, <1>5, <1>6 DEF EchoInv, OneFdEach
<1>8. Carried'
  <2>1. ASSUME NEW g \in UsedFds'
        PROVE  Parts(peers'[clients'[g].peer], clients'[g])
    <3>1. g \in UsedFds /\ g \in Fds /\ clients[g].peer \in EchoClients
      BY <1>4, <1>6 DEF EchoInv, OneFdEach
    <3>2. CASE g = f
      BY <1>1, <1>3, <3>1, <3>2 DEF c
    <3>3. CASE g # f
      <4>1. clients[g].peer # c
        BY <3>1, <3>3 DEF EchoInv, OneFdEach, c
      <4>2. peers'[clients'[g].peer] = peers[clients[g].peer] /\ clients'[g] = clients[g]
        BY <1>3, <3>1, <3>3, <4>1
      <4> QED
        BY <3>1, <4>2 DEF EchoInv, Carried
    <3> QED
      BY <3>2, <3>3
  <2>2. ASSUME NEW d \in EchoClients, ~Up(d)' \/ peers'[d].state \in {"none", "connecting"}
        PROVE  peers'[d] = peers[d] /\ ~Up(d)
    BY <1>1, <1>3, <1>5, <2>2 DEF Up
  <2> QED
    BY <2>1, <2>2 DEF EchoInv, Carried
<1> QED
  BY <1>2, <1>7, <1>8 DEF EchoInv

\* A step that changes a client that has no descriptor, or only how it stands.
LEMMA PeerStep ==
  ASSUME EchoInv, NEW c \in EchoClients, NEW p \in Peers,
         p.state \in {"open", "eof", "reset"} <=> Up(c),
         peers' = [peers EXCEPT ![c] = p], clients' = clients,
         Up(c) => \A f \in UsedFds : clients[f].peer = c => Parts(p, clients[f]),
         ~Up(c) => IsStart(p.got, p.sent),
         p.state \in {"none", "connecting"} => p.got = <<>> /\ p.wire = p.sent
  PROVE  EchoInv'
<1>1. /\ peers \in [EchoClients -> Peers] /\ clients \in [Fds -> ClientStructs] /\ UsedFds' = UsedFds
  BY DEF EchoInv, EchoTyped, UsedFds
<1>2. EchoTyped'
  BY <1>1 DEF EchoTyped, Fds
<1>3. \A d \in EchoClients : peers'[d] = IF d = c THEN p ELSE peers[d]
  BY <1>1
<1>4. \A d \in EchoClients : Up(d)' <=> Up(d)
  BY <1>3 DEF Up
<1>5. OneFdEach'
  BY <1>1, <1>4 DEF EchoInv, OneFdEach
<1>6. Carried'
  <2>1. \A g \in UsedFds' : Parts(peers'[clients'[g].peer], clients'[g])
    BY <1>1, <1>3 DEF EchoInv, OneFdEach, Carried
  <2>2. \A d \in EchoClients :
          /\ ~Up(d)' => IsStart(peers'[d].got, peers'[d].sent)
          /\ peers'[d].state \in {"none", "connecting"} => peers'[d].got = <<>> /\ peers'[d].wire = peers'[d].sent
    BY <1>3, <1>4 DEF EchoInv, Carried
  <2> QED
    BY <2>1, <2>2 DEF Carried
<1> QED
  BY <1>2, <1>5, <1>6 DEF EchoInv

\* Every step keeps the invariant.
LEMMA EchoStep == EchoInv /\ [EchoNext]_echoVars => EchoInv'
<1> SUFFICES ASSUME EchoInv, [EchoNext]_echoVars
             PROVE  EchoInv'
  OBVIOUS
<1> USE EchoAssumption
<1> DEFINE T == Seq(EchoBytes)
<1>0. /\ peers \in [EchoClients -> Peers] /\ clients \in [Fds -> ClientStructs]
      /\ OneFdEach /\ Carried /\ ConcatIn(T)
      /\ \A c \in EchoClients : peers[c].sent \in T /\ peers[c].wire \in T /\ peers[c].got \in T
      /\ \A f \in Fds : clients[f].input \in T /\ clients[f].output \in T
  BY ConcatHere DEF EchoInv, EchoTyped, Peers, ClientStructs
<1>u. ASSUME NEW f \in UsedFds
      PROVE  /\ f \in Fds /\ clients[f].peer \in EchoClients /\ Up(clients[f].peer)
             /\ Parts(peers[clients[f].peer], clients[f])
  BY <1>0 DEF OneFdEach, Carried, UsedFds
<1>1. ASSUME NEW f \in Fds, ReadEvent(f)
      PROVE  EchoInv'
  <2> DEFINE c == clients[f].peer
             w == peers[c].wire
  <2>1. f \in UsedFds /\ clients[f].input = <<>> /\ c \in EchoClients
    BY <1>1, <1>u DEF ReadEvent
  <2>2. PICK n \in 1..Len(w) :
          /\ clients' = [clients EXCEPT ![f].input = @ \o SubSeq(w, 1, n)]
          /\ peers' = [peers EXCEPT ![c].wire = SubSeq(@, n + 1, Len(@))]
    BY <1>1 DEF ReadEvent
  <2> DEFINE x == SubSeq(w, 1, n)
             y == SubSeq(w, n + 1, Len(w))
             p == [peers[c] EXCEPT !.wire = y]
             k == [clients[f] EXCEPT !.input = <<>> \o x]
  <2>3. x \in T /\ y \in T /\ x \o y = w
    <3>1. w \in T
      BY <1>0, <2>1
    <3> HIDE DEF w, c
    <3> QED
      BY <2>2, <3>1, Cut
  <2>4. clients' = [clients EXCEPT ![f] = k] /\ peers' = [peers EXCEPT ![c] = p]
    BY <1>0, <2>1, <2>2
  <2> HIDE DEF x, y
  <2>5. <<>> \o x \in T
    BY <1>0, <2>3, Zenon DEF ConcatIn
  <2>6. /\ p \in Peers /\ p.state = peers[c].state /\ p.wire = y /\ p.got = peers[c].got /\ p.sent = peers[c].sent
        /\ k \in ClientStructs /\ k.peer = c /\ k.input = <<>> \o x /\ k.output = clients[f].output
    BY <1>0, <2>1, <2>3, <2>5 DEF Peers, ClientStructs
  <2>7. Parts(p, k)
    <3>1. Parts(peers[c], clients[f]) /\ peers[c].got \in T /\ clients[f].output \in T /\ w \in T
      BY <1>0, <1>u, <2>1
    <3>2. Whole(peers[c].got, clients[f].output, <<>>, w) = peers[c].sent
      BY <2>1, <3>1 DEF Parts
    <3>3. Whole(peers[c].got, clients[f].output, <<>> \o x, y) = Whole(peers[c].got, clients[f].output, <<>>, w)
      <4>1. <<>> \in T
        OBVIOUS
      <4>2. x \in T /\ y \in T
        BY <2>3
      <4> HIDE DEF T, w, c
      <4>3. Whole(peers[c].got, clients[f].output, <<>> \o x, y) = Whole(peers[c].got, clients[f].output, <<>>, x \o y)
        BY <1>0, <3>1, <4>1, <4>2, ReadMove
      <4> QED
        BY <2>3, <4>3, Zenon
    <3> HIDE DEF p, k, c
    <3> QED
      BY <2>6, <3>2, <3>3 DEF Parts
  <2> HIDE DEF p, k
  <2> QED
    BY <2>1, <2>4, <2>6, <2>7, ByteStep
<1>2. ASSUME NEW f \in Fds, ReadCallback(f)
      PROVE  EchoInv'
  <2> DEFINE c == clients[f].peer
             k == [clients[f] EXCEPT !.output = clients[f].output \o clients[f].input, !.input = <<>>]
  <2>1. f \in UsedFds /\ c \in EchoClients
    BY <1>2, <1>u DEF ReadCallback
  <2>2. clients' = [clients EXCEPT ![f] = k] /\ peers' = [peers EXCEPT ![c] = peers[c]]
    <3>1. clients' = [clients EXCEPT ![f] = k] /\ peers' = peers
      BY <1>2 DEF ReadCallback, buffered_on_read
    <3> QED
      BY <1>0, <3>1
  <2>3. clients[f].output \o clients[f].input \in T /\ <<>> \in T
    <3>1. clients[f].output \in T /\ clients[f].input \in T
      BY <1>0
    <3> QED
      BY <1>0, <3>1 DEF ConcatIn
  <2>4. /\ k \in ClientStructs /\ k.peer = c /\ k.input = <<>>
        /\ k.output = clients[f].output \o clients[f].input
    <3> DEFINE o == clients[f].output \o clients[f].input
               k0 == [clients[f] EXCEPT !.output = o, !.input = <<>>]
    <3>1. o \in T /\ k0 = k
      BY <2>3
    <3> HIDE DEF o
    <3>2. k0 \in ClientStructs /\ k0.peer = c /\ k0.input = <<>> /\ k0.output = o
      <4>1. clients[f] \in ClientStructs /\ <<>> \in Seq(EchoBytes) /\ o \in Seq(EchoBytes)
        BY <1>0, <2>1, <1>u, <2>3, <3>1
      <4> QED
        BY <4>1 DEF ClientStructs
    <3> QED
      BY <3>1, <3>2 DEF o
  <2>5. Parts(peers[c], k)
    <3>1. /\ Parts(peers[c], clients[f]) /\ peers[c].got \in T /\ clients[f].output \in T
          /\ clients[f].input \in T /\ peers[c].wire \in T
      BY <1>0, <1>u, <2>1
    <3>2. Whole(peers[c].got, clients[f].output \o clients[f].input, <<>>, peers[c].wire)
            = Whole(peers[c].got, clients[f].output, clients[f].input, peers[c].wire)
      <4> HIDE DEF T, c
      <4> QED
        BY <1>0, <3>1, EchoMove
    <3> HIDE DEF k, c
    <3> QED
      BY <2>4, <3>1, <3>2 DEF Parts
  <2>6. peers[c] \in Peers
    BY <1>0, <2>1
  <2> HIDE DEF k
  <2> QED
    BY <2>1, <2>2, <2>4, <2>5, <2>6, ByteStep
<1>3. ASSUME NEW f \in Fds, WriteEvent(f)
      PROVE  EchoInv'
  <2> DEFINE c == clients[f].peer
             o == clients[f].output
             g == peers[c].got
  <2>1. f \in UsedFds /\ c \in EchoClients
    BY <1>3, <1>u DEF WriteEvent
  <2>2. PICK n \in 1..Len(o) :
          /\ peers' = [peers EXCEPT ![c].got = @ \o SubSeq(o, 1, n)]
          /\ clients' = [clients EXCEPT ![f].output = SubSeq(@, n + 1, Len(@))]
    BY <1>3 DEF WriteEvent
  <2> DEFINE x == SubSeq(o, 1, n)
             y == SubSeq(o, n + 1, Len(o))
             p == [peers[c] EXCEPT !.got = g \o x]
             k == [clients[f] EXCEPT !.output = y]
  <2>3. x \in T /\ y \in T /\ x \o y = o
    <3>1. o \in T
      BY <1>0, <2>1
    <3> HIDE DEF o, c
    <3> QED
      BY <2>2, <3>1, Cut
  <2>4. clients' = [clients EXCEPT ![f] = k] /\ peers' = [peers EXCEPT ![c] = p]
    BY <1>0, <2>1, <2>2
  <2> HIDE DEF x, y
  <2>5. g \o x \in T
    <3>1. g \in T
      BY <1>0, <2>1
    <3> HIDE DEF g, c
    <3> QED
      BY <1>0, <2>3, <3>1, Zenon DEF ConcatIn
  <2>6. /\ p \in Peers /\ p.state = peers[c].state /\ p.got = g \o x /\ p.wire = peers[c].wire /\ p.sent = peers[c].sent
        /\ k \in ClientStructs /\ k.peer = c /\ k.input = clients[f].input /\ k.output = y
    BY <1>0, <2>1, <2>3, <2>5 DEF Peers, ClientStructs
  <2>7. Parts(p, k)
    <3>1. /\ Parts(peers[c], clients[f]) /\ g \in T /\ o \in T
          /\ clients[f].input \in T /\ peers[c].wire \in T
      BY <1>0, <1>u, <2>1
    <3>2. Whole(g \o x, y, clients[f].input, peers[c].wire) = Whole(g, o, clients[f].input, peers[c].wire)
      <4>1. x \in T /\ y \in T
        BY <2>3
      <4> HIDE DEF T, g, o, c
      <4>2. Whole(g \o x, y, clients[f].input, peers[c].wire) = Whole(g, x \o y, clients[f].input, peers[c].wire)
        BY <1>0, <3>1, <4>1, WriteMove
      <4> QED
        BY <2>3, <4>2, Zenon
    <3> HIDE DEF p, k, c
    <3> QED
      BY <2>6, <3>1, <3>2 DEF Parts
  <2> HIDE DEF p, k
  <2> QED
    BY <2>1, <2>4, <2>6, <2>7, ByteStep
<1>4. ASSUME NEW c \in EchoClients, Connects(c) \/ HangsUp(c)
      PROVE  EchoInv'
  <2>1. PICK s \in {"connecting", "eof", "reset"} :
          /\ peers' = [peers EXCEPT ![c].state = s] /\ clients' = clients
          /\ peers[c].state = IF s = "connecting" THEN "none" ELSE "open"
    BY <1>4 DEF Connects, HangsUp
  <2> DEFINE p == [peers[c] EXCEPT !.state = s]
  <2>2. /\ p \in Peers /\ p.state = s /\ p.got = peers[c].got /\ p.wire = peers[c].wire
        /\ p.sent = peers[c].sent
    BY <1>0 DEF Peers
  <2>3. peers' = [peers EXCEPT ![c] = p]
    BY <1>0, <2>1
  <2> HIDE DEF p
  <2>4. s \in {"open", "eof", "reset"} <=> Up(c)
    BY <2>1 DEF Up
  <2>5. \A f \in UsedFds : clients[f].peer = c => Parts(p, clients[f])
    BY <1>u, <2>2 DEF Parts
  <2>6. ~Up(c) => IsStart(p.got, p.sent)
    BY <1>0, <2>2 DEF Carried
  <2>7. p.state = "connecting" => p.got = <<>> /\ p.wire = p.sent
    BY <1>0, <2>1, <2>2 DEF Carried
  <2> QED
    BY <2>1, <2>2, <2>3, <2>4, <2>5, <2>6, <2>7, PeerStep
<1>5. ASSUME NEW c \in EchoClients, Sends(c)
      PROVE  EchoInv'
  <2> DEFINE b == <<c, Len(peers[c].sent) + 1>>
             q == Append(peers[c].sent, b)
             v == Append(peers[c].wire, b)
             p == [peers[c] EXCEPT !.sent = q, !.wire = v]
  <2>1. b \in EchoBytes
    BY <1>0 DEF EchoBytes
  <2>2. peers[c].state \in {"connecting", "open"} /\ clients' = clients
    BY <1>5 DEF Sends
  <2>3. peers' = [peers EXCEPT ![c] = p]
    BY <1>0, <1>5 DEF Sends
  <2> HIDE DEF b
  <2>4. q \in T /\ v \in T
    BY <1>0, <2>1
  <2>5. /\ p \in Peers /\ p.state = peers[c].state /\ p.got = peers[c].got /\ p.wire = v /\ p.sent = q
    <3> HIDE DEF q, v
    <3> QED
      BY <1>0, <2>4 DEF Peers
  <2> HIDE DEF p
  <2>6. \A f \in UsedFds : clients[f].peer = c => Parts(p, clients[f])
    <3> SUFFICES ASSUME NEW f \in UsedFds, clients[f].peer = c
                 PROVE  Parts(p, clients[f])
      OBVIOUS
    <3>1. Parts(peers[c], clients[f]) /\ f \in Fds
      BY <1>u
    <3>2. peers[c].got \in T /\ clients[f].output \in T /\ clients[f].input \in T /\ peers[c].wire \in T
      BY <1>0, <3>1
    <3>3. Whole(peers[c].got, clients[f].output, clients[f].input, v)
            = Append(Whole(peers[c].got, clients[f].output, clients[f].input, peers[c].wire), b)
      <4> HIDE DEF b
      <4> QED
        <5>1. WholeGrows(EchoBytes, peers[c].got, clients[f].output, clients[f].input, peers[c].wire)
          BY <3>2, StartOfWhole
        <5> QED
          BY <2>1, <5>1 DEF WholeGrows, v
    <3> HIDE DEF v
    <3> QED
      BY <2>5, <3>1, <3>3 DEF Parts
  <2>7. ~Up(c) => p.got = <<>> /\ p.wire = p.sent /\ IsStart(p.got, p.sent)
    <3>1. ~Up(c) => peers[c].got = <<>> /\ peers[c].wire = peers[c].sent
      BY <1>0, <2>2 DEF Carried, Up
    <3>2. IsStart(<<>>, q)
      BY <1>0, <2>1, StartStays
    <3> QED
      BY <2>5, <3>1, <3>2
  <2>8. p.state \in {"none", "connecting"} => ~Up(c)
    BY <2>5 DEF Up
  <2>9. p.state \in {"open", "eof", "reset"} <=> Up(c)
    BY <2>5 DEF Up
  <2> QED
    BY <2>2, <2>3, <2>5, <2>6, <2>7, <2>8, <2>9, PeerStep
<1>6. ASSUME NEW c \in EchoClients, on_accept(c)
      PROVE  EchoInv'
  <2>1. peers[c].state = "connecting" /\ ~Up(c) /\ peers[c].got = <<>> /\ peers[c].wire = peers[c].sent
        /\ IsStart(peers[c].got, peers[c].sent)
    BY <1>0, <1>6 DEF on_accept, Up, Carried
  <2>2. CASE UsedFds = Fds
    <3> DEFINE p == [peers[c] EXCEPT !.state = "closed"]
    <3>1. /\ p \in Peers /\ p.state = "closed" /\ p.got = peers[c].got /\ p.wire = peers[c].wire
          /\ p.sent = peers[c].sent
      BY <1>0 DEF Peers
    <3>2. peers' = [peers EXCEPT ![c] = p] /\ clients' = clients
      BY <1>0, <1>6, <2>2 DEF on_accept
    <3> HIDE DEF p
    <3> QED
      BY <2>1, <3>1, <3>2, PeerStep
  <2>3. CASE UsedFds # Fds
    <3> DEFINE unused == Fds \ UsedFds
    <3>1. \E m \in unused : \A g \in unused : m <= g
      <4>1. unused \subseteq Nat /\ unused # {}
        BY <2>3 DEF UsedFds, Fds
      <4> HIDE DEF unused
      <4> QED
        BY <4>1, LeastNumber
    <3>2. PICK fd \in unused : /\ clients' = [clients EXCEPT ![fd] = [NoClient EXCEPT !.peer = c]]
                               /\ peers' = [peers EXCEPT ![c].state = "open"]
      BY <1>6, <2>3, <3>1 DEF on_accept
    <3> DEFINE p == [peers[c] EXCEPT !.state = "open"]
               k == [peer |-> c, input |-> <<>>, output |-> <<>>]
    <3>3. fd \in Fds /\ fd \notin UsedFds /\ k # NoClient
      BY DEF NoClient
    <3>4. /\ p \in Peers /\ p.state = "open" /\ p.got = peers[c].got /\ p.wire = peers[c].wire
          /\ p.sent = peers[c].sent /\ k \in ClientStructs
      <4>1. k \in ClientStructs
        BY DEF ClientStructs
      <4>2. /\ p \in Peers /\ p.state = "open" /\ p.got = peers[c].got /\ p.wire = peers[c].wire
            /\ p.sent = peers[c].sent
        BY <1>0 DEF Peers
      <4> QED
        BY <4>1, <4>2
    <3>5. peers' = [peers EXCEPT ![c] = p] /\ clients' = [clients EXCEPT ![fd] = k]
      <4>1. [NoClient EXCEPT !.peer = c] = k
        BY DEF NoClient
      <4> QED
        BY <1>0, <3>2, <4>1
    <3>6. Parts(p, k)
      <4>1. <<>> \in T /\ <<>> \o <<>> = <<>>
        OBVIOUS
      <4>2. <<>> \o p.wire = p.wire
        BY <1>0, <3>4 DEF ConcatIn
      <4>3. p.got = <<>> /\ p.wire = p.sent /\ k.input = <<>> /\ k.output = <<>>
        BY <2>1, <3>4
      <4> HIDE DEF p, k
      <4> QED
        BY <4>1, <4>2, <4>3 DEF Parts, Whole
    <3>7. k.peer = c
      OBVIOUS
    <3> HIDE DEF p, k, unused
    <3>8. /\ EchoTyped'
          /\ \A d \in EchoClients : peers'[d] = IF d = c THEN p ELSE peers[d]
          /\ \A g \in Fds : clients'[g] = IF g = fd THEN k ELSE clients[g]
      BY <1>0, <3>3, <3>4, <3>5 DEF EchoTyped, Fds
    <3>9. UsedFds' = UsedFds \cup {fd} /\ UsedFds \subseteq Fds
      BY <3>3, <3>8 DEF UsedFds, Fds
    <3>10. \A d \in EchoClients : Up(d)' <=> Up(d) \/ d = c
      BY <3>4, <3>8 DEF Up
    <3>11. \A f \in UsedFds : clients[f].peer # c /\ f # fd
      BY <1>u, <2>1, <3>3
    <3>12. OneFdEach'
      <4>1. \A f \in UsedFds' : /\ clients'[f].peer \in EchoClients
                                 /\ peers'[clients'[f].peer].state \in {"open", "eof", "reset"}
        <5>1. \A f \in UsedFds' : clients'[f].peer \in EchoClients
                                   /\ (Up(clients'[f].peer) \/ clients'[f].peer = c)
          BY <1>u, <3>3, <3>7, <3>8, <3>9, <3>11
        <5> QED
          BY <3>10, <5>1 DEF Up
      <4>2. ASSUME NEW f \in UsedFds', NEW g \in UsedFds', clients'[f].peer = clients'[g].peer
            PROVE  f = g
        BY <1>0, <3>3, <3>7, <3>8, <3>9, <3>11, <4>2 DEF OneFdEach
      <4>3. \A d \in EchoClients : Up(d)' => \E f \in UsedFds' : clients'[f].peer = d
        BY <1>0, <3>3, <3>7, <3>8, <3>9, <3>10, <3>11 DEF OneFdEach
      <4> QED
        BY <4>1, <4>2, <4>3 DEF OneFdEach, Up
    <3>13. Carried'
      <4>1. ASSUME NEW f \in UsedFds'
            PROVE  Parts(peers'[clients'[f].peer], clients'[f])
        <5>1. CASE f = fd
          BY <3>3, <3>6, <3>7, <3>8, <5>1
        <5>2. CASE f # fd
          BY <1>u, <3>8, <3>9, <3>11, <5>2
        <5> QED
          BY <5>1, <5>2
      <4>2. \A d \in EchoClients : ~Up(d)' \/ peers'[d].state \in {"none", "connecting"} => d # c /\ peers'[d] = peers[d] /\ ~Up(d)
        BY <3>4, <3>8, <3>10 DEF Up
      <4> QED
        BY <1>0, <4>1, <4>2 DEF Carried
    <3> QED
      BY <3>8, <3>12, <3>13 DEF EchoInv
  <2> QED
    BY <2>2, <2>3
<1>7. ASSUME NEW f \in Fds, buffered_on_error(f)
      PROVE  EchoInv'
  <2> DEFINE c == clients[f].peer
             p == [peers[c] EXCEPT !.state = "closed"]
  <2>1. f \in UsedFds /\ c \in EchoClients /\ Parts(peers[c], clients[f])
    BY <1>7, <1>u DEF buffered_on_error
  <2>2. peers' = [peers EXCEPT ![c].state = "closed"] /\ clients' = [clients EXCEPT ![f] = NoClient]
    BY <1>7 DEF buffered_on_error
  <2>3. /\ p \in Peers /\ p.state = "closed" /\ p.got = peers[c].got /\ p.sent = peers[c].sent
    BY <1>0, <2>1 DEF Peers
  <2>4. peers' = [peers EXCEPT ![c] = p] /\ NoClient \in ClientStructs
    BY <1>0, <2>1, <2>2 DEF NoClient, ClientStructs
  <2>5. IsStart(p.got, p.sent)
    <3>1. peers[c].got \in T /\ clients[f].output \in T /\ clients[f].input \in T /\ peers[c].wire \in T
      BY <1>0, <2>1
    <3> HIDE DEF c
    <3>2. IsStart(peers[c].got, Whole(peers[c].got, clients[f].output, clients[f].input, peers[c].wire))
      BY <3>1, StartOfWhole
    <3> HIDE DEF p
    <3> QED
      BY <2>1, <2>3, <3>2 DEF Parts
  <2> HIDE DEF p
  <2>6. /\ EchoTyped'
        /\ \A d \in EchoClients : peers'[d] = IF d = c THEN p ELSE peers[d]
        /\ \A g \in Fds : clients'[g] = IF g = f THEN NoClient ELSE clients[g]
    BY <1>0, <2>1, <2>2, <2>3, <2>4 DEF EchoTyped, Fds
  <2>7. UsedFds' = UsedFds \ {f} /\ UsedFds \subseteq Fds
    BY <2>6 DEF UsedFds, Fds
  <2>8. \A d \in EchoClients : Up(d)' <=> Up(d) /\ d # c
    BY <2>3, <2>6 DEF Up
  <2>9. \A g \in UsedFds' : g \in UsedFds /\ clients'[g] = clients[g] /\ clients[g].peer # c
    BY <1>0, <2>1, <2>6, <2>7 DEF OneFdEach
  <2>10. OneFdEach'
    <3>1. \A d \in EchoClients : Up(d)' => \E g \in UsedFds' : clients'[g].peer = d
      BY <1>0, <2>6, <2>7, <2>8 DEF OneFdEach
    <3> HIDE DEF c
    <3>2. \A g \in UsedFds' : /\ clients'[g].peer \in EchoClients
                               /\ peers'[clients'[g].peer].state \in {"open", "eof", "reset"}
      BY <1>u, <2>8, <2>9 DEF Up
    <3> QED
      BY <1>0, <2>9, <3>1, <3>2 DEF OneFdEach, Up
  <2>11. Carried'
    <3>1. \A g \in UsedFds' : Parts(peers'[clients'[g].peer], clients'[g])
      BY <1>u, <2>6, <2>9
    <3>2. \A d \in EchoClients : ~Up(d)' => IsStart(peers'[d].got, peers'[d].sent)
      BY <1>0, <2>5, <2>6, <2>8 DEF Carried
    <3>3. \A d \in EchoClients : peers'[d].state \in {"none", "connecting"} => peers'[d] = peers[d]
      BY <2>3, <2>6
    <3> QED
      BY <1>0, <3>1, <3>2, <3>3 DEF Carried
  <2> QED
    BY <2>6, <2>10, <2>11 DEF EchoInv
<1>8. CASE UNCHANGED echoVars
  BY <1>8 DEF echoVars, EchoInv, EchoTyped, OneFdEach, Carried, UsedFds, Up
<1> QED
  BY <1>1, <1>2, <1>3, <1>4, <1>5, <1>6, <1>7, <1>8 DEF EchoNext

\* A client gets back its own bytes, once and in order, for any clients,
\* descriptors given out again, and cuts of the streams; a connection that is
\* up has exactly one descriptor.
THEOREM EchoIsExact == EchoSpec => []EchoExact
<1>1. EchoInit => EchoInv
  <2> SUFFICES ASSUME EchoInit
               PROVE  EchoInv
    OBVIOUS
  <2>1. EchoTyped
    BY DEF EchoInit, EchoRest, EchoTyped, Peers, ClientStructs, NoClient
  <2>2. UsedFds = {} /\ \A c \in EchoClients : peers[c].state = "none" /\ peers[c].got = <<>>
                                               /\ peers[c].sent = <<>> /\ peers[c].wire = <<>>
    BY DEF EchoInit, EchoRest, UsedFds
  <2>3. IsStart(<<>>, <<>>)
    <3>1. SubSeq(<<>>, 1, 0) = <<>> /\ 0 \in 0..Len(<<>>)
      BY SubSeqEmpty
    <3> QED
      BY <3>1 DEF IsStart
  <2> QED
    BY <2>1, <2>2, <2>3 DEF EchoInv, OneFdEach, Carried, Up
<1>2. EchoInv => EchoExact
  <2> SUFFICES ASSUME EchoInv, NEW c \in EchoClients
               PROVE  LET mine == {f \in UsedFds : clients[f].peer = c}
                      IN  /\ Cardinality(mine) = IF peers[c].state \in {"open", "eof", "reset"} THEN 1 ELSE 0
                          /\ \A f \in mine : peers[c].got \o clients[f].output \o clients[f].input \o peers[c].wire = peers[c].sent
                          /\ \E n \in 0..Len(peers[c].sent) : peers[c].got = SubSeq(peers[c].sent, 1, n)
    BY DEF EchoExact
  <2> DEFINE mine == {f \in UsedFds : clients[f].peer = c}
  <2>1. CASE Up(c)
    <3>1. PICK f \in UsedFds : clients[f].peer = c
      BY <2>1 DEF EchoInv, OneFdEach
    <3>2. mine = {f}
      BY <3>1 DEF EchoInv, OneFdEach
    <3>3. Parts(peers[c], clients[f])
      BY <3>1 DEF EchoInv, Carried
    <3>4. IsStart(peers[c].got, peers[c].sent)
      <4>1. /\ peers[c].got \in Seq(EchoBytes) /\ clients[f].output \in Seq(EchoBytes)
            /\ clients[f].input \in Seq(EchoBytes) /\ peers[c].wire \in Seq(EchoBytes)
        BY <3>1 DEF EchoInv, EchoTyped, Peers, ClientStructs, UsedFds
      <4> QED
        BY <3>3, <4>1, StartOfWhole DEF Parts
    <3> HIDE DEF mine
    <3> QED
      BY <2>1, <3>2, <3>3, <3>4, FS_Singleton DEF Up, Parts, Whole, IsStart, mine
  <2>2. CASE ~Up(c)
    <3>1. mine = {} /\ IsStart(peers[c].got, peers[c].sent)
      BY <2>2 DEF EchoInv, OneFdEach, Carried
    <3> QED
      BY <2>2, <3>1, FS_EmptySet DEF Up, IsStart
  <2> QED
    BY <2>1, <2>2
<1> QED
  BY <1>1, <1>2, EchoStep, PTL DEF EchoSpec

-----------------------------------------------------------------------------
(* The multicast filter program.                                           *)

Filters == [member : BOOLEAN, mode : {"include", "exclude"}, src : SUBSET Sources]
\* A filter the kernel can hold.
IsFilter(g) == g \in Filters /\ (~g.member => g = None)

\* What a command says of the group it was about.
SourceAsked(c, srcs, said, was, g) ==
  /\ said # "EINVAL"
  /\ \A s \in srcs : Allowed(g, s) = (c = "t")
  /\ \A s \in Sources \ srcs : Allowed(g, s) = Allowed(was, s)
  /\ said # "ENOERR" => g = was

-----------------------------------------------------------------------------
\* t and b, whatever mode the filter is in.
LEMMA SourceOptFollows ==
  ASSUME NEW g, IsFilter(g), NEW c \in {"t", "b"}, NEW s \in Sources
  PROVE  LET r == KernelSource(SourceOpt(c, IF g.member THEN g.mode ELSE "include"), g, s)
         IN  g.member \/ c = "t" =>
               IsFilter(r.g) /\ SourceAsked(c, {s}, error_2_name(r.err), g, r.g)
<1> DEFINE m == IF g.member THEN g.mode ELSE "include"
           o == SourceOpt(c, m)
           r == KernelSource(o, g, s)
<1>0. /\ g.member \in BOOLEAN /\ g.mode \in {"include", "exclude"} /\ g.src \in SUBSET Sources
      /\ ~g.member => g = None /\ g.src = {} /\ g.mode = "include"
  BY DEF IsFilter, Filters, None
<1>1. CASE g.member /\ g.mode = "exclude" /\ c = "t"
  <2>1. r = IF s \notin g.src THEN Result("EADDRNOTAVAIL", g) ELSE Result("ok", [g EXCEPT !.src = @ \ {s}])
    BY <1>1 DEF SourceOpt, KernelSource
  <2>2. IsFilter([g EXCEPT !.src = @ \ {s}])
    BY <1>0, <1>1 DEF IsFilter, Filters
  <2>3. CASE s \notin g.src
    BY <1>0, <1>1, <2>1, <2>3 DEF SourceAsked, Result, error_2_name, Allowed
  <2>4. CASE s \in g.src
    BY <1>0, <1>1, <2>1, <2>2, <2>4 DEF SourceAsked, Result, error_2_name, Allowed, IsFilter, Filters
  <2> QED
    BY <2>3, <2>4
<1>2. CASE g.member /\ g.mode = "exclude" /\ c = "b"
  <2>1. r = IF s \in g.src THEN Result("EADDRNOTAVAIL", g) ELSE Result("ok", [g EXCEPT !.src = @ \cup {s}])
    BY <1>2 DEF SourceOpt, KernelSource
  <2>2. IsFilter([g EXCEPT !.src = @ \cup {s}])
    BY <1>0, <1>2 DEF IsFilter, Filters
  <2>3. CASE s \in g.src
    BY <1>0, <1>2, <2>1, <2>3 DEF SourceAsked, Result, error_2_name, Allowed
  <2>4. CASE s \notin g.src
    BY <1>0, <1>2, <2>1, <2>2, <2>4 DEF SourceAsked, Result, error_2_name, Allowed, IsFilter, Filters
  <2> QED
    BY <2>3, <2>4
<1>3. CASE g.mode = "include" /\ c = "t"
  <2> DEFINE h == [member |-> TRUE, mode |-> "include", src |-> g.src \cup {s}]
  <2>1. r = IF s \in g.src THEN Result("EADDRNOTAVAIL", g) ELSE Result("ok", h)
    BY <1>0, <1>3 DEF SourceOpt, KernelSource
  <2>2. IsFilter(h) /\ h.member = TRUE /\ h.mode = "include" /\ h.src = g.src \cup {s}
    BY <1>0 DEF IsFilter, Filters
  <2> HIDE DEF h
  <2>3. CASE s \in g.src
    BY <1>0, <1>3, <2>1, <2>3 DEF SourceAsked, Result, error_2_name, Allowed
  <2>4. CASE s \notin g.src
    BY <1>0, <1>3, <2>1, <2>2, <2>4 DEF SourceAsked, Result, error_2_name, Allowed
  <2> QED
    BY <2>3, <2>4
<1>4. CASE g.member /\ g.mode = "include" /\ c = "b"
  <2> DEFINE h == IF g.src = {s} THEN None ELSE [g EXCEPT !.src = @ \ {s}]
  <2>1. r = IF s \notin g.src THEN Result("EADDRNOTAVAIL", g) ELSE Result("ok", h)
    BY <1>0, <1>4 DEF SourceOpt, KernelSource
  <2>2. IsFilter(h) /\ h.mode = "include" /\ h.src = g.src \ {s} /\ (h.member \/ h.src = {})
    <3>1. CASE g.src = {s}
      BY <3>1 DEF IsFilter, Filters, None
    <3>2. CASE g.src # {s}
      BY <1>0, <1>4, <3>2 DEF IsFilter, Filters
    <3> QED
      BY <3>1, <3>2
  <2> HIDE DEF h
  <2>3. CASE s \notin g.src
    BY <1>0, <1>4, <2>1, <2>3 DEF SourceAsked, Result, error_2_name, Allowed
  <2>4. CASE s \in g.src
    BY <1>0, <1>4, <2>1, <2>2, <2>4 DEF SourceAsked, Result, error_2_name, Allowed
  <2> QED
    BY <2>3, <2>4
<1> QED
  BY <1>0, <1>1, <1>2, <1>3, <1>4

-----------------------------------------------------------------------------
(* Listings.                                                               *)

AscendingList(q) == \A i, j \in DOMAIN q : i < j => q[i] < q[j]

\* A finite set of numbers can be put in order.
LEMMA CanBeSorted ==
  ASSUME NEW S, IsFiniteSet(S), S \subseteq Nat
  PROVE  \E q \in [1..Cardinality(S) -> S] : AscendingList(q)
<1> DEFINE Sorts(T) == \E q \in [1..Cardinality(T) -> T] : AscendingList(q)
           Good == {n \in Nat : \A T \in SUBSET Nat : IsFiniteSet(T) /\ Cardinality(T) = n => Sorts(T)}
<1>1. 0 \in Good
  <2> SUFFICES ASSUME NEW T \in SUBSET Nat, IsFiniteSet(T), Cardinality(T) = 0
               PROVE  Sorts(T)
    OBVIOUS
  <2>1. T = {}
    BY FS_EmptySet
  <2> DEFINE q == [i \in 1..0 |-> 0]
  <2>2. q \in [1..Cardinality(T) -> T] /\ AscendingList(q)
    BY DEF AscendingList
  <2> QED
    BY <2>2
<1>2. ASSUME NEW n \in Nat, n \in Good
      PROVE  n + 1 \in Good
  <2> SUFFICES ASSUME NEW T \in SUBSET Nat, IsFiniteSet(T), Cardinality(T) = n + 1
               PROVE  Sorts(T)
    OBVIOUS
  <2>1. T # {}
    BY FS_EmptySet
  <2>2. PICK m \in T : \A k \in T : m <= k
    BY <2>1, LeastNumber
  <2> DEFINE R == T \ {m}
  <2>3. IsFiniteSet(R) /\ Cardinality(R) = n
    <3>1. m \in T /\ IsFiniteSet(T) /\ Cardinality(T) = n + 1
      BY <2>2
    <3> HIDE DEF R, Good, Sorts
    <3>2. IsFiniteSet(T \ {m}) /\ Cardinality(T \ {m}) = IF m \in T THEN Cardinality(T) - 1 ELSE Cardinality(T)
      BY <3>1, FS_RemoveElement, Zenon
    <3>3. Cardinality(T \ {m}) = n
      BY <3>1, <3>2
    <3> QED
      BY <3>2, <3>3 DEF R
  <2>4. Sorts(R)
    BY <1>2, <2>3
  <2>5. PICK q \in [1..n -> R] : AscendingList(q)
    BY <2>3, <2>4
  <2> DEFINE p == [i \in 1..n + 1 |-> IF i = 1 THEN m ELSE q[i - 1]]
  <2>6. \A i \in 1..n + 1 : i # 1 => i - 1 \in 1..n /\ q[i - 1] \in R
    OBVIOUS
  <2>7. p \in [1..n + 1 -> T]
    BY <2>6
  <2>8. ASSUME NEW i \in 1..n + 1, NEW j \in 1..n + 1, i < j
        PROVE  p[i] < p[j]
    <3>0. j # 1
      BY <2>8
    <3>1. j - 1 \in 1..n /\ p[j] = q[j - 1] /\ p[j] \in R /\ p[j] \in Nat
      BY <2>6, <3>0
    <3>2. CASE i = 1
      BY <2>2, <3>1, <3>2
    <3>3. CASE i # 1
      <4>1. i - 1 \in 1..n /\ i - 1 < j - 1 /\ p[i] = q[i - 1]
        BY <2>6, <2>8, <3>3
      <4>2. DOMAIN q = 1..n
        OBVIOUS
      <4> QED
        BY <2>5, <3>1, <4>1, <4>2 DEF AscendingList
    <3> QED
      BY <3>2, <3>3
  <2>9. AscendingList(p) /\ Cardinality(T) = n + 1
    BY <2>8 DEF AscendingList
  <2> HIDE DEF p
  <2> QED
    BY <2>7, <2>9
<1>3. Nat \subseteq Good
  <2> HIDE DEF Good
  <2> QED
    BY <1>1, <1>2, NatSetInduction
<1>4. Cardinality(S) \in Good
  BY <1>3, FS_CardinalityType
<1> QED
  BY <1>4

\* Less than half the range apart, the difference has the right sign.
LEMMA CompareNear ==
  ASSUME NEW a \in Int, NEW b \in Int,
         a - b < 2 ^ (McAddrBits - 1), b - a < 2 ^ (McAddrBits - 1)
  PROVE  comp_sas(a, b) < 0 <=> a < b
<1> DEFINE H == 2 ^ (McAddrBits - 1)
<1>1. H \in Nat \ {0} /\ 2 ^ McAddrBits = 2 * H
  BY AddrBitsAssumption
<1>2. comp_sas(a, b) = ((a - b + H) % (2 * H)) - H
  BY <1>1 DEF comp_sas
<1> HIDE DEF H
<1>3. CASE a - b + H >= 0
  <2> DEFINE x == a - b + H
  <2>1. x \in 0..2 * H - 1
    BY <1>1, <1>3 DEF H
  <2>2. x % (2 * H) = x
    <3> HIDE DEF x
    <3> QED
      BY <1>1, <2>1
  <2> QED
    BY <1>1, <1>2, <2>2
<1> QED
  BY <1>1, <1>3 DEF H

\* Sources are listed once each, in order if their differences have the right
\* sign.
ListedRight(list, src) ==
  /\ {list[i] : i \in DOMAIN list} = src /\ Len(list) = Cardinality(src)
  /\ (\A s, t \in src : s - t < 2 ^ (McAddrBits - 1)) => \A i \in 2..Len(list) : list[i - 1] < list[i]

\* Every listing of a set of sources is right.
LEMMA ListingsRight ==
  ASSUME NEW src \in SUBSET Sources, NEW n, NEW list \in Listings(src, n), list # <<>>
  PROVE  ListedRight(list, src)
<1> DEFINE k == Cardinality(src)
           orders == {q \in [1..k -> src] : \A i, j \in 1..k : q[i] = q[j] => i = j}
           sorted == {q \in orders : \A i, j \in 1..k : i < j => comp_sas(q[i], q[j]) < 0}
           H == 2 ^ (McAddrBits - 1)
<1>0. /\ IsFiniteSet(src) /\ src \subseteq Nat /\ k \in Nat
      /\ IsFiniteSet(1..k) /\ Cardinality(1..k) = k
  <2>1. IsFiniteSet(src) /\ src \subseteq Nat
    <3>1. IsFiniteSet(Sources) /\ Sources \subseteq Nat
      <4> DEFINE M == 2 ^ McAddrBits
      <4>1. Sources \subseteq 0..M - 1 /\ IsFiniteSet(Sources)
        BY SourcesAssumption
      <4>2. M \in Nat
        BY AddrBitsAssumption
      <4> HIDE DEF M
      <4> QED
        BY <4>1, <4>2
    <3>2. src \subseteq Sources
      OBVIOUS
    <3> HIDE DEF k
    <3> QED
      BY <3>1, <3>2, FS_Subset
  <2>2. k \in Nat
    BY <2>1, FS_CardinalityType
  <2> HIDE DEF k
  <2>3. IsFiniteSet(1..k) /\ Cardinality(1..k) = k
    BY <2>2, FS_Interval
  <2> QED
    BY <2>1, <2>2, <2>3 DEF k
<1>1. list \in IF sorted # {} THEN sorted ELSE orders
  BY DEF Listings
<1>2. list \in orders
  BY <1>1
<1>3. list \in [1..k -> src] /\ \A i, j \in 1..k : list[i] = list[j] => i = j
  BY <1>2
<1>4. DOMAIN list = 1..k /\ Len(list) = k
  <2> HIDE DEF k
  <2>1. list \in Seq(src) /\ DOMAIN list = 1..k
    BY <1>0, <1>3, SeqDef
  <2>2. Len(list) \in Nat /\ DOMAIN list = 1..Len(list)
    BY <2>1, LenProperties
  <2> QED
    BY <1>0, <2>1, <2>2
<1>5. {list[i] : i \in DOMAIN list} = src
  <2>1. list \in Injection(1..k, src)
    BY <1>3 DEF Injection, IsInjective
  <2>2. list \in Surjection(1..k, src)
    <3> HIDE DEF k
    <3> QED
      BY <1>0, <2>1, FS_Injection DEF k
  <2> QED
    BY <1>4, <2>2 DEF Surjection
<1>6. ASSUME \A s, t \in src : s - t < H
      PROVE  \A i \in 2..Len(list) : list[i - 1] < list[i]
  <2>1. \A s, t \in src : s \in Int /\ t \in Int /\ (comp_sas(s, t) < 0 <=> s < t)
    BY <1>0, <1>6, CompareNear
  <2>2. PICK q \in [1..k -> src] : AscendingList(q)
    BY <1>0, CanBeSorted
  <2>3. q \in sorted
    <3>1. ASSUME NEW i \in 1..k, NEW j \in 1..k, q[i] = q[j]
          PROVE  i = j
      <4>1. q[i] \in Nat /\ q[j] \in Nat /\ DOMAIN q = 1..k
        BY <1>0
      <4> QED
        BY <1>0, <2>2, <3>1, <4>1 DEF AscendingList
    <3>2. ASSUME NEW i \in 1..k, NEW j \in 1..k, i < j
          PROVE  comp_sas(q[i], q[j]) < 0
      <4>1. q[i] \in src /\ q[j] \in src /\ q[i] < q[j]
        BY <2>2, <3>2 DEF AscendingList
      <4> QED
        BY <2>1, <4>1
    <3> QED
      BY <3>1, <3>2
  <2>4. \A i, j \in 1..k : i < j => comp_sas(list[i], list[j]) < 0
    BY <1>1, <2>3
  <2>5. ASSUME NEW i \in 2..Len(list)
        PROVE  list[i - 1] < list[i]
    <3>1. i - 1 \in 1..k /\ i \in 1..k /\ i - 1 < i
      BY <1>0, <1>4
    <3>2. list[i - 1] \in src /\ list[i] \in src /\ comp_sas(list[i - 1], list[i]) < 0
      BY <1>3, <2>4, <3>1
    <3> QED
      BY <2>1, <3>2
  <2> QED
    BY <2>5
<1> QED
  BY <1>4, <1>5, <1>6 DEF ListedRight

-----------------------------------------------------------------------------
(* The program.                                                            *)

FiltersTyped == filter \in [Groups -> Filters] /\ \A g \in Groups : IsFilter(filter[g])
PmsftInv == FiltersTyped /\ FilterFollows

\* A command's answer is about the group it changed, and no other group changed.
LEMMA AnswerIs ==
  ASSUME FiltersTyped, NEW cmd, NEW r, NEW g \in Groups, IsFilter(r.g), Answer(cmd, r, g)
  PROVE  /\ FiltersTyped' /\ filter'[g] = r.g
         /\ reply'.cmd = cmd /\ reply'.said = error_2_name(r.err)
         /\ reply'.was = filter[g] /\ reply'.g = g
<1> DEFINE f == r.g
<1>1. f \in Filters /\ IsFilter(f)
  BY DEF IsFilter
<1>2. filter' = [filter EXCEPT ![g] = f]
  BY DEF Answer
<1> HIDE DEF f
<1>3. /\ filter' \in [Groups -> Filters]
      /\ \A h \in Groups : filter'[h] = IF h = g THEN f ELSE filter[h]
  BY <1>1, <1>2 DEF FiltersTyped
<1>4. FiltersTyped'
  BY <1>1, <1>3 DEF FiltersTyped
<1>5. /\ reply'.cmd = cmd /\ reply'.said = error_2_name(r.err)
      /\ reply'.was = filter[g] /\ reply'.g = g
  BY DEF Answer
<1> QED
  BY <1>3, <1>4, <1>5 DEF f

\* Joining and leaving leave a filter the kernel can hold.
LEMMA GroupFiltered ==
  ASSUME NEW g, IsFilter(g), NEW opt \in {"join", "leave"}
  PROVE  IsFilter(KernelGroup(opt, g).g)
BY DEF IsFilter, Filters, KernelGroup, Result, None

\* A filter set as a whole lets through what was asked for.
LEMMA SetFilterFollows ==
  ASSUME NEW g, NEW c \in {"i", "e"}, NEW srcs \in SUBSET Sources
  PROVE  LET r == KernelSetFilter(IF c = "i" THEN "include" ELSE "exclude", srcs, g)
         IN  /\ IsFilter(r.g)
             /\ error_2_name(r.err) = "ENOERR"
             /\ \A s \in Sources : Allowed(r.g, s) = ((s \in srcs) = (c = "i"))
BY DEF IsFilter, Filters, KernelSetFilter, Result, None, error_2_name, Allowed

\* Each command keeps the filters and says the right thing of them.
LEMMA CommandFollows ==
  ASSUME PmsftInv, process_cmd
  PROVE  PmsftInv'
<1> USE DEF PmsftInv
<1>1. ASSUME NEW g \in Groups, NEW c \in {"j", "l"}, JoinOrLeave(c, g)
      PROVE  PmsftInv'
  <2> DEFINE r == KernelGroup(IF c = "j" THEN "join" ELSE "leave", filter[g])
  <2>1. IsFilter(r.g)
    BY GroupFiltered DEF FiltersTyped
  <2>2. Answer([op |-> c], r, g)
    BY <1>1 DEF JoinOrLeave
  <2> HIDE DEF r
  <2>3. FiltersTyped' /\ reply'.cmd = [op |-> c]
    BY <2>1, <2>2, AnswerIs
  <2>4. reply'.cmd.op = c
    BY <2>3
  <2> QED
    BY <2>3, <2>4 DEF FilterFollows
<1>2. ASSUME NEW g \in Groups, NEW c \in {"i", "e"}, NEW srcs \in SUBSET Sources, SetFilter(c, g, srcs)
      PROVE  PmsftInv'
  <2> DEFINE r == KernelSetFilter(IF c = "i" THEN "include" ELSE "exclude", srcs, filter[g])
             cmd == [op |-> c, src |-> srcs]
  <2>1. CASE Answer(cmd, r, g)
    <3>1. /\ IsFilter(r.g) /\ error_2_name(r.err) = "ENOERR"
          /\ \A s \in Sources : Allowed(r.g, s) = ((s \in srcs) = (c = "i"))
      BY SetFilterFollows
    <3>2. cmd.op = c /\ cmd.src = srcs
      OBVIOUS
    <3> HIDE DEF r, cmd
    <3>3. FiltersTyped' /\ filter'[g] = r.g /\ reply'.cmd = cmd /\ reply'.said = "ENOERR" /\ reply'.g = g
      BY <2>1, <3>1, AnswerIs
    <3> QED
      BY <3>1, <3>2, <3>3 DEF FilterFollows
  <2>2. CASE reply' = [cmd |-> cmd, said |-> "-1", was |-> filter[g], g |-> g] /\ UNCHANGED <<filter, flags>>
    <3>1. reply'.cmd.op = c /\ reply'.said = "-1" /\ reply'.was = filter[g] /\ reply'.g = g /\ filter' = filter
      BY <2>2
    <3>2. FiltersTyped'
      BY <3>1 DEF FiltersTyped
    <3> QED
      BY <3>1, <3>2 DEF FilterFollows
  <2> QED
    BY <1>2, <2>1, <2>2 DEF SetFilter
<1>3. ASSUME NEW g \in Groups, NEW c \in {"t", "b"}, NEW s \in Sources, AllowOrBlock(c, g, s)
      PROVE  PmsftInv'
  <2> DEFINE cmd == [op |-> c, src |-> {s}]
             r == IF ~filter[g].member /\ c = "b" THEN Result("EADDRNOTAVAIL", filter[g])
                  ELSE KernelSource(SourceOpt(c, IF filter[g].member THEN filter[g].mode ELSE "include"), filter[g], s)
  <2>1. IsFilter(filter[g])
    BY DEF FiltersTyped
  <2>2. Answer(cmd, r, g)
    BY <1>3 DEF AllowOrBlock
  <2>3. IsFilter(r.g) /\ SourceAsked(c, {s}, error_2_name(r.err), filter[g], r.g)
    <3>1. CASE ~filter[g].member /\ c = "b"
      BY <2>1, <3>1 DEF Result, SourceAsked, error_2_name, Allowed
    <3>2. CASE ~(~filter[g].member /\ c = "b")
      <4>1. filter[g].member \in BOOLEAN
        BY <2>1 DEF IsFilter, Filters
      <4> QED
        BY <2>1, <3>2, <4>1, SourceOptFollows
    <3> QED
      BY <3>1, <3>2
  <2>4. cmd.op = c /\ cmd.src = {s}
    OBVIOUS
  <2> HIDE DEF cmd, r
  <2>5. /\ FiltersTyped' /\ filter'[g] = r.g /\ reply'.cmd = cmd
        /\ reply'.said = error_2_name(r.err) /\ reply'.was = filter[g] /\ reply'.g = g
    BY <2>2, <2>3, AnswerIs
  <2> QED
    BY <2>3, <2>4, <2>5 DEF FilterFollows, SourceAsked
<1>4. ASSUME NEW g \in Groups, NEW n \in 0..(MAX_ADDRS + 1), ShowFilter(g, n)
      PROVE  PmsftInv'
  <2>1. PICK list \in IF filter[g].member THEN Listings(filter[g].src, n) ELSE {<<>>} :
          reply' = [cmd |-> [op |-> "g", n |-> n], was |-> filter[g], g |-> g, list |-> list,
                    said |-> IF filter[g].member THEN filter[g].mode ELSE "EADDRNOTAVAIL"]
    BY <1>4 DEF ShowFilter
  <2>2. reply'.cmd.op = "g" /\ reply'.g = g /\ reply'.list = list /\ filter' = filter
    BY <1>4, <2>1 DEF ShowFilter
  <2>3. FiltersTyped' /\ filter[g].src \in SUBSET Sources
    BY <2>2 DEF FiltersTyped, Filters
  <2>4. ASSUME list # <<>>
        PROVE  ListedRight(list, filter[g].src)
    <3>1. list \in Listings(filter[g].src, n)
      BY <2>1, <2>4
    <3> QED
      BY <2>3, <2>4, <3>1, ListingsRight
  <2> QED
    BY <2>2, <2>3, <2>4 DEF FilterFollows, ListedRight
<1>5. ASSUME NEW c \in {"m", "p"}, NEW on \in BOOLEAN, SetFlag(c, on)
      PROVE  PmsftInv'
  <2>1. reply'.cmd.op = c /\ filter' = filter
    BY <1>5 DEF SetFlag
  <2> QED
    BY <2>1 DEF FilterFollows, FiltersTyped
<1>6. CASE OtherCommand
  BY <1>6 DEF OtherCommand, FilterFollows, FiltersTyped
<1> QED
  BY <1>1, <1>2, <1>3, <1>4, <1>5, <1>6 DEF process_cmd

\* Allowing and blocking, setting a filter and listing it are right whatever
\* commands went before (process_cmd and the calls under it in mcast/pmsft.c).
THEOREM FilterIsFollowed == PmsftSpec => []FilterFollows
<1>0. ASSUME filter = [g \in Groups |-> None]
      PROVE  FiltersTyped
  BY <1>0 DEF FiltersTyped, IsFilter, Filters, None
<1>1. PmsftInit => PmsftInv
  <2> SUFFICES ASSUME PmsftInit PROVE PmsftInv
    OBVIOUS
  <2>1. filter = [g \in Groups |-> None] /\ reply.cmd.op = "none"
    BY DEF PmsftInit, PmsftRest
  <2> QED
    BY <1>0, <2>1 DEF PmsftInv, FilterFollows
<1>2. PmsftInv /\ [PmsftNext]_pmsftVars => PmsftInv'
  <2> SUFFICES ASSUME PmsftInv, [PmsftNext]_pmsftVars PROVE PmsftInv'
    OBVIOUS
  <2>1. CASE Command
    BY <2>1, CommandFollows DEF Command
  <2>2. CASE process_file \/ UNCHANGED pmsftVars
    BY <2>2 DEF process_file, pmsftVars, PmsftInv, FiltersTyped, FilterFollows
  <2>3. CASE Quit
    <3>1. filter' = [g \in Groups |-> None] /\ reply'.cmd.op = "q"
      BY <2>3 DEF Quit
    <3>2. FiltersTyped'
      BY <3>1 DEF FiltersTyped, IsFilter, Filters, None
    <3> QED
      BY <3>1, <3>2 DEF PmsftInv, FilterFollows
  <2> QED
    BY <2>1, <2>2, <2>3 DEF PmsftNext
<1>3. PmsftInv => FilterFollows
  BY DEF PmsftInv
<1> QED
  BY <1>1, <1>2, <1>3, PTL DEF PmsftSpec

-----------------------------------------------------------------------------
(* The counter file system.                                                *)

FsNames == {"root", "counter", "subdir", "subcounter"}
Mounts == [root : BOOLEAN, files : SUBSET FsNames, inodes : SUBSET FsNames, dentries : SUBSET FsNames]
OpenFiles == [pc : {"closed", "ready", "inc", "copy"}, counter : CounterNames, offset : Nat,
              v : Int, text : Seq(Int), alone : BOOLEAN]
FsTyped == fsmount \in Mounts /\ counters \in [CounterNames -> Int] /\ fsfiles \in [Files -> OpenFiles]

MountRight(m) ==
  /\ m.inodes = m.dentries /\ m.inodes = m.files \cup (IF m.root THEN {"root"} ELSE {})
  /\ "subcounter" \in m.files => "subdir" \in m.files

\* What a file that had its counter n to itself has read: the number before n.
Shows(t, o, w) == o <= Len(w) /\ t = SubSeq(w, 1, o)
FileRight(s, n) ==
  /\ Len(s.text) = s.offset
  /\ s.pc = "closed" => s.offset = 0
  /\ s.alone /\ s.pc = "inc" => s.offset = 0 /\ s.v = n
  /\ s.alone /\ s.pc = "copy" => s.v = n - 1
  /\ s.alone /\ s.offset > 0 => Shows(s.text, s.offset, Text(n - 1))

FsInv ==
  /\ FsTyped /\ MountRight(fsmount) /\ (fsmount.root \/ fsmount = NoMount)
  /\ \A f \in Files : fsfiles[f].pc # "closed" => fsmount # NoMount
  /\ \A f \in Files : FileRight(fsfiles[f], counters[fsfiles[f].counter])

-----------------------------------------------------------------------------
(* The text of a number.                                                   *)

Digits(d) == d = [n \in Nat |-> IF n < FsRadix THEN <<n>> ELSE Append(d[n \div FsRadix], n % FsRadix)]

\* A number without its last digit is smaller.
LEMMA FewerDigits ==
  ASSUME NEW n \in Nat, ~(n < FsRadix)
  PROVE  n \div FsRadix \in Nat /\ n \div FsRadix < n /\ n % FsRadix \in Int
<1> DEFINE q == n \div FsRadix
           r == n % FsRadix
<1>1. q \in Nat /\ r \in 0..(FsRadix - 1) /\ n = FsRadix * q + r
  BY FsAssumption
<1> HIDE DEF q, r
<1>2. FsRadix * q >= 2 * q /\ FsRadix * q \in Nat
  BY <1>1, FsAssumption
<1>3. q # 0
  BY <1>1, FsAssumption
<1>4. q \in Nat /\ q < n /\ r \in Int
  BY <1>1, <1>2, <1>3, FsAssumption
<1> QED
  BY <1>4 DEF q, r

\* Every number has its digits.
LEMMA DigitsEnd ==
  /\ \E d : Digits(d)
  /\ \A d : Digits(d) => \A n \in Nat : d[n] \in Seq(Int)
<1>0. \A n \in Nat : <<n>> \in Seq(Int)
  OBVIOUS
<1>00. \A s \in Seq(Int), x \in Int : Append(s, x) \in Seq(Int)
  BY AppendProperties
<1>1. \E d : Digits(d)
  <2> DEFINE Base == {n \in Nat : n < FsRadix}
             down == [n \in Nat |-> n \div FsRadix]
             start == [n \in Nat |-> <<n>>]
             step == [n \in Nat |-> [x \in Seq(Int) |-> Append(x, n % FsRadix)]]
  <2>1. \A n \in Nat : n \notin Base => down[n] \in Nat /\ down[n] < n
    BY FewerDigits
  <2>2. Descends(Base, down)
    <3> HIDE DEF Base, down
    <3> QED
      BY <2>1 DEF Descends
  <2>3. \A n \in Base : start[n] \in Seq(Int)
    BY <1>0
  <2>4. \A n \in Nat, x \in Seq(Int) : step[n][x] \in Seq(Int)
    <3>1. \A n \in Nat : n % FsRadix \in Int
      BY FsAssumption
    <3> QED
      BY <1>00, <3>1
  <2>5. PICK d \in [Nat -> Seq(Int)] : Recurs(d, Nat, Base, start, down, step)
    <3> HIDE DEF Base, down, start, step
    <3> QED
      BY <2>2, <2>3, <2>4, DescendingRecursion
  <2>6. ASSUME NEW n \in Nat
        PROVE  d[n] = IF n < FsRadix THEN <<n>> ELSE Append(d[n \div FsRadix], n % FsRadix)
    <3>1. d[n] = IF n \in Base THEN start[n] ELSE step[n][d[down[n]]]
      BY <2>5 DEF Recurs
    <3>2. CASE n < FsRadix
      BY <3>1, <3>2
    <3>3. CASE ~(n < FsRadix)
      <4>1. d[n \div FsRadix] \in Seq(Int)
        BY <3>3, FewerDigits
      <4>2. d[n] = step[n][d[n \div FsRadix]]
        BY <3>1, <3>3
      <4> QED
        BY <3>3, <4>1, <4>2
    <3> QED
      BY <3>2, <3>3
  <2>7. d = [n \in Nat |-> d[n]]
    BY <2>5
  <2> QED
    BY <2>6, <2>7 DEF Digits
<1>2. ASSUME NEW d, Digits(d)
      PROVE  \A n \in Nat : d[n] \in Seq(Int)
  <2> DEFINE S == {n \in Nat : d[n] \notin Seq(Int)}
  <2> SUFFICES ASSUME S # {} PROVE FALSE
    OBVIOUS
  <2>1. PICK a \in S : \A b \in S : a <= b
    <3>1. S \subseteq Nat
      OBVIOUS
    <3> HIDE DEF S
    <3> QED
      BY <3>1, LeastNumber
  <2>2. d[a] = IF a < FsRadix THEN <<a>> ELSE Append(d[a \div FsRadix], a % FsRadix)
    BY <1>2 DEF Digits
  <2>3. CASE a < FsRadix
    BY <1>0, <2>2, <2>3
  <2>4. CASE ~(a < FsRadix)
    <3>1. a \div FsRadix \in Nat /\ a \div FsRadix < a /\ a % FsRadix \in Int
      BY <2>4, FewerDigits
    <3>2. a \div FsRadix \notin S
      BY <2>1, <3>1
    <3>3. d[a \div FsRadix] \in Seq(Int)
      BY <3>1, <3>2
    <3> QED
      BY <1>00, <2>2, <2>4, <3>1, <3>3
  <2> QED
    BY <2>3, <2>4
<1> QED
  BY <1>1, <1>2

\* Every number has its text.
LEMMA TextIsText ==
  ASSUME NEW v \in Int
  PROVE  Text(v) \in Seq(Int)
<1> DEFINE digits == CHOOSE d : Digits(d)
           signed == IF v < 0 THEN <<Minus>> \o digits[-v] ELSE digits[v]
<1>1. Text(v) = Append(signed, NewLine)
  BY DEF Text, Digits
<1>2. \A n \in Nat : digits[n] \in Seq(Int)
  BY DigitsEnd
<1> HIDE DEF digits
<1>3. Minus \in Int /\ NewLine \in Int
  BY DEF Minus, NewLine
<1>4. signed \in Seq(Int)
  <2>1. CASE v < 0
    <3>1. -v \in Nat
      BY <2>1
    <3>2. digits[-v] \in Seq(Int) /\ <<Minus>> \in Seq(Int)
      BY <1>2, <1>3, <3>1
    <3>3. <<Minus>> \o digits[-v] \in Seq(Int)
      BY <3>2, ConcatProperties
    <3> QED
      BY <2>1, <3>3
  <2>2. CASE ~(v < 0)
    BY <1>2, <2>2
  <2> QED
    BY <2>1, <2>2
<1> HIDE DEF signed
<1> QED
  BY <1>1, <1>3, <1>4, AppendProperties

-----------------------------------------------------------------------------
(* Mounting.                                                               *)

\* One more file leaves the mount right.
LEMMA FileCreated ==
  ASSUME NEW m \in Mounts, MountRight(m), m.root, NEW name \in FsNames, NEW ok,
         name = "subcounter" => "subdir" \in m.files
  PROVE  LET k == lfs_create_file(m, name, ok)
         IN  k \in Mounts /\ MountRight(k) /\ k.root
BY DEF lfs_create_file, Mounts, MountRight

\* However many of its allocations fail, the file system is right.
LEMMA FillKept ==
  ASSUME NEW m \in Mounts, MountRight(m), m.root, NEW ok
  PROVE  LET k == lfs_create_files(m, ok)
         IN  k \in Mounts /\ MountRight(k) /\ k.root
<1> DEFINE top == lfs_create_file(m, "counter", ok)
           dir == lfs_create_file(top, "subdir", ok)
           sub == lfs_create_file(dir, "subcounter", ok)
<1>1. top \in Mounts /\ MountRight(top) /\ top.root
  BY FileCreated DEF FsNames
<1> HIDE DEF top
<1>2. dir \in Mounts /\ MountRight(dir) /\ dir.root
  BY <1>1, FileCreated DEF FsNames
<1> HIDE DEF dir
<1>3. "subdir" \in dir.files => sub \in Mounts /\ MountRight(sub) /\ sub.root
  BY <1>2, FileCreated DEF FsNames
<1> HIDE DEF sub
<1>4. lfs_create_files(m, ok) = IF "subdir" \in dir.files THEN sub ELSE dir
  BY DEF lfs_create_files, lfs_create_dir, top, dir, sub
<1> QED
  BY <1>2, <1>3, <1>4

-----------------------------------------------------------------------------
(* Files.                                                                  *)

\* A piece more of a text.
LEMMA PieceMore ==
  ASSUME NEW t \in Seq(Int), NEW w \in Seq(Int), NEW o \in Nat, NEW n \in Nat, Len(t) = o, o + n <= Len(w)
  PROVE  LET u == t \o SubSeq(w, o + 1, o + n)
         IN  u \in Seq(Int) /\ Len(u) = o + n /\ (t = SubSeq(w, 1, o) => u = SubSeq(w, 1, o + n))
<1> DEFINE p == SubSeq(w, o + 1, o + n)
           u == t \o p
<1>1. Len(w) \in Nat
  BY LenProperties
<1>2. p \in Seq(Int) /\ Len(p) = n
  <2> DEFINE b == o + 1
             e == o + n
  <2>1. b \in Int /\ e \in Int /\ \A i \in b..e : i \in 1..Len(w)
    BY <1>1
  <2>2. p = SubSeq(w, b, e) /\ n = IF b <= e THEN e - b + 1 ELSE 0
    OBVIOUS
  <2> HIDE DEF p, b, e
  <2>3. \A i \in b..e : w[i] \in Int
    BY <2>1, ElementOfSeq
  <2>4. SubSeq(w, b, e) \in Seq(Int) /\ Len(SubSeq(w, b, e)) = IF b <= e THEN e - b + 1 ELSE 0
    BY <2>1, <2>3, SubSeqProperties
  <2> QED
    BY <2>2, <2>4
<1>3. u \in Seq(Int) /\ Len(u) = o + n
  <2> HIDE DEF p
  <2> QED
    BY <1>2, ConcatProperties
<1>4. ASSUME t = SubSeq(w, 1, o)
      PROVE  u = SubSeq(w, 1, o + n)
  <2> DEFINE e == o + n
  <2>1. 1 \in 1..Len(w) + 1 /\ o \in 1 - 1..Len(w) /\ e \in o..Len(w)
    BY <1>1
  <2> HIDE DEF e
  <2>2. SubSeq(w, 1, o) \o SubSeq(w, o + 1, e) = SubSeq(w, 1, e)
    BY <2>1, ConcatAdjacentSubSeq
  <2> QED
    BY <1>4, <2>2 DEF e
<1> QED
  BY <1>3, <1>4

\* A step of one file that leaves the counters alone.
LEMMA OneFile ==
  ASSUME FsInv, NEW f \in Files, NEW s \in OpenFiles, UNCHANGED <<fsmount, counters>>,
         fsfiles' = [fsfiles EXCEPT ![f] = s],
         s.pc # "closed" => fsmount # NoMount, FileRight(s, counters[s.counter])
  PROVE  FsInv'
<1>1. fsfiles \in [Files -> OpenFiles]
  BY DEF FsInv, FsTyped
<1>2. \A g \in Files : fsfiles'[g] = IF g = f THEN s ELSE fsfiles[g]
  BY <1>1
<1>3. fsfiles' \in [Files -> OpenFiles]
  BY <1>1
<1>4. ASSUME NEW g \in Files
      PROVE  /\ fsfiles'[g].pc # "closed" => fsmount # NoMount
             /\ FileRight(fsfiles'[g], counters[fsfiles'[g].counter])
  BY <1>2 DEF FsInv
<1>5. counters' = counters /\ fsmount' = fsmount
  OBVIOUS
<1>6. FsTyped'
  BY <1>3, <1>5 DEF FsInv, FsTyped
<1>7. \A g \in Files : FileRight(fsfiles'[g], counters'[fsfiles'[g].counter])
  BY <1>4, <1>5
<1> QED
  BY <1>4, <1>5, <1>6, <1>7 DEF FsInv

\* A step of one file that changes its counter.
LEMMA OneCounter ==
  ASSUME FsInv, NEW f \in Files, NEW s \in OpenFiles, NEW n \in Int, fsfiles[f].pc # "closed",
         s.counter = fsfiles[f].counter, UNCHANGED fsmount,
         counters' = [counters EXCEPT ![s.counter] = n],
         fsfiles' = [Disturbed(f) EXCEPT ![f] = s], FileRight(s, n)
  PROVE  FsInv'
<1>1. fsfiles \in [Files -> OpenFiles] /\ counters \in [CounterNames -> Int] /\ s.counter \in CounterNames
  BY DEF FsInv, FsTyped, OpenFiles
<1>2. /\ \A g \in Files : g # f =>
           fsfiles'[g] = IF fsfiles[g].counter = s.counter THEN [fsfiles[g] EXCEPT !.alone = FALSE] ELSE fsfiles[g]
      /\ fsfiles'[f] = s
  BY DEF Disturbed
<1>3. /\ \A c \in CounterNames : counters'[c] = IF c = s.counter THEN n ELSE counters[c]
      /\ counters' \in [CounterNames -> Int]
  BY <1>1
<1>4. ASSUME NEW g \in Files, g # f
      PROVE  /\ fsfiles'[g] \in OpenFiles
             /\ fsfiles'[g].pc # "closed" => fsmount # NoMount
             /\ FileRight(fsfiles'[g], counters'[fsfiles'[g].counter])
  <2> DEFINE u == fsfiles[g]
             w == [u EXCEPT !.alone = FALSE]
  <2>1. u \in OpenFiles /\ (u.pc # "closed" => fsmount # NoMount) /\ FileRight(u, counters[u.counter])
    BY <1>1 DEF FsInv
  <2>2. CASE u.counter = s.counter
    <3>1. fsfiles'[g] = w
      BY <1>2, <1>4, <2>2
    <3> HIDE DEF u
    <3>2. w \in OpenFiles /\ w.pc = u.pc /\ w.alone = FALSE /\ w.text = u.text /\ w.offset = u.offset
      BY <2>1 DEF OpenFiles
    <3> HIDE DEF w
    <3>3. FileRight(w, counters'[w.counter])
      BY <2>1, <3>2 DEF FileRight
    <3> QED
      BY <2>1, <3>1, <3>2, <3>3
  <2>3. CASE u.counter # s.counter
    <3>1. fsfiles'[g] = u
      BY <1>2, <1>4, <2>3
    <3>2. counters'[u.counter] = counters[u.counter]
      BY <1>3, <2>1, <2>3 DEF OpenFiles
    <3> HIDE DEF u
    <3> QED
      BY <2>1, <3>1, <3>2
  <2> QED
    BY <2>2, <2>3
<1>5. fsfiles'[f] \in OpenFiles /\ fsmount # NoMount /\ FileRight(fsfiles'[f], counters'[fsfiles'[f].counter])
  BY <1>1, <1>2, <1>3 DEF FsInv
<1>6. fsfiles' \in [Files -> OpenFiles]
  <2>1. DOMAIN fsfiles' = Files
    BY DEF Disturbed
  <2>2. fsfiles' = [g \in Files |-> fsfiles'[g]]
    BY DEF Disturbed
  <2> QED
    BY <1>4, <1>5, <2>2
<1>7. FsTyped'
  BY <1>3, <1>6 DEF FsInv, FsTyped
<1>8. \A g \in Files : /\ fsfiles'[g].pc # "closed" => fsmount # NoMount
                       /\ FileRight(fsfiles'[g], counters'[fsfiles'[g].counter])
  BY <1>4, <1>5
<1> QED
  BY <1>7, <1>8 DEF FsInv

\* An open file has read nothing.
LEMMA OpenKept ==
  ASSUME FsInv, NEW f \in Files, lfs_open(f)
  PROVE  FsInv'
<1>1. PICK c \in CounterNames \cap fsmount.files : fsfiles' = [fsfiles EXCEPT ![f] = [Closed EXCEPT !.pc = "ready", !.counter = c]]
  BY DEF lfs_open
<1> DEFINE s == [Closed EXCEPT !.pc = "ready", !.counter = c]
<1>2. Closed \in OpenFiles /\ Closed.offset = 0 /\ Closed.text = <<>>
  BY DEF Closed, OpenFiles, CounterNames
<1>3. s \in OpenFiles /\ s.pc = "ready" /\ s.offset = 0 /\ s.text = <<>>
  <2> HIDE DEF Closed
  <2> QED
    BY <1>1, <1>2 DEF OpenFiles
<1>4. FileRight(s, counters[s.counter])
  <2> HIDE DEF s
  <2> QED
    BY <1>3, EmptySeq DEF FileRight
<1>5. fsmount # NoMount
  BY <1>1 DEF NoMount
<1> HIDE DEF s
<1>6. fsfiles' = [fsfiles EXCEPT ![f] = s]
  BY <1>1 DEF s
<1> QED
  BY <1>3, <1>4, <1>5, <1>6, OneFile DEF lfs_open

\* A closed one neither.
LEMMA CloseKept ==
  ASSUME FsInv, NEW f \in Files, Closes(f)
  PROVE  FsInv'
<1>1. Closed \in OpenFiles /\ Closed.pc = "closed" /\ FileRight(Closed, counters[Closed.counter])
  BY DEF Closed, OpenFiles, CounterNames, FileRight
<1> QED
  BY <1>1, OneFile DEF Closes

\* The number that a read takes is the counter's, or the one before it.
LEMMA ReadKept ==
  ASSUME FsInv, NEW f \in Files, ReadCounter(f)
  PROVE  FsInv'
<1> DEFINE u == fsfiles[f]
           n == counters[u.counter]
           pc == IF u.offset > 0 THEN "copy" ELSE "inc"
           v == PastStart(u.offset, n)
           alone == IF u.offset > 0 THEN u.alone ELSE TRUE
           s == [u EXCEPT !.pc = pc, !.v = v, !.alone = alone]
<1>1. u \in OpenFiles /\ u.pc = "ready" /\ FileRight(u, n) /\ n \in Int /\ fsmount # NoMount
  BY DEF FsInv, FsTyped, ReadCounter, OpenFiles
<1>2. fsfiles' = [fsfiles EXCEPT ![f] = s]
  BY DEF ReadCounter
<1> HIDE DEF u, n
<1>3. u.offset \in Nat /\ u.alone \in BOOLEAN
  BY <1>1 DEF OpenFiles
<1>4. ASSUME u.offset > 0
      PROVE  pc = "copy" /\ v = n - 1 /\ alone = u.alone
  BY <1>4 DEF PastStart
<1>5. ASSUME ~(u.offset > 0)
      PROVE  pc = "inc" /\ v = n /\ alone = TRUE
  BY <1>5 DEF PastStart
<1>6. pc \in {"inc", "copy"} /\ v \in Int /\ alone \in BOOLEAN
  <2> HIDE DEF pc, v, alone
  <2>1. CASE u.offset > 0
    <3>1. pc = "copy" /\ v = n - 1 /\ alone = u.alone
      BY <1>4, <2>1
    <3>2. v \in Int
      BY <1>1, <3>1
    <3>3. alone \in BOOLEAN
      BY <1>3, <3>1
    <3> QED
      BY <3>1, <3>2, <3>3
  <2>2. CASE ~(u.offset > 0)
    <3>1. pc = "inc" /\ v = n /\ alone = TRUE
      BY <1>5, <2>2
    <3> QED
      BY <1>1, <3>1
  <2> QED
    BY <2>1, <2>2
<1> HIDE DEF pc, v, alone
<1>7. /\ s \in OpenFiles /\ s.text = u.text /\ s.offset = u.offset /\ s.counter = u.counter
      /\ s.pc = pc /\ s.v = v /\ s.alone = alone
  BY <1>1, <1>6 DEF OpenFiles
<1> HIDE DEF s
<1>8. FileRight(s, n)
  <2>1. CASE u.offset > 0
    BY <1>3, <1>1, <1>4, <1>7, <2>1 DEF FileRight
  <2>2. CASE ~(u.offset > 0)
    <3>1. s.pc = "inc" /\ s.v = n /\ s.offset = 0 /\ s.text = u.text
      <4>1. pc = "inc" /\ v = n
        BY <1>5, <2>2
      <4>2. u.offset = 0
        BY <1>3, <2>2
      <4> QED
        BY <1>7, <4>1, <4>2
    <3>2. Len(s.text) = s.offset
      BY <1>1, <1>7 DEF FileRight
    <3> QED
      BY <3>1, <3>2 DEF FileRight
  <2> QED
    BY <2>1, <2>2
<1>9. FileRight(s, counters[s.counter])
  BY <1>7, <1>8 DEF n
<1> QED
  BY <1>1, <1>2, <1>7, <1>9, OneFile DEF ReadCounter

\* The counter is counted up by the read that took its number.
LEMMA IncKept ==
  ASSUME FsInv, NEW f \in Files, IncCounter(f)
  PROVE  FsInv'
<1> DEFINE u == fsfiles[f]
           n == counters[u.counter]
           s == [u EXCEPT !.pc = "copy"]
<1>1. u \in OpenFiles /\ u.pc = "inc" /\ FileRight(u, n) /\ n \in Int
  BY DEF FsInv, FsTyped, IncCounter, OpenFiles
<1>2. fsfiles' = [Disturbed(f) EXCEPT ![f] = s]
  BY DEF IncCounter, Disturbed
<1>3. counters' = [counters EXCEPT ![u.counter] = n + 1]
  BY DEF IncCounter
<1> HIDE DEF u, n
<1>4. /\ s \in OpenFiles /\ s.text = u.text /\ s.offset = u.offset /\ s.counter = u.counter
      /\ s.pc = "copy" /\ s.v = u.v /\ s.alone = u.alone
  BY <1>1 DEF OpenFiles
<1> HIDE DEF s
<1>5. u.offset \in Nat
  BY <1>1 DEF OpenFiles
<1>6. FileRight(s, n + 1)
  BY <1>1, <1>4, <1>5 DEF FileRight
<1>7. n + 1 \in Int /\ fsfiles[f].pc # "closed" /\ s.counter = fsfiles[f].counter
  BY <1>1, <1>4 DEF u
<1> QED
  BY <1>2, <1>3, <1>4, <1>6, <1>7, OneCounter DEF IncCounter

\* A write is no read: the file is at its start.
LEMMA WriteKept ==
  ASSUME FsInv, NEW f \in Files, lfs_write_file(f)
  PROVE  FsInv'
<1> DEFINE u == fsfiles[f]
<1>1. u \in OpenFiles /\ u.pc = "ready" /\ u.offset = 0 /\ FileRight(u, counters[u.counter])
  BY DEF FsInv, FsTyped, lfs_write_file
<1>2. PICK n \in WrittenVals : counters' = [counters EXCEPT ![u.counter] = n]
  BY DEF lfs_write_file
<1>3. fsfiles' = [Disturbed(f) EXCEPT ![f] = u]
  BY DEF lfs_write_file, Disturbed
<1>4. n \in Int /\ FileRight(u, n)
  BY <1>1, <1>2, FsAssumption DEF FileRight
<1>5. fsfiles[f].pc # "closed" /\ u.counter = fsfiles[f].counter
  BY <1>1
<1> HIDE DEF u
<1> QED
  BY <1>1, <1>2, <1>3, <1>4, <1>5, OneCounter DEF lfs_write_file

\* A piece of the text is read.
LEMMA CopyKept ==
  ASSUME FsInv, NEW f \in Files, NEW count \in 1..3, CopyText(f, count)
  PROVE  FsInv'
<1> DEFINE u == fsfiles[f]
           k == counters[u.counter]
           w == Text(u.v)
           left == Len(w) - u.offset
           n == IF left < 0 THEN 0 ELSE IF count > left THEN left ELSE count
           t == IF left < 0 THEN u.text ELSE u.text \o SubSeq(w, u.offset + 1, u.offset + n)
           e == u.offset + n
           s == [u EXCEPT !.pc = "ready", !.offset = e, !.text = t]
<1>1. u \in OpenFiles /\ u.pc = "copy" /\ FileRight(u, k) /\ k \in Int /\ fsmount # NoMount
  BY DEF FsInv, FsTyped, CopyText, OpenFiles
<1>2. fsfiles' = [fsfiles EXCEPT ![f] = s]
  BY DEF CopyText
<1> HIDE DEF u, k
<1>3. u.v \in Int /\ u.offset \in Nat /\ u.text \in Seq(Int) /\ Len(u.text) = u.offset
  BY <1>1 DEF OpenFiles, FileRight
<1>4. w \in Seq(Int) /\ Len(w) \in Nat
  BY <1>3, TextIsText, LenProperties
<1>5. u.alone => u.v = k - 1 /\ (u.offset > 0 => u.offset <= Len(w) /\ u.text = SubSeq(w, 1, u.offset))
  BY <1>1, <1>3 DEF FileRight, Shows
<1> HIDE DEF w
<1>6. n \in Nat /\ (~(left < 0) => u.offset + n <= Len(w)) /\ (left < 0 => n = 0 /\ u.offset > Len(w))
  BY <1>3, <1>4
<1>7. u.alone => /\ u.offset <= Len(w) /\ u.text = SubSeq(w, 1, u.offset)
  <2>1. CASE u.offset = 0
    <3>1. u.text = <<>> /\ SubSeq(w, 1, 0) = <<>>
      BY <1>3, <2>1, EmptySeq, SubSeqEmpty
    <3> QED
      BY <1>4, <2>1, <3>1
  <2>2. CASE u.offset # 0
    BY <1>3, <1>5, <2>2
  <2> QED
    BY <2>1, <2>2
<1>8. t \in Seq(Int) /\ Len(t) = u.offset + n /\ (u.alone => Shows(t, u.offset + n, w))
  <2>1. CASE left < 0
    <3>1. n = 0 /\ t = u.text /\ ~u.alone
      BY <1>3, <1>4, <1>6, <1>7, <2>1
    <3> HIDE DEF n, t
    <3> QED
      BY <1>3, <3>1
  <2>2. CASE ~(left < 0)
    <3>1. t = u.text \o SubSeq(w, u.offset + 1, u.offset + n)
      BY <2>2
    <3>2. u.offset + n <= Len(w) /\ n \in Nat
      BY <1>6, <2>2
    <3> HIDE DEF n, t, left
    <3>3. t \in Seq(Int) /\ Len(t) = u.offset + n /\ (u.text = SubSeq(w, 1, u.offset) => t = SubSeq(w, 1, u.offset + n))
      BY <1>3, <1>4, <3>1, <3>2, PieceMore
    <3> QED
      BY <1>7, <3>2, <3>3 DEF Shows
  <2> QED
    BY <2>1, <2>2
<1> HIDE DEF n, t, left
<1>9. e \in Nat /\ Len(t) = e /\ (u.alone => Shows(t, e, w))
  BY <1>3, <1>6, <1>8
<1> HIDE DEF e
<1>10. /\ s \in OpenFiles /\ s.text = t /\ s.offset = e /\ s.counter = u.counter
      /\ s.pc = "ready" /\ s.alone = u.alone
  BY <1>1, <1>8, <1>9 DEF OpenFiles
<1> HIDE DEF s
<1>11. FileRight(s, k)
  BY <1>5, <1>10, <1>9 DEF FileRight, w
<1>12. FileRight(s, counters[s.counter])
  BY <1>10, <1>11 DEF k
<1> QED
  BY <1>1, <1>2, <1>10, <1>12, OneFile DEF CopyText

\* The file system is filled while no file is open.
LEMMA MountKept ==
  ASSUME FsInv, lfs_fill_super
  PROVE  FsInv'
<1> DEFINE m == [NoMount EXCEPT !.root = TRUE, !.inodes = {"root"}, !.dentries = {"root"}]
<1>1. CASE UNCHANGED <<fsmount, counters>>
  BY <1>1 DEF lfs_fill_super, FsInv, FsTyped
<1>2. ASSUME NEW ok, fsmount' = lfs_create_files(m, ok), counters' = [c \in CounterNames |-> 0]
      PROVE  FsInv'
  <2>1. NoMount \in Mounts /\ NoMount.files = {}
    BY DEF NoMount, Mounts
  <2>2. m \in Mounts /\ m.root = TRUE /\ m.files = {} /\ m.inodes = {"root"} /\ m.dentries = {"root"}
    <3> HIDE DEF NoMount
    <3> QED
      BY <2>1 DEF Mounts, FsNames
  <2> HIDE DEF m
  <2>8. MountRight(m)
    BY <2>2 DEF MountRight
  <2>3. fsmount' \in Mounts /\ MountRight(fsmount') /\ fsmount'.root
    BY <1>2, <2>2, <2>8, FillKept
  <2>4. counters' \in [CounterNames -> Int] /\ fsfiles' = fsfiles
    BY <1>2 DEF lfs_fill_super
  <2>5. \A f \in Files : fsfiles[f].pc = "closed"
    BY DEF FsInv, lfs_fill_super
  <2>6. ASSUME NEW f \in Files
        PROVE  FileRight(fsfiles'[f], counters'[fsfiles'[f].counter])
    <3>1. FileRight(fsfiles[f], counters[fsfiles[f].counter]) /\ fsfiles[f].pc = "closed"
      BY <2>5 DEF FsInv
    <3> QED
      BY <2>4, <3>1 DEF FileRight
  <2>7. FsTyped'
    BY <2>3, <2>4 DEF FsInv, FsTyped
  <2> QED
    BY <2>3, <2>4, <2>5, <2>6, <2>7 DEF FsInv
<1> HIDE DEF m
<1> QED
  BY <1>1, <1>2 DEF lfs_fill_super, m

\* The invariant holds.
LEMMA FsInvHolds ==
  FsSpec => []FsInv
<1>1. FsInit => FsInv
  <2> SUFFICES ASSUME FsInit PROVE FsInv
    OBVIOUS
  <2>1. fsmount = NoMount /\ counters = [c \in CounterNames |-> 0] /\ fsfiles = [f \in Files |-> Closed]
    BY DEF FsInit, FsRest
  <2>2. Closed \in OpenFiles /\ Closed.pc = "closed" /\ \A n : FileRight(Closed, n)
    BY DEF Closed, OpenFiles, CounterNames, FileRight
  <2>3. NoMount \in Mounts /\ MountRight(NoMount)
    BY DEF NoMount, Mounts, MountRight
  <2> QED
    BY <2>1, <2>2, <2>3 DEF FsInv, FsTyped
<1>2. FsInv /\ [FsNext]_fsVars => FsInv'
  <2> SUFFICES ASSUME FsInv, [FsNext]_fsVars PROVE FsInv'
    OBVIOUS
  <2>1. CASE lfs_fill_super
    BY <2>1, MountKept
  <2>2. CASE kill_litter_super
    <3>1. fsmount' = NoMount /\ UNCHANGED <<counters, fsfiles>> /\ \A f \in Files : fsfiles[f].pc = "closed"
      BY <2>2 DEF kill_litter_super
    <3>2. NoMount \in Mounts /\ MountRight(NoMount)
      BY DEF NoMount, Mounts, MountRight
    <3> QED
      BY <3>1, <3>2 DEF FsInv, FsTyped
  <2>3. ASSUME NEW f \in Files, \/ lfs_open(f) \/ Closes(f) \/ ReadCounter(f) \/ IncCounter(f) \/ lfs_write_file(f)
                                \/ \E count \in 1..3 : CopyText(f, count)
        PROVE  FsInv'
    BY <2>3, OpenKept, CloseKept, ReadKept, IncKept, WriteKept, CopyKept
  <2>4. CASE UNCHANGED fsVars
    BY <2>4 DEF fsVars, FsInv, FsTyped
  <2> QED
    BY <2>1, <2>2, <2>3, <2>4 DEF FsNext
<1> QED
  BY <1>1, <1>2, PTL DEF FsSpec

\* CounterFsRight: for any open files, written numbers and base, and whatever
\* lfs_create_file fails to allocate, what lfs_fill_super leaves is whole, and
\* lfs_read_file gives a reader that has the counter to itself one number.
THEOREM CounterFsIsRight ==
  FsSpec => []CounterFsRight
<1>1. FsInv => CounterFsRight
  <2> SUFFICES ASSUME FsInv, NEW f \in Files, fsfiles[f].alone, fsfiles[f].offset > 0
               PROVE  /\ Len(fsfiles[f].text) = fsfiles[f].offset
                      /\ IsPrefix(fsfiles[f].text, Text(counters[fsfiles[f].counter] - 1))
    BY DEF FsInv, MountRight, CounterFsRight
  <2> DEFINE s == fsfiles[f]
             w == Text(counters[s.counter] - 1)
  <2>1. FileRight(s, counters[s.counter])
    BY DEF FsInv
  <2>2. Len(s.text) = s.offset /\ s.offset <= Len(w) /\ s.text = SubSeq(w, 1, s.offset)
    BY <2>1 DEF FileRight, Shows
  <2>3. s.text \in Seq(Int)
    BY DEF FsInv, FsTyped, OpenFiles
  <2> HIDE DEF s, w
  <2>4. SubSeq(s.text, 1, Len(s.text)) = s.text
    BY <2>3, SubSeqFull
  <2>5. IsPrefix(s.text, w)
    BY <2>2, <2>4 DEF IsPrefix
  <2> QED
    BY <2>2, <2>5 DEF s, w
<1> QED
  BY <1>1, FsInvHolds, PTL

-----------------------------------------------------------------------------
(* The syslog client.  It never has more than one socket, so its number is *)
(* 0 or NoFd; a thread in the region holds the lock, and while nothing has *)
(* gone wrong its connection is to the daemon there is.                    *)

Logs == [Type : {"dgram", "stream"}, File : {NoFd, 0}, connected : BOOLEAN,
         Stat : SUBSET {"ndelay", "cons"}, Tag : {"null", "tag", "progname"},
         Facility : Facilities \cup {"user"}, Mask : SUBSET (Priorities \cup {LOG_ERR})]
FdMaps == [{} -> Nat] \cup [{0} -> Nat]
States == [fds : FdMaps, log : Logs]
Daemons == [type : {"dgram", "stream", "down"}, life : Nat \ {0}]

\* The log has its socket and no other, and is connected when it has one.
Joined(s) ==
  /\ DOMAIN s.fds = {s.log.File} \ {NoFd}
  /\ s.log.connected <=> s.log.File # NoFd
  /\ s.log.connected => s.fds[s.log.File] > 0
\* The daemon is the one the log is connected to, of the kind that was found.
Lasting(s) ==
  /\ s.log.Type = "stream" => daemon.type = "stream"
  /\ s.log.connected => s.fds[s.log.File] = daemon.life /\ daemon.type = s.log.Type

-----------------------------------------------------------------------------
\* socket numbers the first socket 0.
LEMMA FirstFd ==
  ASSUME NEW fds, DOMAIN fds = {}
  PROVE  NewFd(fds) = 0
<1>1. Cardinality(DOMAIN fds) = 0
  BY FS_EmptySet
<1>2. \E f \in 0..0 : f \notin DOMAIN fds
  OBVIOUS
<1>3. NewFd(fds) \in 0..0
  BY <1>1, <1>2 DEF NewFd
<1> QED
  BY <1>3

\* Closing the log closes its socket.
LEMMA Closing ==
  ASSUME NEW s \in States, Joined(s)
  PROVE  LET r == closelog_internal(s)
         IN  /\ r \in States /\ Joined(r)
             /\ Lasting(s) => Lasting(r)
             /\ r.log = [s.log EXCEPT !.File = NoFd, !.connected = FALSE]
<1> DEFINE F == [f \in DOMAIN s.fds \ {s.log.File} |-> s.fds[f]]
           L == [s.log EXCEPT !.File = NoFd, !.connected = FALSE]
<1>1. L \in Logs /\ L.File = NoFd /\ L.connected = FALSE /\ L.Type = s.log.Type
  BY DEF States, Logs
<1>2. DOMAIN F = {}
  BY DEF Joined
<1>3. F \in FdMaps
  BY <1>2 DEF FdMaps
<1>4. closelog_internal(s) = [fds |-> F, log |-> L]
  BY DEF closelog_internal
<1>5. closelog_internal(s).log = L
  BY <1>4
<1> HIDE DEF F, L
<1>6. LET r == closelog_internal(s)
      IN  r \in States /\ Joined(r) /\ (Lasting(s) => Lasting(r))
  BY <1>1, <1>2, <1>3, <1>4 DEF States, Joined, Lasting
<1> QED
  BY <1>5, <1>6 DEF L

\* The log with the options stat, and the same connection.
SameButOptions(s, r, stat) ==
  /\ r \in States /\ r.fds = s.fds
  /\ r.log.Type = s.log.Type /\ r.log.File = s.log.File
  /\ r.log.connected = s.log.connected /\ r.log.Stat = stat

\* Setting the tag, the options and the facility leaves the connection alone.
LEMMA Setting ==
  ASSUME NEW s \in States, NEW tag \in {"null", "tag", "progname"},
         NEW stat \in SUBSET {"ndelay", "cons"}, NEW fac \in Facilities \cup {"none"}
  PROVE  SameButOptions(s, SetLog(s, tag, stat, fac), stat)
<1> DEFINE v == IF tag # "null" THEN tag ELSE s.log.Tag
           w == IF fac # "none" THEN fac ELSE s.log.Facility
           L == [s.log EXCEPT !.Tag = v, !.Stat = stat, !.Facility = w]
<1>1. s.log \in Logs /\ s.fds \in FdMaps
  BY DEF States
<1>2. v \in {"null", "tag", "progname"} /\ w \in Facilities \cup {"user"}
  BY <1>1 DEF Logs
<1>3. SetLog(s, tag, stat, fac) = [fds |-> s.fds, log |-> L]
  <2> DEFINE s1 == [s EXCEPT !.log.Tag = v]
             s2 == [s1 EXCEPT !.log.Stat = stat]
             s3 == [s2 EXCEPT !.log.Facility = w]
             L1 == [s.log EXCEPT !.Tag = v]
             L2 == [L1 EXCEPT !.Stat = stat]
  <2>1. s = [fds |-> s.fds, log |-> s.log]
    BY DEF States
  <2>2. s1 = [fds |-> s.fds, log |-> L1] /\ L1 \in Logs
    BY <1>1, <1>2, <2>1 DEF Logs
  <2>3. s2 = [fds |-> s.fds, log |-> L2] /\ L2 \in Logs
    <3> HIDE DEF s1, L1
    <3> QED
      BY <2>2 DEF Logs
  <2>4. s3 = [fds |-> s.fds, log |-> [L2 EXCEPT !.Facility = w]]
    <3> HIDE DEF s2, L2
    <3> QED
      BY <2>3
  <2>5. SetLog(s, tag, stat, fac) = s3
    BY <1>1, <1>2 DEF SetLog, Logs, States
  <2> QED
    BY <2>4, <2>5
<1> HIDE DEF v, w
<1>4. /\ L \in Logs /\ L.Type = s.log.Type /\ L.File = s.log.File
      /\ L.connected = s.log.connected /\ L.Stat = stat
  BY <1>1, <1>2 DEF Logs
<1> HIDE DEF L
<1> QED
  BY <1>1, <1>3, <1>4 DEF States, SameButOptions

\* A new socket, if there is one, is the log's and not connected yet.
LEMMA Opening ==
  ASSUME NEW s \in States, DOMAIN s.fds = {s.log.File} \ {NoFd}
  PROVE  LET r == Opened(s)
         IN  /\ r \in States /\ DOMAIN r.fds = {r.log.File} \ {NoFd}
             /\ r.log.Type = s.log.Type /\ r.log.connected = s.log.connected
             /\ r.log.Stat = s.log.Stat
             /\ s.log.File # NoFd => r = s
             /\ r.log.File = NoFd <=> s.log.File = NoFd /\ "ndelay" \notin s.log.Stat
<1>1. CASE s.log.File = NoFd /\ "ndelay" \in s.log.Stat
  <2> DEFINE F == [x \in DOMAIN s.fds \cup {0} |-> IF x = 0 THEN 0 ELSE s.fds[x]]
             L == [s.log EXCEPT !.File = 0]
  <2>1. NewFd(s.fds) = 0
    BY <1>1, FirstFd
  <2>2. Opened(s) = [fds |-> F, log |-> L]
    BY <1>1, <2>1 DEF Opened, States
  <2>3. /\ L \in Logs /\ L.File = 0 /\ L.Type = s.log.Type
        /\ L.connected = s.log.connected /\ L.Stat = s.log.Stat
    BY DEF States, Logs
  <2>4. F \in [{0} -> Nat] /\ DOMAIN F = {0}
    BY <1>1
  <2> HIDE DEF F, L
  <2> QED
    BY <1>1, <2>2, <2>3, <2>4 DEF States, FdMaps, NoFd
<1>2. CASE ~(s.log.File = NoFd /\ "ndelay" \in s.log.Stat)
  BY <1>2 DEF Opened
<1> QED
  BY <1>1, <1>2

\* connect joins the log's socket to the daemon or closes it.
LEMMA Connecting ==
  ASSUME NEW s \in States, DOMAIN s.fds = {s.log.File} \ {NoFd},
         s.log.connected => s.log.File # NoFd /\ s.fds[s.log.File] > 0, daemon \in Daemons
  PROVE  LET r == Connected(s)
         IN  /\ r \in States /\ Joined(r)
             /\ r.log.Type = s.log.Type /\ r.log.Stat = s.log.Stat
             /\ s.log.File = NoFd \/ s.log.connected => r = s
             /\ s.log.File # NoFd /\ ~s.log.connected /\ daemon.type # s.log.Type => r.log.File = NoFd
             /\ s.log.File # NoFd /\ ~s.log.connected /\ daemon.type = s.log.Type =>
                  r.log.connected /\ r.log.File = s.log.File /\ r.fds[r.log.File] = daemon.life
<1>0. s.log \in Logs /\ s.fds \in FdMaps /\ daemon.life \in Nat \ {0}
  BY DEF States, Daemons
<1>1. CASE s.log.File = NoFd \/ s.log.connected
  BY <1>0, <1>1 DEF Connected, Joined, Logs
<1>2. CASE ~(s.log.File = NoFd \/ s.log.connected) /\ daemon.type = s.log.Type
  <2> DEFINE F == [s.fds EXCEPT ![s.log.File] = daemon.life]
             L == [s.log EXCEPT !.connected = TRUE]
  <2>1. Connected(s) = [fds |-> F, log |-> L]
    BY <1>2 DEF Connected
  <2>2. /\ L \in Logs /\ L.File = s.log.File /\ L.Type = s.log.Type /\ L.connected = TRUE
        /\ L.Stat = s.log.Stat
    BY <1>0 DEF Logs
  <2>3. s.log.File = 0 /\ DOMAIN s.fds = {0} /\ s.fds \in [{0} -> Nat]
    BY <1>0, <1>2 DEF Logs, FdMaps, NoFd
  <2>4. F \in FdMaps /\ DOMAIN F = {0} /\ F[0] = daemon.life
    BY <1>0, <2>3 DEF FdMaps
  <2> HIDE DEF F, L
  <2> QED
    BY <1>0, <1>2, <2>1, <2>2, <2>3, <2>4 DEF States, Joined, NoFd
<1>3. CASE ~(s.log.File = NoFd \/ s.log.connected) /\ daemon.type # s.log.Type
  <2> DEFINE F == [f \in DOMAIN s.fds \ {s.log.File} |-> s.fds[f]]
             L == [s.log EXCEPT !.File = NoFd]
  <2>1. Connected(s) = [fds |-> F, log |-> L]
    BY <1>3 DEF Connected
  <2>2. /\ L \in Logs /\ L.File = NoFd /\ L.Type = s.log.Type /\ L.connected = s.log.connected
        /\ L.Stat = s.log.Stat
    BY <1>0 DEF Logs
  <2>3. DOMAIN F = {}
    OBVIOUS
  <2>4. F \in FdMaps
    BY <2>3 DEF FdMaps
  <2> HIDE DEF F, L
  <2> QED
    BY <1>0, <1>3, <2>1, <2>2, <2>3, <2>4 DEF States, Joined
<1> QED
  BY <1>1, <1>2, <1>3

\* openlog_internal leaves the log joined or without a socket; while the daemon
\* lasts it finds the daemon's kind, and with LOG_NDELAY it is connected.
LEMMA OpenLogResult ==
  ASSUME NEW s \in States, Joined(s), NEW tag \in {"null", "tag", "progname"},
         NEW stat \in SUBSET {"ndelay", "cons"}, NEW fac \in Facilities \cup {"none"},
         daemon \in Daemons
  PROVE  LET r == openlog_internal(s, tag, stat, fac)
         IN  /\ r \in States /\ Joined(r)
             /\ daemon.type # "down" /\ Lasting(s) =>
                  Lasting(r) /\ ("ndelay" \in stat => r.log.connected)
<1> DEFINE a == SetLog(s, tag, stat, fac)
           b == Opened(a)
           d == Connected(b)
           e == NextType(b, d)
<1>0. s \in States /\ tag \in {"null", "tag", "progname"} /\ stat \in SUBSET {"ndelay", "cons"}
      /\ fac \in Facilities \cup {"none"}
  OBVIOUS
<1>1. /\ a \in States /\ a.fds = s.fds
      /\ a.log.Type = s.log.Type /\ a.log.File = s.log.File
      /\ a.log.connected = s.log.connected /\ a.log.Stat = stat
  <2>1. SameButOptions(s, SetLog(s, tag, stat, fac), stat)
    BY <1>0, Setting
  <2> QED
    BY <2>1 DEF SameButOptions
<1> HIDE DEF a
<1>2. DOMAIN a.fds = {a.log.File} \ {NoFd}
  BY <1>1 DEF Joined
<1>3. /\ b \in States /\ DOMAIN b.fds = {b.log.File} \ {NoFd}
      /\ b.log.Type = a.log.Type /\ b.log.connected = a.log.connected
      /\ b.log.Stat = a.log.Stat
      /\ a.log.File # NoFd => b = a
      /\ b.log.File = NoFd <=> a.log.File = NoFd /\ "ndelay" \notin a.log.Stat
  BY <1>1, <1>2, Opening
<1> HIDE DEF b
<1>4. b.log.connected => b.log.File # NoFd /\ b.fds[b.log.File] > 0
  BY <1>1, <1>3 DEF Joined
<1>5. /\ d \in States /\ Joined(d)
      /\ d.log.Type = b.log.Type /\ d.log.Stat = b.log.Stat
      /\ b.log.File = NoFd \/ b.log.connected => d = b
      /\ b.log.File # NoFd /\ ~b.log.connected /\ daemon.type # b.log.Type => d.log.File = NoFd
      /\ b.log.File # NoFd /\ ~b.log.connected /\ daemon.type = b.log.Type =>
           d.log.connected /\ d.log.File = b.log.File /\ d.fds[d.log.File] = daemon.life
  BY <1>3, <1>4, Connecting
<1> HIDE DEF d
<1>6. b.log \in Logs /\ d.log \in Logs /\ d.fds \in FdMaps /\ s.log \in Logs
  BY <1>3, <1>5 DEF States
<1>7. CASE ~(d.log.File = NoFd /\ b.log.File # NoFd /\ b.log.Type = "dgram" /\ daemon.type = "stream")
  <2>1. openlog_internal(s, tag, stat, fac) = d
    BY <1>5, <1>7 DEF openlog_internal, NextType, a, b, d
  <2>2. ASSUME daemon.type # "down", Lasting(s)
        PROVE  Lasting(d) /\ ("ndelay" \in stat => d.log.connected)
    <3>1. daemon.type \in {"dgram", "stream"} /\ b.log.Type \in {"dgram", "stream"}
      BY <1>6, <2>2 DEF Daemons, Logs
    <3>2. CASE b.log.File = NoFd
      BY <1>1, <1>3, <1>5, <1>7, <2>2, <3>2 DEF Lasting, Joined
    <3>3. CASE b.log.File # NoFd /\ b.log.connected
      BY <1>1, <1>3, <1>5, <1>7, <2>2, <3>3 DEF Lasting, Joined
    <3>4. CASE b.log.File # NoFd /\ ~b.log.connected
      BY <1>1, <1>3, <1>5, <1>7, <2>2, <3>1, <3>4 DEF Lasting, Joined
    <3> QED
      BY <3>2, <3>3, <3>4
  <2> QED
    BY <1>5, <2>1, <2>2
<1>8. CASE d.log.File = NoFd /\ b.log.File # NoFd /\ b.log.Type = "dgram" /\ daemon.type = "stream"
  <2> DEFINE L == [d.log EXCEPT !.Type = "stream"]
             w == [fds |-> d.fds, log |-> L]
             o == Opened(w)
  <2>1. e = w
    BY <1>5, <1>6, <1>8 DEF NextType, States
  <2>2. /\ L \in Logs /\ L.File = NoFd /\ L.Type = "stream" /\ L.connected = d.log.connected
        /\ L.Stat = d.log.Stat
    BY <1>6, <1>8 DEF Logs
  <2> HIDE DEF L
  <2>3. openlog_internal(s, tag, stat, fac) = Connected(o)
    BY <1>8, <2>1, <2>2 DEF openlog_internal, a, b, d
  <2>4. /\ w \in States /\ w.log = L /\ w.fds = d.fds
        /\ DOMAIN w.fds = {w.log.File} \ {NoFd} /\ w.log.connected = FALSE
    BY <1>5, <1>6, <1>8, <2>2 DEF States, Joined
  <2> HIDE DEF w
  <2>5. /\ o \in States /\ DOMAIN o.fds = {o.log.File} \ {NoFd}
        /\ o.log.Type = "stream" /\ o.log.connected = FALSE /\ o.log.Stat = stat
        /\ o.log.File = NoFd <=> "ndelay" \notin stat
    BY <1>1, <1>3, <1>5, <2>2, <2>4, Opening
  <2> HIDE DEF o
  <2>6. LET r == Connected(o)
        IN  /\ r \in States /\ Joined(r) /\ r.log.Type = "stream"
            /\ o.log.File = NoFd => r = o
            /\ o.log.File # NoFd => r.log.connected /\ r.fds[r.log.File] = daemon.life
    BY <1>8, <2>5, Connecting
  <2> QED
    BY <1>8, <2>3, <2>5, <2>6 DEF Lasting
<1> QED
  BY <1>7, <1>8

-----------------------------------------------------------------------------
(* The inductive invariant of the connection.                              *)

Msgs == [id : Nat, pri : Priorities \cup {LOG_ERR, "none"}, fac : Facilities \cup {"user", "auth", "none"}]
Outs == [calls : Nat, received : Seq(Msgs), console : Seq(Msgs), lost : Seq(Msgs), faults : Nat]
Pcs == {"idle", "again", "lock", "open", "send", "leave"}
SyslogTyped ==
  /\ log \in Logs /\ sfds \in FdMaps /\ daemon \in Daemons
  /\ slock \in Threads \cup {"free"} /\ sigpipe \in {"user", "syslog"}
  /\ sthr \in [Threads -> [pc : Pcs, then : {"idle", "again"}, msg : Msgs]]
  /\ sout \in Outs

\* The thread in the region is the one that holds the lock.
Inside(t) == sthr[t].pc \in {"open", "send", "leave"}
Region ==
  /\ \A t \in Threads : Inside(t) <=> slock = t
  /\ sigpipe = "user" <=> slock = "free"

\* Until something goes wrong the log is connected whenever a message is sent.
Undisturbed ==
  sout.faults = 0 =>
    /\ daemon.type # "down" /\ Lasting(State)
    /\ \A t \in Threads : sthr[t].pc = "send" => log.connected
    /\ sout.console = <<>> /\ sout.lost = <<>>

SyslogInv == SyslogTyped /\ Region /\ Joined(State) /\ Undisturbed

\* What each kind of step does to the counts and the messages.
LEMMA OutSteps ==
  ASSUME NEW o \in Outs, NEW m \in Msgs
  PROVE  /\ [o EXCEPT !.calls = @ + 1] \in Outs
         /\ [o EXCEPT !.faults = @ + 1] \in Outs
         /\ [o EXCEPT !.faults = @ + 1].faults # 0
         /\ [o EXCEPT !.received = Append(@, m)] \in Outs
         /\ [o EXCEPT !.console = Append(@, m)] \in Outs
         /\ [o EXCEPT !.lost = Append(@, m)] \in Outs
<1>1. o.calls \in Nat /\ o.faults \in Nat
  BY DEF Outs
<1>2. o.received \in Seq(Msgs) /\ o.console \in Seq(Msgs) /\ o.lost \in Seq(Msgs)
  BY DEF Outs
<1> DEFINE c == o.calls + 1
           f == o.faults + 1
           r == Append(o.received, m)
           k == Append(o.console, m)
           l == Append(o.lost, m)
<1>3. c \in Nat /\ f \in Nat /\ f # 0
  BY <1>1
<1>4. r \in Seq(Msgs) /\ k \in Seq(Msgs) /\ l \in Seq(Msgs)
  BY <1>2
<1>5. /\ [o EXCEPT !.calls = @ + 1] = [o EXCEPT !.calls = c]
      /\ [o EXCEPT !.faults = @ + 1] = [o EXCEPT !.faults = f]
      /\ [o EXCEPT !.received = Append(@, m)] = [o EXCEPT !.received = r]
      /\ [o EXCEPT !.console = Append(@, m)] = [o EXCEPT !.console = k]
      /\ [o EXCEPT !.lost = Append(@, m)] = [o EXCEPT !.lost = l]
  OBVIOUS
<1> HIDE DEF c, f, r, k, l
<1>6. [o EXCEPT !.calls = c] \in Outs /\ [o EXCEPT !.faults = f] \in Outs /\ [o EXCEPT !.faults = f].faults = f
  BY <1>3 DEF Outs
<1>7. [o EXCEPT !.received = r] \in Outs /\ [o EXCEPT !.console = k] \in Outs /\ [o EXCEPT !.lost = l] \in Outs
  BY <1>4 DEF Outs
<1> QED
  BY <1>3, <1>5, <1>6, <1>7

\* A message that waits for the lock: the mask and the tag are the only things
\* read and written outside the region.
LEMMA Waiting ==
  ASSUME SyslogTyped, NEW t \in Threads, sthr[t].pc \in {"idle", "again"},
         NEW p \in Pcs \ {"open", "send", "leave"}, NEW th \in {"idle", "again"}, NEW m \in Msgs,
         sthr' = [sthr EXCEPT ![t] = [pc |-> p, then |-> th, msg |-> m]],
         log' \in {log, [log EXCEPT !.Tag = "progname"]},
         sout' = [sout EXCEPT !.calls = @ + 1],
         UNCHANGED <<slock, sigpipe, sfds, daemon>>
  PROVE  SyslogTyped' /\ (Region => Region') /\ (Joined(State) => Joined(State)')
         /\ (Undisturbed => Undisturbed')
<1>1. /\ log' \in Logs /\ log'.Type = log.Type /\ log'.File = log.File
      /\ log'.connected = log.connected
  BY DEF SyslogTyped, Logs
<1>2. /\ sout' \in Outs
      /\ sout'.faults = sout.faults /\ sout'.console = sout.console /\ sout'.lost = sout.lost
  <2>1. sout' \in Outs
    BY OutSteps DEF SyslogTyped
  <2>2. sout'.faults = sout.faults /\ sout'.console = sout.console /\ sout'.lost = sout.lost
    BY DEF SyslogTyped, Outs
  <2> QED
    BY <2>1, <2>2
<1>3. sthr' \in [Threads -> [pc : Pcs, then : {"idle", "again"}, msg : Msgs]]
  BY DEF SyslogTyped
<1>4. \A u \in Threads : (sthr'[u].pc = sthr[u].pc /\ u # t) \/ (u = t /\ sthr'[u].pc = p)
  BY DEF SyslogTyped
<1>5. SyslogTyped'
  BY <1>1, <1>2, <1>3 DEF SyslogTyped
<1>6. Region => Region'
  BY <1>4 DEF Region, Inside
<1>7. (Joined(State) => Joined(State)') /\ (Lasting(State) => Lasting(State)')
  BY <1>1 DEF Joined, Lasting, State
<1>8. Undisturbed => Undisturbed'
  BY <1>1, <1>2, <1>4, <1>7 DEF Undisturbed
<1> QED
  BY <1>5, <1>6, <1>7, <1>8

\* The log changes while no thread is inside, or while nothing depends on it.
LEMMA LogChanges ==
  ASSUME SyslogInv, NEW s \in States, Joined(s), SyslogIs(s),
         sout.faults = 0 =>
           Lasting(s) /\ \A t \in Threads : sthr[t].pc = "send" => s.log.connected,
         UNCHANGED <<slock, sigpipe, sthr, daemon, sout>>
  PROVE  SyslogInv'
<1>1. sfds' = s.fds /\ log' = s.log /\ s.fds \in FdMaps /\ s.log \in Logs
  BY DEF SyslogIs, States
<1>2. SyslogTyped'
  BY <1>1 DEF SyslogInv, SyslogTyped
<1>3. Joined(State)' /\ (Lasting(s) => Lasting(State)')
  BY <1>1 DEF Joined, Lasting, State
<1>4. Region' /\ Undisturbed'
  BY <1>1, <1>3 DEF SyslogInv, Region, Inside, Undisturbed
<1> QED
  BY <1>2, <1>3, <1>4 DEF SyslogInv

\* Every step keeps the invariant.
LEMMA SyslogStep == SyslogInv /\ [SyslogNext]_syslogVars => SyslogInv'
<1> SUFFICES ASSUME SyslogInv, [SyslogNext]_syslogVars
             PROVE  SyslogInv'
  OBVIOUS
<1> USE ThreadsAssumption
<1>0. /\ SyslogTyped /\ Region /\ Joined(State) /\ Undisturbed
      /\ State \in States /\ State.log = log /\ State.fds = sfds
      /\ log \in Logs /\ daemon \in Daemons
      /\ sthr \in [Threads -> [pc : Pcs, then : {"idle", "again"}, msg : Msgs]]
      /\ sout \in Outs
  BY DEF SyslogInv, SyslogTyped, State, States
<1>m. NoMsg \in Msgs
  BY DEF NoMsg, Msgs
<1>1. ASSUME NEW t \in Threads, vsyslog(t)
      PROVE  SyslogInv'
  <2>1. PICK p \in Priorities, f \in Facilities :
          IF p \in log.Mask
          THEN /\ sthr' = [sthr EXCEPT ![t] = [pc |-> "lock", then |-> "idle", msg |->
                             [id |-> sout.calls + 1, pri |-> p, fac |-> IF f = "none" THEN log.Facility ELSE f]]]
               /\ log' = [log EXCEPT !.Tag = IF @ = "null" THEN "progname" ELSE @]
          ELSE sthr' = [sthr EXCEPT ![t].pc = "idle"] /\ UNCHANGED log
    BY <1>1 DEF vsyslog
  <2>2. sthr[t].pc \in {"idle", "again"} /\ sout' = [sout EXCEPT !.calls = @ + 1]
        /\ UNCHANGED <<slock, sigpipe, sfds, daemon>>
    BY <1>1 DEF vsyslog
  <2>3. CASE p \in log.Mask
    <3> DEFINE m == [id |-> sout.calls + 1, pri |-> p, fac |-> IF f = "none" THEN log.Facility ELSE f]
    <3>1. m \in Msgs
      BY <1>0 DEF Msgs, Logs, Outs
    <3>2. sthr' = [sthr EXCEPT ![t] = [pc |-> "lock", then |-> "idle", msg |-> m]]
      BY <2>1, <2>3
    <3>3. log' \in {log, [log EXCEPT !.Tag = "progname"]}
      BY <1>0, <2>1, <2>3 DEF Logs
    <3> HIDE DEF m
    <3> QED
      BY <1>0, <2>2, <3>1, <3>2, <3>3, Waiting DEF SyslogInv, Pcs
  <2>4. CASE p \notin log.Mask
    <3>1. sthr' = [sthr EXCEPT ![t] = [pc |-> "idle", then |-> sthr[t].then, msg |-> sthr[t].msg]]
      BY <1>0, <2>1, <2>4
    <3>2. sthr[t].then \in {"idle", "again"} /\ sthr[t].msg \in Msgs
      BY <1>0
    <3> QED
      BY <1>0, <2>1, <2>2, <2>4, <3>1, <3>2, Waiting DEF SyslogInv, Pcs
  <2> QED
    BY <2>3, <2>4
<1>2. ASSUME NEW t \in Threads, vsyslog_unknown(t)
      PROVE  SyslogInv'
  <2>2. sthr[t].pc \in {"idle", "again"} /\ sout' = [sout EXCEPT !.calls = @ + 1]
        /\ UNCHANGED <<slock, sigpipe, sfds, daemon>>
    BY <1>2 DEF vsyslog_unknown
  <2>3. CASE LOG_ERR \in log.Mask
    <3> DEFINE m == [id |-> sout.calls + 1, pri |-> LOG_ERR, fac |-> "auth"]
    <3>1. m \in Msgs
      BY <1>0 DEF Msgs, LOG_ERR, Outs
    <3>2. sthr' = [sthr EXCEPT ![t] = [pc |-> "lock", then |-> "again", msg |-> m]]
      BY <1>2, <2>3 DEF vsyslog_unknown
    <3>3. log' \in {log, [log EXCEPT !.Tag = "progname"]}
      BY <1>0, <1>2, <2>3 DEF Logs, vsyslog_unknown
    <3> HIDE DEF m
    <3> QED
      BY <1>0, <2>2, <3>1, <3>2, <3>3, Waiting DEF SyslogInv, Pcs
  <2>4. CASE LOG_ERR \notin log.Mask
    <3>1. sthr' = [sthr EXCEPT ![t] = [pc |-> "again", then |-> sthr[t].then, msg |-> sthr[t].msg]]
      BY <1>0, <1>2, <2>4 DEF vsyslog_unknown
    <3>2. sthr[t].then \in {"idle", "again"} /\ sthr[t].msg \in Msgs
      BY <1>0
    <3>3. log' = log
      BY <1>0, <1>2, <2>4 DEF Logs, vsyslog_unknown
    <3> QED
      BY <1>0, <2>2, <2>4, <3>1, <3>2, <3>3, Waiting DEF SyslogInv, Pcs
  <2> QED
    BY <2>3, <2>4
<1>3. ASSUME NEW t \in Threads, EnterRegion(t)
      PROVE  SyslogInv'
  <2>1. /\ slock' = t /\ sigpipe' = "syslog" /\ slock = "free" /\ sthr[t].pc = "lock"
        /\ sthr' = [sthr EXCEPT ![t].pc = "open"] /\ UNCHANGED <<log, sfds, daemon, sout>>
    BY <1>3 DEF EnterRegion
  <2>2. SyslogTyped'
    BY <1>0, <2>1 DEF SyslogTyped, Pcs
  <2>3. \A u \in Threads : sthr'[u].pc = IF u = t THEN "open" ELSE sthr[u].pc
    BY <1>0, <2>1
  <2>4. Joined(State)' /\ (Lasting(State) => Lasting(State)')
    BY <1>0, <2>1 DEF Joined, Lasting, State
  <2>5. Region'
    BY <1>0, <2>1, <2>3 DEF Region, Inside
  <2>6. Undisturbed'
    BY <1>0, <2>1, <2>3, <2>4 DEF Undisturbed
  <2> QED
    BY <2>2, <2>4, <2>5, <2>6 DEF SyslogInv
<1>4. ASSUME NEW t \in Threads, GetConnected(t)
      PROVE  SyslogInv'
  <2>1. /\ sthr[t].pc = "open" /\ sthr' = [sthr EXCEPT ![t].pc = "send"]
        /\ UNCHANGED <<slock, sigpipe, daemon, sout>>
    BY <1>4 DEF GetConnected
  <2>2. PICK s \in States : /\ Joined(s) /\ sfds' = s.fds /\ log' = s.log
                            /\ sout.faults = 0 => Lasting(s) /\ s.log.connected
    <3>1. CASE log.connected
      BY <1>0, <1>4, <3>1 DEF GetConnected, Undisturbed
    <3>2. CASE ~log.connected
      <4> DEFINE r == openlog_internal(State, log.Tag, log.Stat \cup {"ndelay"}, "none")
      <4>1. sfds' = r.fds /\ log' = r.log
        BY <1>4, <3>2 DEF GetConnected, SyslogIs
      <4>2. log.Tag \in {"null", "tag", "progname"} /\ log.Stat \cup {"ndelay"} \in SUBSET {"ndelay", "cons"}
        BY <1>0 DEF Logs
      <4>3. /\ r \in States /\ Joined(r)
            /\ daemon.type # "down" /\ Lasting(State) => Lasting(r) /\ r.log.connected
        BY <1>0, <4>2, OpenLogResult
      <4> HIDE DEF r
      <4> QED
        BY <1>0, <4>1, <4>3 DEF Undisturbed
    <3> QED
      BY <3>1, <3>2
  <2>3. SyslogTyped'
    BY <1>0, <2>1, <2>2 DEF SyslogTyped, Pcs, States
  <2>4. Joined(State)' /\ (Lasting(s) => Lasting(State)')
    BY <1>0, <2>1, <2>2 DEF Joined, Lasting, State
  <2>5. \A u \in Threads : sthr'[u].pc = IF u = t THEN "send" ELSE sthr[u].pc
    BY <1>0, <2>1
  <2>6. Region'
    BY <1>0, <2>1, <2>5 DEF Region, Inside
  <2>7. Undisturbed'
    BY <1>0, <2>1, <2>2, <2>4, <2>5 DEF Undisturbed
  <2> QED
    BY <2>3, <2>4, <2>6, <2>7 DEF SyslogInv
<1>5. ASSUME NEW t \in Threads, Send(t)
      PROVE  SyslogInv'
  <2> DEFINE ok == log.File # NoFd /\ sfds[log.File] = daemon.life /\ daemon.type = log.Type
  <2>1. /\ sthr[t].pc = "send" /\ sthr' = [sthr EXCEPT ![t].pc = "leave"]
        /\ UNCHANGED <<slock, sigpipe, daemon>>
    BY <1>5 DEF Send
  <2>2. sthr[t].msg \in Msgs
    BY <1>0
  <2>3. \A u \in Threads : sthr'[u].pc = (IF u = t THEN "leave" ELSE sthr[u].pc)
    BY <1>0, <2>1
  <2>4. Region'
    BY <1>0, <2>1, <2>3 DEF Region, Inside
  <2>5. sthr' \in [Threads -> [pc : Pcs, then : {"idle", "again"}, msg : Msgs]]
    BY <1>0, <2>1 DEF Pcs
  <2>6. sout.faults = 0 => ok /\ log.connected
    BY <1>0, <2>1 DEF Undisturbed, Lasting, Joined
  <2>7. CASE ok
    <3>1. log' = log /\ sfds' = sfds /\ sout' = [sout EXCEPT !.received = Append(@, sthr[t].msg)]
      BY <1>5, <2>7 DEF Send
    <3>2. /\ sout' \in Outs
          /\ sout'.console = sout.console /\ sout'.lost = sout.lost /\ sout'.faults = sout.faults
      <4>1. sout' \in Outs
        BY <1>0, <2>2, <3>1, OutSteps
      <4>2. sout'.console = sout.console /\ sout'.lost = sout.lost /\ sout'.faults = sout.faults
        BY <1>0, <3>1 DEF Outs
      <4> QED
        BY <4>1, <4>2
    <3>3. SyslogTyped'
      BY <1>0, <2>1, <2>5, <3>1, <3>2 DEF SyslogTyped
    <3>4. Joined(State)' /\ (Lasting(State) => Lasting(State)')
      BY <1>0, <2>1, <3>1 DEF Joined, Lasting, State
    <3>5. Undisturbed'
      BY <1>0, <2>1, <2>3, <3>1, <3>2, <3>4 DEF Undisturbed
    <3> QED
      BY <2>4, <3>3, <3>4, <3>5 DEF SyslogInv
  <2>8. CASE ~ok
    <3>1. SyslogIs(closelog_internal(State))
          /\ (sout' = [sout EXCEPT !.console = Append(@, sthr[t].msg)] \/ sout' = [sout EXCEPT !.lost = Append(@, sthr[t].msg)])
      BY <1>5, <2>8 DEF Send
    <3>2. /\ sout' \in Outs
          /\ sout'.faults = sout.faults
      <4>1. sout' \in Outs
        BY <1>0, <2>2, <3>1, OutSteps
      <4>2. sout'.faults = sout.faults
        BY <1>0, <3>1 DEF Outs
      <4> QED
        BY <4>1, <4>2
    <3>3. PICK s \in States : Joined(s) /\ sfds' = s.fds /\ log' = s.log
      BY <1>0, <3>1, Closing DEF SyslogIs
    <3>4. SyslogTyped'
      BY <1>0, <2>1, <2>5, <3>2, <3>3 DEF SyslogTyped, States
    <3>5. Joined(State)'
      BY <3>3 DEF Joined, State
    <3>6. Undisturbed'
      BY <2>6, <2>8, <3>2 DEF Undisturbed
    <3> QED
      BY <2>4, <3>4, <3>5, <3>6 DEF SyslogInv
  <2> QED
    BY <2>7, <2>8
<1>6. ASSUME NEW t \in Threads, LeaveRegion(t)
      PROVE  SyslogInv'
  <2>1. /\ sthr[t].pc = "leave" /\ slock' = "free" /\ sigpipe' = "user"
        /\ sthr' = [sthr EXCEPT ![t] = [pc |-> sthr[t].then, then |-> "idle", msg |-> NoMsg]]
        /\ UNCHANGED <<log, sfds, daemon, sout>>
    BY <1>6 DEF LeaveRegion
  <2>2. NoMsg \in Msgs /\ sthr[t].then \in {"idle", "again"}
    BY <1>0 DEF NoMsg, Msgs
  <2>3. SyslogTyped'
    BY <1>0, <2>1, <2>2 DEF SyslogTyped, Pcs
  <2>4. \A u \in Threads : sthr'[u].pc = IF u = t THEN sthr[t].then ELSE sthr[u].pc
    BY <1>0, <2>1
  <2>5. Joined(State)' /\ (Lasting(State) => Lasting(State)')
    BY <1>0, <2>1 DEF Joined, Lasting, State
  <2>6. Region'
    BY <1>0, <2>1, <2>2, <2>4 DEF Region, Inside
  <2>7. Undisturbed'
    BY <1>0, <2>1, <2>2, <2>4, <2>5 DEF Undisturbed
  <2> QED
    BY <2>3, <2>5, <2>6, <2>7 DEF SyslogInv
<1>7. ASSUME NEW t \in Threads, openlog(t)
      PROVE  SyslogInv'
  <2>1. PICK stat \in {{}, {"ndelay", "cons"}}, fac \in Facilities :
          SyslogIs(openlog_internal(State, "tag", stat, fac))
    BY <1>7 DEF openlog
  <2> DEFINE r == openlog_internal(State, "tag", stat, fac)
  <2>2. /\ r \in States /\ Joined(r)
        /\ daemon.type # "down" /\ Lasting(State) => Lasting(r)
    BY <1>0, OpenLogResult
  <2>3. \A u \in Threads : sthr[u].pc # "send"
    BY <1>0, <1>7 DEF openlog, Region, Inside
  <2>4. SyslogIs(r) /\ UNCHANGED <<slock, sigpipe, sthr, daemon, sout>>
    BY <1>7, <2>1 DEF openlog
  <2> HIDE DEF r
  <2> QED
    BY <1>0, <2>2, <2>3, <2>4, LogChanges DEF Undisturbed
<1>8. ASSUME NEW t \in Threads, closelog(t)
      PROVE  SyslogInv'
  <2> DEFINE r == closelog_internal(State)
  <2>1. /\ r \in States /\ Joined(r)
        /\ Lasting(State) => Lasting(r)
    BY <1>0, Closing
  <2>2. \A u \in Threads : sthr[u].pc # "send"
    BY <1>0, <1>8 DEF closelog, Region, Inside
  <2>3. SyslogIs(r) /\ UNCHANGED <<slock, sigpipe, sthr, daemon, sout>>
    BY <1>8 DEF closelog
  <2> HIDE DEF r
  <2> QED
    BY <1>0, <2>1, <2>2, <2>3, LogChanges DEF Undisturbed
<1>9. ASSUME NEW t \in Threads, setlogmask(t)
      PROVE  SyslogInv'
  <2>1. PICK m \in {Priorities, {LOG_ERR}} : log' = [log EXCEPT !.Mask = m]
    BY <1>9 DEF setlogmask
  <2>2. UNCHANGED <<slock, sigpipe, sthr, sfds, daemon, sout>>
    BY <1>9 DEF setlogmask
  <2> DEFINE s == [fds |-> sfds, log |-> [log EXCEPT !.Mask = m]]
  <2>3. /\ s \in States /\ s.fds = sfds /\ s.log = log'
        /\ s.log.Type = log.Type /\ s.log.File = log.File /\ s.log.connected = log.connected
    BY <1>0, <2>1 DEF States, Logs
  <2> HIDE DEF s
  <2>4. Joined(s) /\ (Lasting(State) => Lasting(s)) /\ SyslogIs(s)
    BY <1>0, <2>2, <2>3 DEF Joined, Lasting, SyslogIs
  <2> QED
    BY <1>0, <2>2, <2>3, <2>4, LogChanges DEF Undisturbed
<1>10. CASE sigpipe_handler
  <2>1. PICK s \in States : Joined(s) /\ sfds' = s.fds /\ log' = s.log
    BY <1>0, <1>10, Closing DEF SyslogIs, sigpipe_handler
  <2>2. sout' = [sout EXCEPT !.faults = @ + 1] /\ UNCHANGED <<slock, sigpipe, sthr, daemon>>
    BY <1>10 DEF sigpipe_handler
  <2>3. /\ sout' \in Outs
        /\ sout'.faults # 0
    BY <1>0, <1>m, <2>2, OutSteps
  <2>4. SyslogTyped'
    BY <1>0, <2>1, <2>2, <2>3 DEF SyslogTyped, States
  <2>5. Joined(State)' /\ Region' /\ Undisturbed'
    BY <1>0, <2>1, <2>2, <2>3 DEF Joined, State, Region, Inside, Undisturbed
  <2> QED
    BY <2>4, <2>5 DEF SyslogInv
<1>11. CASE DaemonChanges
  <2>1. /\ sout' = [sout EXCEPT !.faults = @ + 1] /\ UNCHANGED <<log, slock, sigpipe, sthr, sfds>>
        /\ \E type \in {"dgram", "stream", "down"} : daemon' = [type |-> type, life |-> daemon.life + 1]
    BY <1>11 DEF DaemonChanges
  <2>2. /\ sout' \in Outs
        /\ sout'.faults # 0
    BY <1>0, <1>m, <2>1, OutSteps
  <2>3. daemon' \in Daemons
    BY <1>0, <2>1 DEF Daemons
  <2>4. SyslogTyped'
    BY <1>0, <2>1, <2>2, <2>3 DEF SyslogTyped
  <2>5. Joined(State)' /\ Region' /\ Undisturbed'
    BY <1>0, <2>1, <2>2 DEF Joined, State, Region, Inside, Undisturbed
  <2> QED
    BY <2>4, <2>5 DEF SyslogInv
<1>12. CASE UNCHANGED syslogVars
  BY <1>12 DEF syslogVars, SyslogInv, SyslogTyped, Region, Inside, Joined, Lasting, State, Undisturbed
<1> QED
  BY <1>1, <1>2, <1>3, <1>4, <1>5, <1>6, <1>7, <1>8, <1>9, <1>10, <1>11, <1>12 DEF SyslogNext

\* The invariant holds at first.
LEMMA SyslogStart == SyslogInit => SyslogInv
<1> SUFFICES ASSUME SyslogInit
             PROVE  SyslogInv
  OBVIOUS
<1> USE ThreadsAssumption
<1>1. /\ log \in Logs /\ log.File = NoFd /\ log.connected = FALSE /\ log.Type = "dgram"
      /\ sfds = [f \in {} |-> 0] /\ sfds \in FdMaps /\ DOMAIN sfds = {}
  BY DEF SyslogInit, SyslogRest, Logs, FdMaps
<1>2. daemon \in Daemons /\ daemon.type # "down"
  BY DEF SyslogInit, Daemons
<1>3. NoMsg \in Msgs
  BY DEF NoMsg, Msgs
<1>4. sthr \in [Threads -> [pc : Pcs, then : {"idle", "again"}, msg : Msgs]]
      /\ \A t \in Threads : sthr[t].pc = "idle"
  BY <1>3 DEF SyslogInit, SyslogRest, Pcs
<1>5. sout \in Outs
      /\ sout.console = <<>> /\ sout.lost = <<>>
  <2>1. sout = [calls |-> 0, received |-> <<>>, console |-> <<>>, lost |-> <<>>, faults |-> 0]
    BY DEF SyslogInit, SyslogRest
  <2> QED
    BY <2>1 DEF Outs
<1>6. slock = "free" /\ sigpipe = "user"
  BY DEF SyslogInit, SyslogRest
<1>7. SyslogTyped
  BY <1>1, <1>2, <1>4, <1>5, <1>6 DEF SyslogTyped
<1>8. Joined(State) /\ Lasting(State)
  BY <1>1 DEF Joined, Lasting, State
<1> QED
  BY <1>2, <1>4, <1>5, <1>6, <1>7, <1>8 DEF SyslogInv, Region, Inside, Undisturbed

\* Whatever threads, the daemon and signals do, the client has one socket at
\* most, connected when it says so, and the user's handler outside the region.
THEOREM ConnectionIsKept == SyslogSpec => []ConnectionKept
<1>1. SyslogInv => ConnectionKept
  <2> SUFFICES ASSUME SyslogInv
               PROVE  ConnectionKept
    OBVIOUS
  <2>1. slock # "free" <=> \E t \in Threads : sthr[t].pc \in {"open", "send", "leave"}
    BY ThreadsAssumption DEF SyslogInv, SyslogTyped, Region, Inside
  <2>2. /\ DOMAIN sfds = {log.File} \ {NoFd} /\ (log.connected <=> log.File # NoFd)
        /\ log.connected => sfds[log.File] > 0
    BY DEF SyslogInv, Joined, State
  <2> QED
    BY <2>1, <2>2 DEF SyslogInv, Region, ConnectionKept
<1> QED
  BY <1>1, SyslogStart, SyslogStep, PTL DEF SyslogSpec

-----------------------------------------------------------------------------
(* Messages have the number of the call that made them.                    *)

Without(q, i) == \A n \in 1..Len(q) : q[n].id # i
OneEach(q) == \A m, n \in 1..Len(q) : q[m].id = q[n].id => m = n
Apart(q, r) == \A m \in 1..Len(q), n \in 1..Len(r) : q[m].id # r[n].id
UpTo(q, n) == \A m \in 1..Len(q) : q[m].id \in 1..n
Pending == {t \in Threads : sthr[t].pc \in {"lock", "open", "send"}}

\* No two messages have the same number, wherever they ended up, and none has
\* the number of a message that a thread has still to send.
EachOnce(o) ==
  /\ OneEach(o.received) /\ OneEach(o.console) /\ OneEach(o.lost)
  /\ Apart(o.received, o.console) /\ Apart(o.received, o.lost) /\ Apart(o.console, o.lost)
NoneHas(o, i) == Without(o.received, i) /\ Without(o.console, i) /\ Without(o.lost, i)
Made(o) == UpTo(o.received, o.calls) /\ UpTo(o.console, o.calls) /\ UpTo(o.lost, o.calls)

Numbered ==
  /\ EachOnce(sout) /\ Made(sout)
  /\ \A t \in Pending : /\ sthr[t].msg.id \in 1..sout.calls
                        /\ NoneHas(sout, sthr[t].msg.id)
                        /\ \A u \in Pending : sthr[u].msg.id = sthr[t].msg.id => u = t

\* A message with a number of its own joins one of the lists.
LEMMA Joining ==
  ASSUME NEW q \in Seq(Msgs), NEW r \in Seq(Msgs), NEW m \in Msgs, NEW c \in Nat
  PROVE  /\ OneEach(q) /\ Without(q, m.id) => OneEach(Append(q, m))
         /\ Apart(q, r) /\ Without(r, m.id) => Apart(Append(q, m), r)
         /\ Apart(r, q) /\ Without(r, m.id) => Apart(r, Append(q, m))
         /\ UpTo(q, c) /\ m.id \in 1..c => UpTo(Append(q, m), c)
         /\ \A i : Without(q, i) /\ i # m.id => Without(Append(q, m), i)
<1> DEFINE a == Append(q, m)
<1>1. /\ Len(q) \in Nat /\ Len(r) \in Nat /\ Len(a) = Len(q) + 1
      /\ \A n \in 1..Len(q) : a[n] = q[n]
      /\ a[Len(q) + 1] = m
  OBVIOUS
<1>2. \A n \in 1..Len(a) : n \in 1..Len(q) \/ n = Len(q) + 1
  BY <1>1
<1> HIDE DEF a
<1>3. OneEach(q) /\ Without(q, m.id) => OneEach(a)
  BY <1>1, <1>2 DEF OneEach, Without
<1>4. Apart(q, r) /\ Without(r, m.id) => Apart(a, r)
  BY <1>1, <1>2 DEF Apart, Without
<1>5. Apart(r, q) /\ Without(r, m.id) => Apart(r, a)
  BY <1>1, <1>2 DEF Apart, Without
<1>6. UpTo(q, c) /\ m.id \in 1..c => UpTo(a, c)
  BY <1>1, <1>2 DEF UpTo
<1>7. ASSUME NEW i, Without(q, i), i # m.id
      PROVE  Without(a, i)
  BY <1>1, <1>2, <1>7 DEF Without
<1> QED
  BY <1>3, <1>4, <1>5, <1>6, <1>7 DEF a

\* A new message has a number that no list has yet.
LEMMA NewNumber ==
  ASSUME NEW o \in Outs, Made(o)
  PROVE  NoneHas(o, o.calls + 1) /\ Made([o EXCEPT !.calls = @ + 1])
<1>1. o.calls \in Nat
  BY DEF Outs
<1> DEFINE c == o.calls + 1
           p == [o EXCEPT !.calls = c]
<1>2. c \in Nat /\ c \notin 1..o.calls /\ 1..o.calls \subseteq 1..c
  BY <1>1
<1> HIDE DEF c
<1>3. p.calls = c /\ p.received = o.received /\ p.console = o.console /\ p.lost = o.lost
  BY DEF Outs
<1>4. [o EXCEPT !.calls = @ + 1] = p
  BY DEF c
<1> HIDE DEF p
<1>5. NoneHas(o, c)
  BY <1>2 DEF NoneHas, Without, Made, UpTo
<1>6. Made(p)
  BY <1>2, <1>3 DEF Made, UpTo
<1> QED
  BY <1>4, <1>5, <1>6 DEF c

\* Every step keeps Numbered.
LEMMA NumberedStep == SyslogInv /\ Numbered /\ [SyslogNext]_syslogVars => Numbered'
<1> SUFFICES ASSUME SyslogInv, Numbered, [SyslogNext]_syslogVars
             PROVE  Numbered'
  OBVIOUS
<1>0. /\ sthr \in [Threads -> [pc : Pcs, then : {"idle", "again"}, msg : Msgs]]
      /\ sout \in Outs /\ sout.calls \in Nat /\ log \in Logs
      /\ \A t \in Threads : sthr[t].msg \in Msgs /\ sthr[t].msg.id \in Nat
      /\ EachOnce(sout) /\ Made(sout)
  BY DEF SyslogInv, SyslogTyped, Outs, Msgs, Numbered
\* A step that adds no message and takes none away.
<1>a. ASSUME sout' = sout, \A t \in Pending' : t \in Pending /\ sthr'[t].msg = sthr[t].msg
      PROVE  Numbered'
  BY <1>a DEF Numbered
\* A call that makes a message, which waits for the lock, or none.
<1>b. ASSUME NEW t \in Threads, sout' = [sout EXCEPT !.calls = @ + 1],
             sthr[t].pc \in {"idle", "again"},
             \A u \in Threads : u # t => sthr'[u] = sthr[u],
             sthr'[t].pc = "lock" => sthr'[t].msg.id = sout.calls + 1,
             sthr'[t].pc \in {"idle", "again", "lock"}
      PROVE  Numbered'
  <2>1. /\ sout'.received = sout.received /\ sout'.console = sout.console /\ sout'.lost = sout.lost
        /\ sout'.calls = sout.calls + 1
    BY <1>0, <1>b DEF Outs
  <2>2. EachOnce(sout') /\ (\A i : NoneHas(sout, i) => NoneHas(sout', i))
    BY <1>0, <2>1 DEF EachOnce, NoneHas
  <2>3. Made(sout') /\ NoneHas(sout, sout.calls + 1)
    BY <1>0, <1>b, NewNumber
  <2>4. ASSUME NEW u \in Pending'
        PROVE  /\ u # t => u \in Pending /\ sthr'[u].msg.id = sthr[u].msg.id /\ sthr[u].msg.id \in 1..sout.calls
               /\ u = t => sthr'[u].msg.id = sout.calls + 1
    BY <1>b, <2>4 DEF Pending, Numbered
  <2>5. ASSUME NEW u \in Pending'
        PROVE  /\ sthr'[u].msg.id \in 1..sout.calls + 1
               /\ NoneHas(sout, sthr'[u].msg.id)
               /\ \A v \in Pending' : sthr'[v].msg.id = sthr'[u].msg.id => v = u
    <3>1. sthr'[u].msg.id \in 1..sout.calls + 1
      BY <1>0, <2>4
    <3>2. NoneHas(sout, sthr'[u].msg.id)
      BY <2>3, <2>4 DEF Numbered
    <3>3. ASSUME NEW v \in Pending', sthr'[v].msg.id = sthr'[u].msg.id
          PROVE  v = u
      BY <1>0, <2>4, <3>3 DEF Numbered
    <3> QED
      BY <3>1, <3>2, <3>3
  <2> QED
    BY <2>1, <2>2, <2>3, <2>5 DEF Numbered
<1>1. ASSUME NEW t \in Threads, vsyslog(t)
      PROVE  Numbered'
  <2>1. PICK p \in Priorities, f \in Facilities :
          \/ sthr' = [sthr EXCEPT ![t] = [pc |-> "lock", then |-> "idle", msg |->
                             [id |-> sout.calls + 1, pri |-> p, fac |-> IF f = "none" THEN log.Facility ELSE f]]]
          \/ sthr' = [sthr EXCEPT ![t].pc = "idle"]
    BY <1>1 DEF vsyslog
  <2>2. /\ \A u \in Threads : u # t => sthr'[u] = sthr[u]
        /\ sthr'[t].pc = "lock" => sthr'[t].msg.id = sout.calls + 1
        /\ sthr'[t].pc \in {"idle", "again", "lock"}
    BY <1>0, <2>1
  <2>3. sthr[t].pc \in {"idle", "again"} /\ sout' = [sout EXCEPT !.calls = @ + 1]
    BY <1>1 DEF vsyslog
  <2> QED
    BY <1>b, <2>2, <2>3
<1>2. ASSUME NEW t \in Threads, vsyslog_unknown(t)
      PROVE  Numbered'
  <2>1. \/ sthr' = [sthr EXCEPT ![t] = [pc |-> "lock", then |-> "again", msg |->
                             [id |-> sout.calls + 1, pri |-> LOG_ERR, fac |-> "auth"]]]
        \/ sthr' = [sthr EXCEPT ![t].pc = "again"]
    BY <1>2 DEF vsyslog_unknown
  <2>2. /\ \A u \in Threads : u # t => sthr'[u] = sthr[u]
        /\ sthr'[t].pc = "lock" => sthr'[t].msg.id = sout.calls + 1
        /\ sthr'[t].pc \in {"idle", "again", "lock"}
    BY <1>0, <2>1
  <2>3. sthr[t].pc \in {"idle", "again"} /\ sout' = [sout EXCEPT !.calls = @ + 1]
    BY <1>2 DEF vsyslog_unknown
  <2> QED
    BY <1>b, <2>2, <2>3
<1>3. ASSUME NEW t \in Threads, EnterRegion(t) \/ GetConnected(t)
      PROVE  Numbered'
  <2>1. /\ sthr[t].pc \in {"lock", "open"} /\ sout' = sout
        /\ \E q \in {"open", "send"} : sthr' = [sthr EXCEPT ![t].pc = q]
    BY <1>3 DEF EnterRegion, GetConnected
  <2> QED
    BY <1>0, <1>a, <2>1 DEF Pending
<1>4. ASSUME NEW t \in Threads, LeaveRegion(t)
      PROVE  Numbered'
  <2>1. /\ sthr' = [sthr EXCEPT ![t] = [pc |-> sthr[t].then, then |-> "idle", msg |-> NoMsg]]
        /\ sthr[t].then \in {"idle", "again"} /\ sout' = sout
    BY <1>0, <1>4 DEF LeaveRegion
  <2> QED
    BY <1>0, <1>a, <2>1 DEF Pending
<1>5. ASSUME NEW t \in Threads, openlog(t) \/ closelog(t) \/ setlogmask(t)
      PROVE  Numbered'
  BY <1>a, <1>5 DEF openlog, closelog, setlogmask, Pending
<1>6. ASSUME NEW t \in Threads, Send(t)
      PROVE  Numbered'
  <2> DEFINE m == sthr[t].msg
  <2>1. /\ sthr[t].pc = "send" /\ sthr' = [sthr EXCEPT ![t].pc = "leave"]
        /\ \/ sout' = [sout EXCEPT !.received = Append(@, m)]
           \/ sout' = [sout EXCEPT !.console = Append(@, m)]
           \/ sout' = [sout EXCEPT !.lost = Append(@, m)]
    BY <1>6 DEF Send
  <2>2. t \in Pending /\ m \in Msgs /\ m.id \in 1..sout.calls /\ NoneHas(sout, m.id)
    BY <1>0, <2>1 DEF Pending, Numbered
  <2>3. \A u \in Pending' : u \in Pending /\ u # t /\ sthr'[u].msg = sthr[u].msg
    BY <1>0, <2>1 DEF Pending
  <2>4. \A u \in Pending' : sthr[u].msg.id # m.id
    BY <2>2, <2>3 DEF Numbered
  <2> HIDE DEF m
  <2>5. sout.received \in Seq(Msgs) /\ sout.console \in Seq(Msgs) /\ sout.lost \in Seq(Msgs)
    BY <1>0 DEF Outs
  <2>6. /\ EachOnce(sout') /\ Made(sout') /\ sout'.calls = sout.calls
        /\ \A i : NoneHas(sout, i) /\ i # m.id => NoneHas(sout', i)
    <3>1. CASE sout' = [sout EXCEPT !.received = Append(@, m)]
      <4>1. /\ sout'.received = Append(sout.received, m) /\ sout'.console = sout.console
            /\ sout'.lost = sout.lost /\ sout'.calls = sout.calls
        BY <1>0, <3>1 DEF Outs
      <4> QED
        BY <1>0, <2>2, <2>5, <4>1, Joining DEF EachOnce, NoneHas, Made
    <3>2. CASE sout' = [sout EXCEPT !.console = Append(@, m)]
      <4>1. /\ sout'.console = Append(sout.console, m) /\ sout'.received = sout.received
            /\ sout'.lost = sout.lost /\ sout'.calls = sout.calls
        BY <1>0, <3>2 DEF Outs
      <4> QED
        BY <1>0, <2>2, <2>5, <4>1, Joining DEF EachOnce, NoneHas, Made
    <3>3. CASE sout' = [sout EXCEPT !.lost = Append(@, m)]
      <4>1. /\ sout'.lost = Append(sout.lost, m) /\ sout'.received = sout.received
            /\ sout'.console = sout.console /\ sout'.calls = sout.calls
        BY <1>0, <3>3 DEF Outs
      <4> QED
        BY <1>0, <2>2, <2>5, <4>1, Joining DEF EachOnce, NoneHas, Made
    <3> QED
      BY <2>1, <3>1, <3>2, <3>3
  <2> QED
    BY <2>3, <2>4, <2>6 DEF Numbered
<1>7. CASE sigpipe_handler \/ DaemonChanges
  <2>1. sout' = [sout EXCEPT !.faults = @ + 1] /\ sthr' = sthr
    BY <1>7 DEF sigpipe_handler, DaemonChanges
  <2>2. /\ sout'.received = sout.received /\ sout'.console = sout.console /\ sout'.lost = sout.lost
        /\ sout'.calls = sout.calls
    BY <1>0, <2>1 DEF Outs
  <2>3. EachOnce(sout') /\ Made(sout') /\ \A i : NoneHas(sout, i) => NoneHas(sout', i)
    BY <1>0, <2>2 DEF EachOnce, Made, NoneHas
  <2> QED
    BY <2>1, <2>2, <2>3 DEF Numbered, Pending
<1>8. CASE UNCHANGED syslogVars
  BY <1>a, <1>8 DEF syslogVars, Pending
<1> QED
  BY <1>1, <1>2, <1>3, <1>4, <1>5, <1>6, <1>7, <1>8 DEF SyslogNext

\* Two lists that have nothing in common make one list.
LEMMA Together ==
  ASSUME NEW q \in Seq(Msgs), NEW r \in Seq(Msgs), OneEach(q), OneEach(r), Apart(q, r)
  PROVE  OneEach(q \o r)
<1> DEFINE c == q \o r
<1>1. /\ Len(q) \in Nat /\ Len(r) \in Nat /\ Len(c) = Len(q) + Len(r)
      /\ \A n \in 1..Len(q) : c[n] = q[n]
      /\ \A n \in Len(q) + 1..Len(c) : n - Len(q) \in 1..Len(r) /\ c[n] = r[n - Len(q)]
  OBVIOUS
<1>2. \A n \in 1..Len(c) : n \in 1..Len(q) \/ n \in Len(q) + 1..Len(c)
  BY <1>1
<1> HIDE DEF c
<1>3. ASSUME NEW m \in 1..Len(c), NEW n \in 1..Len(c), c[m].id = c[n].id
      PROVE  m = n
  <2>1. CASE m \in 1..Len(q) /\ n \in 1..Len(q)
    BY <1>1, <1>3, <2>1 DEF OneEach
  <2>2. CASE m \in 1..Len(q) /\ n \in Len(q) + 1..Len(c)
    BY <1>1, <1>3, <2>2 DEF Apart
  <2>3. CASE n \in 1..Len(q) /\ m \in Len(q) + 1..Len(c)
    BY <1>1, <1>3, <2>3 DEF Apart
  <2>4. CASE m \in Len(q) + 1..Len(c) /\ n \in Len(q) + 1..Len(c)
    <3> DEFINE i == m - Len(q)
               j == n - Len(q)
    <3>1. i \in 1..Len(r) /\ j \in 1..Len(r) /\ r[i].id = r[j].id
      BY <1>1, <1>3, <2>4
    <3>2. i = j
      <4> HIDE DEF i, j
      <4> QED
        BY <3>1 DEF OneEach
    <3> QED
      BY <1>1, <3>2
  <2> QED
    BY <1>2, <2>1, <2>2, <2>3, <2>4
<1> QED
  BY <1>3 DEF OneEach, c

\* Nothing is lost while nothing goes wrong, and no message arrives twice or
\* in two places, whatever the daemon and the threads do.
THEOREM MessagesAreAccounted == SyslogSpec => []MessagesAccounted
<1>1. SyslogInit => Numbered
  <2> SUFFICES ASSUME SyslogInit
               PROVE  Numbered
    OBVIOUS
  <2>1. /\ sout.received = <<>> /\ sout.console = <<>> /\ sout.lost = <<>>
        /\ \A t \in Threads : sthr[t].pc = "idle"
    BY DEF SyslogInit, SyslogRest
  <2> QED
    BY <2>1 DEF Numbered, Pending, EachOnce, Made, OneEach, Apart, UpTo
<1>2. SyslogInv /\ Numbered => MessagesAccounted
  <2> SUFFICES ASSUME SyslogInv, Numbered
               PROVE  MessagesAccounted
    OBVIOUS
  <2> DEFINE a == sout.received
             b == sout.console
             c == sout.lost
             ab == a \o b
             all == ab \o c
  <2>1. a \in Seq(Msgs) /\ b \in Seq(Msgs) /\ c \in Seq(Msgs)
    BY DEF SyslogInv, SyslogTyped, Outs
  <2>2. OneEach(a) /\ OneEach(b) /\ OneEach(c) /\ Apart(a, b) /\ Apart(a, c) /\ Apart(b, c)
    BY DEF Numbered, EachOnce
  <2>3. all = a \o b \o c
    OBVIOUS
  <2> HIDE DEF a, b, c
  <2>4. ab \in Seq(Msgs) /\ OneEach(ab)
    BY <2>1, <2>2, Together
  <2>5. Apart(ab, c)
    <3>1. /\ Len(a) \in Nat /\ Len(b) \in Nat /\ Len(ab) = Len(a) + Len(b)
          /\ \A n \in 1..Len(ab) : \/ n \in 1..Len(a) /\ ab[n] = a[n]
                                   \/ n - Len(a) \in 1..Len(b) /\ ab[n] = b[n - Len(a)]
      BY <2>1
    <3> HIDE DEF ab
    <3> QED
      BY <2>2, <3>1 DEF Apart
  <2> HIDE DEF ab
  <2>6. OneEach(all) /\ all \in Seq(Msgs)
    BY <2>1, <2>2, <2>4, <2>5, Together
  <2>7. DOMAIN all = 1..Len(all)
    BY <2>6
  <2> HIDE DEF all
  <2>8. \A m, n \in DOMAIN all : all[m].id = all[n].id => m = n
    BY <2>6, <2>7 DEF OneEach
  <2>9. sout.faults = 0 => sout.lost = <<>> /\ sout.console = <<>>
    BY DEF SyslogInv, Undisturbed
  <2>10. log.Type = "stream" => daemon.type = "stream" \/ sout.faults > 0
    <3>1. sout.faults \in Nat
      BY DEF SyslogInv, SyslogTyped, Outs
    <3> QED
      BY <3>1 DEF SyslogInv, Undisturbed, Lasting, State
  <2> QED
    BY <2>3, <2>8, <2>9, <2>10 DEF MessagesAccounted, a, b, c
<1> QED
  BY <1>1, <1>2, SyslogStart, SyslogStep, NumberedStep, PTL DEF SyslogSpec

-----------------------------------------------------------------------------
(* The inotify sample.                                                     *)

NoteEvents == [id : Nat, mask : EventMasks \cup {{}}]
Printed == {handle_event(e) : e \in NoteEvents}
Places == 0..Capacity - 1
Queues == [array : [Places -> NoteEvents], front : Places, rear : Places, size : 0..Capacity]
Fit(b) == SubSeq(b, 1, IF Len(b) < Capacity THEN Len(b) ELSE Capacity)

\* The i-th place from the front f of the ring.
PlaceAt(f, i) == IF f + i < Capacity THEN f + i ELSE f + i - Capacity
\* The front and the rear of a queue are as far apart as its size says.
Joins(q) == PlaceAt(q.front, q.size) = next_position(q.rear)

\* What was printed and what waits are, in order, what was kept of the reads.
Waits(q, k, n) == \A i \in 1..q.size : q.array[PlaceAt(q.front, i - 1)] = k[n + i]
PrintedAs(p, k) == \A n \in 1..Len(p) : p[n] = handle_event(k[n])
FromReads(k, bs) == \A n \in 1..Len(k) : \E b \in Range(bs) : k[n] \in Range(b)

InotifyTyped ==
  /\ iq \in Queues /\ device \in Seq(NoteEvents) /\ batches \in Seq(Seq(NoteEvents)) /\ printed \in Seq(Printed)
  /\ ipc \in {"start", "watch", "handle", "check", "read", "broken", "ended"}
InotifyInv ==
  /\ InotifyTyped /\ Joins(iq)
  /\ ipc # "handle" => iq.size = 0
  /\ Len(KeptOf(batches)) = Len(printed) + iq.size
  /\ PrintedAs(printed, KeptOf(batches)) /\ Waits(iq, KeptOf(batches), Len(printed))
  /\ FromReads(KeptOf(batches), batches)

\* The places of the ring.
LEMMA RingPlaces ==
  /\ \A f \in Places, i \in 0..Capacity : PlaceAt(f, i) \in Places
  /\ \A f \in Places, i \in 0..Capacity - 1 : next_position(PlaceAt(f, i)) = PlaceAt(f, i + 1)
  /\ \A f \in Places, i, j \in 0..Capacity - 1 : PlaceAt(f, i) = PlaceAt(f, j) => i = j
  /\ \A f \in Places, i \in 0..Capacity - 1 : PlaceAt(next_position(f), i) = PlaceAt(f, i + 1)
  /\ \A r \in Places : next_position(r) \in Places
  /\ \A f \in Places : PlaceAt(f, 0) = f
  BY CapacityAssumption DEF Places, PlaceAt, next_position

\* One call of queue_enqueue puts the event behind those that wait, if there is room.
LEMMA EnqueuePuts ==
  ASSUME NEW q \in Queues, NEW e \in NoteEvents, Joins(q)
  PROVE  LET w == queue_enqueue(e, q)
         IN  /\ w \in Queues /\ Joins(w) /\ w.front = q.front
             /\ w.size = IF q.size = Capacity THEN Capacity ELSE q.size + 1
             /\ \A i \in 1..q.size : w.array[PlaceAt(q.front, i - 1)] = q.array[PlaceAt(q.front, i - 1)]
             /\ q.size # Capacity => w.array[PlaceAt(q.front, q.size)] = e
<1> DEFINE r == PlaceAt(q.front, q.size)
           w == queue_enqueue(e, q)
<1>1. CASE q.size = Capacity
  BY <1>1, CapacityAssumption DEF queue_enqueue, queue_full
<1>2. CASE q.size # Capacity
  <2>1. /\ Capacity \in Nat /\ q.front \in Places /\ q.size \in 0..Capacity - 1 /\ q.size + 1 \in 0..Capacity
        /\ q.array \in [Places -> NoteEvents]
    BY <1>2, CapacityAssumption DEF Queues
  <2>2. r \in Places /\ next_position(q.rear) = r /\ next_position(r) = PlaceAt(q.front, q.size + 1)
    BY <2>1, RingPlaces DEF Joins
  <2>3. w = [q EXCEPT !.size = q.size + 1, !.rear = r, !.array[r] = e]
    BY <1>2, <2>2 DEF queue_enqueue, queue_full
  <2> HIDE DEF r, w
  <2>4. w = [array |-> [q.array EXCEPT ![r] = e], front |-> q.front, rear |-> r, size |-> q.size + 1]
    BY <2>3 DEF Queues
  <2>5. [q.array EXCEPT ![r] = e] \in [Places -> NoteEvents]
    BY <2>1
  <2>6. /\ w \in Queues /\ w.front = q.front /\ w.size = q.size + 1 /\ w.rear = r
        /\ w.array = [q.array EXCEPT ![r] = e]
    BY <2>1, <2>2, <2>4, <2>5 DEF Queues
  <2>7. ASSUME NEW i \in 1..q.size
        PROVE  w.array[PlaceAt(q.front, i - 1)] = q.array[PlaceAt(q.front, i - 1)]
    <3>1. i - 1 \in 0..Capacity - 1 /\ i - 1 \in 0..Capacity /\ i - 1 # q.size
      BY <2>1
    <3>2. PlaceAt(q.front, i - 1) \in Places /\ PlaceAt(q.front, i - 1) # r
      BY <2>1, <3>1, RingPlaces DEF r
    <3> QED
      BY <2>1, <2>6, <3>2
  <2>8. w.array[r] = e
    BY <2>1, <2>2, <2>6
  <2>9. Joins(w)
    BY <2>2, <2>6 DEF Joins
  <2> QED
    BY <1>2, <2>6, <2>7, <2>8, <2>9 DEF w, r
<1> QED
  BY <1>1, <1>2

\* A read into the empty queue leaves, in order, the events that fit.
LEMMA ReadFills ==
  ASSUME NEW q \in Queues, Joins(q), q.size = 0, NEW b \in Seq(NoteEvents)
  PROVE  LET w == Enqueued(q, b)
         IN  /\ w \in Queues /\ Joins(w) /\ w.size = Len(Fit(b))
             /\ Fit(b) \in Seq(NoteEvents) /\ \A i \in 1..w.size : w.array[PlaceAt(w.front, i - 1)] = Fit(b)[i]
             /\ \A i \in 1..Len(Fit(b)) : i \in 1..Len(b) /\ Fit(b)[i] = b[i]
<1> DEFINE N == Len(b)
           S == {x \in Queues : Joins(x)}
           F == [n \in 1..N |-> [x \in S |-> queue_enqueue(b[n], x)]]
           IsLoop(f) == f = [n \in 0..N |-> IF n = 0 THEN q ELSE queue_enqueue(b[n], f[n - 1])]
           after == CHOOSE f : IsLoop(f)
           Room(n) == IF n < Capacity THEN n ELSE Capacity
<1>1. N \in Nat /\ \A n \in 1..N : b[n] \in NoteEvents
  BY LenProperties, ElementOfSeq
<1>2. \A n \in 1..N : \A x \in S : queue_enqueue(b[n], x) \in S
  BY <1>1, EnqueuePuts
<1>3. F \in Loops(N, S) /\ q \in S
  BY <1>2 DEF Loops
<1>4. PICK g : IsTrace(g, N, S, q, F)
  <2> HIDE DEF F, S
  <2> QED
    BY <1>1, <1>3, RecursionExists
<1>5. IsLoop(g)
  <2>1. g \in [0..N -> S] /\ g[0] = q
    BY <1>4 DEF IsTrace
  <2>2. ASSUME NEW n \in 1..N
        PROVE  g[n] = queue_enqueue(b[n], g[n - 1])
    <3>1. g[n] = F[n][g[n - 1]]
      BY <1>4 DEF IsTrace
    <3>2. n - 1 \in 0..N
      BY <1>1
    <3>3. g[n - 1] \in S
      BY <2>1, <3>2
    <3> HIDE DEF S
    <3> QED
      BY <3>1, <3>3
  <2> HIDE DEF F, S
  <2> QED
    BY <1>1, <2>1, <2>2
<1>6. IsLoop(after) /\ Enqueued(q, b) = after[N]
  BY <1>5 DEF Enqueued
<1> HIDE DEF after
<1>7. after[0] = q /\ \A n \in 1..N : after[n] = queue_enqueue(b[n], after[n - 1])
  BY <1>1, <1>6
<1> DEFINE Filled(n) == /\ after[n] \in Queues /\ Joins(after[n]) /\ after[n].front = q.front
                        /\ after[n].size = Room(n)
                        /\ \A i \in 1..Room(n) : after[n].array[PlaceAt(q.front, i - 1)] = b[i]
           T == {n \in 0..N : Filled(n)}
<1>8. 0 \in T
  BY <1>1, <1>7, CapacityAssumption
<1>9. ASSUME NEW n \in 1..N, n - 1 \in T
      PROVE  n \in T
  <2>1. Filled(n - 1) /\ n - 1 \in Nat /\ n \in 0..N
    BY <1>1, <1>9
  <2> DEFINE v == after[n - 1]
             w == after[n]
  <2>2. v \in Queues /\ Joins(v) /\ b[n] \in NoteEvents /\ w = queue_enqueue(b[n], v)
    BY <1>1, <1>7, <2>1
  <2>3. v.front = q.front /\ v.size = Room(n - 1) /\ \A i \in 1..Room(n - 1) : v.array[PlaceAt(q.front, i - 1)] = b[i]
    BY <2>1
  <2> HIDE DEF v, w, T, Filled
  <2>4. /\ w \in Queues /\ Joins(w) /\ w.front = v.front
        /\ w.size = IF v.size = Capacity THEN Capacity ELSE v.size + 1
        /\ \A i \in 1..v.size : w.array[PlaceAt(v.front, i - 1)] = v.array[PlaceAt(v.front, i - 1)]
        /\ v.size # Capacity => w.array[PlaceAt(v.front, v.size)] = b[n]
    BY <2>2, EnqueuePuts
  <2>5. w.size = Room(n)
    BY <2>1, <2>3, <2>4, CapacityAssumption
  <2>6. ASSUME NEW i \in 1..Room(n)
        PROVE  w.array[PlaceAt(q.front, i - 1)] = b[i]
    <3>1. CASE i \in 1..Room(n - 1)
      BY <2>3, <2>4, <3>1
    <3>2. CASE i \notin 1..Room(n - 1)
      <4>1. i = n /\ v.size = n - 1 /\ v.size # Capacity
        BY <2>1, <2>3, <3>2, CapacityAssumption
      <4> QED
        BY <2>3, <2>4, <4>1
    <3> QED
      BY <3>1, <3>2
  <2>7. Filled(n)
    BY <2>3, <2>4, <2>5, <2>6 DEF Filled, w
  <2> QED
    BY <2>1, <2>7 DEF T
<1>10. N \in T
  <2> HIDE DEF T
  <2>1. 0..N \subseteq T
    BY <1>1, <1>8, <1>9, IntervalInduction
  <2> QED
    BY <1>1, <2>1
<1>11. Filled(N)
  BY <1>10
<1>12. /\ Fit(b) \in Seq(NoteEvents) /\ Len(Fit(b)) = Room(N) /\ Room(N) \in 0..N
       /\ \A i \in 1..Room(N) : i \in 1..N /\ Fit(b)[i] = b[i]
  <2>1. Room(N) \in 0..N /\ 1 \in Int /\ Room(N) \in Int /\ \A i \in 1..Room(N) : i \in 1..N /\ b[i] \in NoteEvents
    BY <1>1, CapacityAssumption
  <2>2. Fit(b) = SubSeq(b, 1, Room(N))
    BY DEF Fit
  <2> HIDE DEF Room, N
  <2>3. /\ SubSeq(b, 1, Room(N)) \in Seq(NoteEvents)
        /\ Len(SubSeq(b, 1, Room(N))) = IF 1 <= Room(N) THEN Room(N) - 1 + 1 ELSE 0
        /\ \A i \in 1..Room(N) - 1 + 1 : SubSeq(b, 1, Room(N))[i] = b[1 + i - 1]
    BY <2>1, SubSeqProperties
  <2>4. Room(N) - 1 + 1 = Room(N) /\ (~(1 <= Room(N)) => Room(N) = 0) /\ \A i \in 1..Room(N) : 1 + i - 1 = i
    BY <1>1, <2>1
  <2> QED
    BY <2>1, <2>2, <2>3, <2>4
<1> DEFINE w == after[N]
<1>13. w \in Queues /\ Joins(w) /\ w.front = q.front /\ w.size = Room(N)
       /\ \A i \in 1..Room(N) : w.array[PlaceAt(q.front, i - 1)] = b[i]
  BY <1>11
<1> HIDE DEF Room, N, w, Filled
<1>14. w.size = Len(Fit(b)) /\ \A i \in 1..w.size : w.array[PlaceAt(w.front, i - 1)] = Fit(b)[i]
  BY <1>12, <1>13
<1>15. \A i \in 1..Len(Fit(b)) : i \in 1..Len(b) /\ Fit(b)[i] = b[i]
  BY <1>12 DEF N
<1> QED
  BY <1>6, <1>12, <1>13, <1>14, <1>15 DEF w

\* The loop of handle_events takes out one event a turn, from the front.
LEMMA LoopEmpties ==
  ASSUME NEW q \in Queues, Joins(q)
  PROVE  LET w == Dequeued(q)
         IN  /\ w[q.size] \in Queues /\ w[q.size].size = 0 /\ Joins(w[q.size])
             /\ \A n \in 1..q.size : queue_front(w[n - 1]) = q.array[PlaceAt(q.front, n - 1)]
<1> DEFINE N == q.size
           w == [n \in 0..N |-> [q EXCEPT !.size = N - n, !.front = PlaceAt(q.front, n)]]
           IsLoop(f) == f = [n \in 0..N |-> IF n = 0 THEN q ELSE queue_dequeue(f[n - 1])]
           after == CHOOSE f : IsLoop(f)
<1>1. /\ N \in Nat /\ N <= Capacity /\ Capacity \in Nat /\ q.front \in Places /\ q.array \in [Places -> NoteEvents]
      /\ q.rear \in Places
  BY CapacityAssumption DEF Queues
<1>2. \A n \in 0..N : w[n] = [array |-> q.array, front |-> PlaceAt(q.front, n), rear |-> q.rear, size |-> N - n]
  BY DEF Queues
<1> HIDE DEF w
<1>3. ASSUME NEW n \in 0..N
      PROVE  /\ w[n] \in Queues /\ w[n].size = N - n /\ w[n].front = PlaceAt(q.front, n) /\ w[n].array = q.array
             /\ w[n].rear = q.rear
  <2>1. n \in 0..Capacity /\ N - n \in 0..Capacity
    BY <1>1
  <2>2. PlaceAt(q.front, n) \in Places
    BY <1>1, <2>1, RingPlaces
  <2> DEFINE x == PlaceAt(q.front, n)
  <2> HIDE DEF x, N
  <2>3. w[n] = [array |-> q.array, front |-> x, rear |-> q.rear, size |-> N - n]
    BY <1>2 DEF x
  <2>4. w[n] \in Queues
    BY <1>1, <2>1, <2>2, <2>3 DEF Queues, x
  <2> QED
    BY <2>3, <2>4 DEF x
<1>4. ASSUME NEW n \in 1..N
      PROVE  w[n] = queue_dequeue(w[n - 1])
  <2> DEFINE v == w[n - 1]
  <2>1. n - 1 \in 0..N /\ n \in 0..N /\ n - 1 \in 0..Capacity - 1 /\ (n - 1) + 1 = n
    BY <1>1
  <2>2. v = [array |-> q.array, front |-> PlaceAt(q.front, n - 1), rear |-> q.rear, size |-> N - (n - 1)]
    BY <1>2, <2>1
  <2>3. v.size # 0 /\ v.size - 1 = N - n
    BY <1>1, <2>2
  <2>4. next_position(PlaceAt(q.front, n - 1)) = PlaceAt(q.front, n)
    BY <1>1, <2>1, RingPlaces
  <2>5. queue_dequeue(v) = [v EXCEPT !.size = v.size - 1, !.front = next_position(v.front)]
    BY <2>3 DEF queue_dequeue, queue_empty
  <2> DEFINE x == PlaceAt(q.front, n - 1)
             y == PlaceAt(q.front, n)
             l == N - n
  <2> HIDE DEF v, x, y, l
  <2>6. v = [array |-> q.array, front |-> x, rear |-> q.rear, size |-> N - (n - 1)] /\ next_position(x) = y /\ v.size - 1 = l
    BY <2>2, <2>3, <2>4 DEF x, y, l
  <2>7. queue_dequeue(v) = [array |-> q.array, front |-> y, rear |-> q.rear, size |-> l]
    BY <2>5, <2>6
  <2> QED
    BY <1>2, <2>1, <2>7 DEF v, y, l
<1>45. w[0] = q
  <2>1. PlaceAt(q.front, 0) = q.front /\ N - 0 = q.size /\ 0 \in 0..N
    BY <1>1, RingPlaces
  <2>2. w[0] = [array |-> q.array, front |-> q.front, rear |-> q.rear, size |-> q.size]
    BY <1>2, <2>1
  <2> QED
    BY <2>2 DEF Queues
<1>5. IsLoop(w)
  <2>1. w = [n \in 0..N |-> w[n]]
    BY DEF w
  <2>2. \A n \in 0..N : w[n] = IF n = 0 THEN q ELSE queue_dequeue(w[n - 1])
    BY <1>1, <1>4, <1>45
  <2> QED
    BY <2>1, <2>2
<1>6. Dequeued(q) = after /\ IsLoop(after)
  BY <1>5 DEF Dequeued
<1> HIDE DEF after
<1>7. \A n \in 0..N : after[n] = w[n]
  <2> DEFINE T == {n \in 0..N : after[n] = w[n]}
  <2>1. 0 \in T
    BY <1>1, <1>45, <1>6
  <2>2. ASSUME NEW n \in 1..N, n - 1 \in T
        PROVE  n \in T
    <3>1. n \in 0..N /\ after[n - 1] = w[n - 1] /\ after[n] = queue_dequeue(after[n - 1])
      BY <1>1, <1>6, <2>2
    <3> QED
      BY <1>4, <3>1
  <2> HIDE DEF T
  <2>3. 0..N \subseteq T
    BY <1>1, <2>1, <2>2, IntervalInduction
  <2> QED
    BY <2>3 DEF T
<1>8. N \in 0..N /\ after[N] = w[N] /\ w[N].size = 0
  BY <1>1, <1>3, <1>7
<1>9. Joins(w[N])
  <2>1. PlaceAt(q.front, N) \in Places
    BY <1>1, RingPlaces DEF Queues
  <2>2. PlaceAt(w[N].front, 0) = w[N].front
    BY <1>3, <1>8, <2>1, RingPlaces
  <2>3. w[N].front = next_position(q.rear)
    BY <1>3, <1>8 DEF Joins
  <2> QED
    BY <1>3, <1>8, <2>2, <2>3 DEF Joins
<1>10. ASSUME NEW n \in 1..N
       PROVE  queue_front(after[n - 1]) = q.array[PlaceAt(q.front, n - 1)]
  <2>1. n - 1 \in 0..N /\ N - (n - 1) # 0
    BY <1>1
  <2>2. after[n - 1] = w[n - 1] /\ w[n - 1].size # 0
    BY <1>3, <1>7, <2>1
  <2> QED
    BY <1>3, <2>1, <2>2 DEF queue_front, queue_empty
<1> QED
  BY <1>3, <1>6, <1>8, <1>9, <1>10

\* What is kept of the first reads.
IsKept(g, bs) ==
  /\ g \in [0..Len(bs) -> Seq(NoteEvents)] /\ g[0] = <<>>
  /\ \A n \in 1..Len(bs) : g[n] = g[n - 1] \o Fit(bs[n])

LEMMA FitIsSeq ==
  ASSUME NEW b \in Seq(NoteEvents)
  PROVE  Fit(b) \in Seq(NoteEvents)
<1> DEFINE u == IF Len(b) < Capacity THEN Len(b) ELSE Capacity
<1>1. u \in Int /\ \A i \in 1..u : b[i] \in NoteEvents
  BY CapacityAssumption, LenProperties, ElementOfSeq
<1> HIDE DEF u
<1>2. SubSeq(b, 1, u) \in Seq(NoteEvents)
  BY <1>1, SubSeqProperties
<1> QED
  BY <1>2 DEF Fit, u

LEMMA KeptByLoop ==
  ASSUME NEW bs \in Seq(Seq(NoteEvents))
  PROVE  \E g : IsKept(g, bs) /\ KeptOf(bs) = g[Len(bs)]
<1> DEFINE N == Len(bs)
           S == Seq(NoteEvents)
           F == [n \in 1..N |-> [x \in S |-> x \o Fit(bs[n])]]
           Turn(f, n) == IF n = 0 THEN <<>> ELSE f[n - 1] \o Fit(bs[n])
           IsLoop(f) == f = [n \in 0..N |-> Turn(f, n)]
           upto == CHOOSE f : IsLoop(f)
<1>1. N \in Nat /\ \A n \in 1..N : Fit(bs[n]) \in S
  BY LenProperties, ElementOfSeq, FitIsSeq
<1>2. \A n \in 1..N : \A x \in S : x \o Fit(bs[n]) \in S
  BY <1>1, ConcatProperties
<1>3. F \in Loops(N, S) /\ <<>> \in S
  BY <1>2, EmptySeq DEF Loops
<1>4. PICK g : IsTrace(g, N, S, <<>>, F)
  <2> HIDE DEF F, S
  <2> QED
    BY <1>1, <1>3, RecursionExists
<1>5. IsLoop(g)
  <2>1. g \in [0..N -> S] /\ g[0] = <<>>
    BY <1>4 DEF IsTrace
  <2>2. ASSUME NEW n \in 1..N
        PROVE  g[n] = g[n - 1] \o Fit(bs[n])
    <3>1. g[n] = F[n][g[n - 1]]
      BY <1>4 DEF IsTrace
    <3>2. n - 1 \in 0..N
      BY <1>1
    <3>3. g[n - 1] \in S
      BY <2>1, <3>2
    <3> HIDE DEF S
    <3> QED
      BY <3>1, <3>3
  <2>3. \A n \in 0..N : g[n] = Turn(g, n)
    <3>1. \A n \in 0..N : n = 0 \/ n \in 1..N
      BY <1>1
    <3> HIDE DEF N
    <3> QED
      BY <2>1, <2>2, <3>1
  <2> HIDE DEF F, S, N, Turn
  <2> QED
    BY <2>1, <2>3
<1>6. IsLoop(upto) /\ KeptOf(bs) = upto[N]
  BY <1>5 DEF KeptOf, Fit
<1>7. upto[0] = <<>> /\ (\A n \in 1..N : upto[n] = upto[n - 1] \o Fit(bs[n])) /\ upto = [n \in 0..N |-> upto[n]]
  <2> HIDE DEF upto, N
  <2>1. (\A n \in 0..N : upto[n] = Turn(upto, n)) /\ upto = [n \in 0..N |-> upto[n]]
    <3> HIDE DEF Turn
    <3> QED
      BY <1>6
  <2>2. 0 \in 0..N /\ \A n \in 1..N : n \in 0..N /\ n # 0
    BY <1>1
  <2> QED
    BY <2>1, <2>2
<1> HIDE DEF upto
<1>8. upto \in [0..N -> S]
  <2> DEFINE T == {n \in 0..N : upto[n] \in S}
  <2>1. 0 \in T
    <3>1. 0 \in 0..N
      BY <1>1
    <3> QED
      BY <1>3, <1>7, <3>1
  <2>2. ASSUME NEW n \in 1..N, n - 1 \in T
        PROVE  n \in T
    <3>1. n \in 0..N /\ upto[n - 1] \in S
      BY <1>1, <2>2
    <3>2. upto[n - 1] \o Fit(bs[n]) \in S
      BY <1>2, <3>1
    <3> QED
      BY <1>7, <3>1, <3>2
  <2> HIDE DEF T
  <2>3. 0..N \subseteq T
    BY <1>1, <2>1, <2>2, IntervalInduction
  <2>4. \A n \in 0..N : upto[n] \in S
    BY <2>3 DEF T
  <2> HIDE DEF S, N
  <2> QED
    BY <1>7, <2>4
<1> QED
  BY <1>6, <1>7, <1>8 DEF IsKept

\* One read more.
LEMMA KeptGrows ==
  ASSUME NEW bs \in Seq(Seq(NoteEvents)), NEW b \in Seq(NoteEvents)
  PROVE  /\ KeptOf(bs) \in Seq(NoteEvents) /\ (bs = <<>> => KeptOf(bs) = <<>>)
         /\ KeptOf(Append(bs, b)) = KeptOf(bs) \o Fit(b)
<1> DEFINE N == Len(bs)
           cs == Append(bs, b)
<1>1. N \in Nat /\ cs \in Seq(Seq(NoteEvents)) /\ Len(cs) = N + 1 /\ cs[N + 1] = b /\ \A n \in 1..N : cs[n] = bs[n]
  BY LenProperties, AppendProperties
<1> HIDE DEF cs
<1>2. PICK g : IsKept(g, bs) /\ KeptOf(bs) = g[Len(bs)]
  BY KeptByLoop
<1>3. PICK h : IsKept(h, cs) /\ KeptOf(cs) = h[Len(cs)]
  BY <1>1, KeptByLoop
<1>4. g \in [0..N -> Seq(NoteEvents)] /\ g[0] = <<>> /\ \A n \in 1..N : g[n] = g[n - 1] \o Fit(bs[n])
  BY <1>2 DEF IsKept
<1>5. h[0] = <<>> /\ (\A n \in 1..N : h[n] = h[n - 1] \o Fit(bs[n])) /\ h[N + 1] = h[N] \o Fit(b)
  <2>1. \A n \in 1..N + 1 : h[n] = h[n - 1] \o Fit(cs[n])
    BY <1>1, <1>3 DEF IsKept
  <2>2. N + 1 \in 1..N + 1 /\ (N + 1) - 1 = N /\ \A n \in 1..N : n \in 1..N + 1
    BY <1>1
  <2> QED
    BY <1>1, <1>3, <2>1, <2>2 DEF IsKept
<1> DEFINE T == {n \in 0..N : h[n] = g[n]}
<1>6. 0 \in T
  BY <1>1, <1>4, <1>5
<1>7. ASSUME NEW n \in 1..N, n - 1 \in T
      PROVE  n \in T
  <2>1. n \in 0..N /\ h[n - 1] = g[n - 1]
    BY <1>1, <1>7
  <2>2. h[n] = h[n - 1] \o Fit(bs[n]) /\ g[n] = g[n - 1] \o Fit(bs[n])
    BY <1>4, <1>5
  <2> QED
    BY <2>1, <2>2
<1>8. N \in T
  <2> HIDE DEF T
  <2>1. 0..N \subseteq T
    BY <1>1, <1>6, <1>7, IntervalInduction
  <2> QED
    BY <1>1, <2>1
<1>9. KeptOf(bs) \in Seq(NoteEvents) /\ (bs = <<>> => KeptOf(bs) = <<>>)
  <2>1. N \in 0..N
    BY <1>1
  <2>2. bs = <<>> => N = 0
    BY EmptySeq
  <2> QED
    BY <1>2, <1>4, <2>1, <2>2
<1> QED
  BY <1>1, <1>2, <1>3, <1>5, <1>8, <1>9 DEF cs

\* The events read are a number of events.
LEMMA EventsReadNat ==
  ASSUME NEW bs \in Seq(Seq(NoteEvents))
  PROVE  EventsRead(bs) \in Nat
<1> DEFINE N == Len(bs)
           F == [n \in 1..N |-> [x \in Nat |-> x + Len(bs[n])]]
           Turn(f, n) == IF n = 0 THEN 0 ELSE f[n - 1] + Len(bs[n])
           IsLoop(f) == f = [n \in 0..N |-> Turn(f, n)]
           upto == CHOOSE f : IsLoop(f)
<1>1. N \in Nat /\ \A n \in 1..N : Len(bs[n]) \in Nat
  BY LenProperties, ElementOfSeq
<1>2. F \in Loops(N, Nat) /\ 0 \in Nat
  BY <1>1 DEF Loops
<1>3. PICK g : IsTrace(g, N, Nat, 0, F)
  <2> HIDE DEF F
  <2> QED
    BY <1>1, <1>2, RecursionExists
<1>4. IsLoop(g)
  <2>1. g \in [0..N -> Nat] /\ g[0] = 0
    BY <1>3 DEF IsTrace
  <2>2. ASSUME NEW n \in 1..N
        PROVE  g[n] = g[n - 1] + Len(bs[n])
    <3>1. g[n] = F[n][g[n - 1]]
      <4> HIDE DEF F
      <4> QED
        BY <1>3 DEF IsTrace
    <3>2. n - 1 \in 0..N
      BY <1>1
    <3>3. g[n - 1] \in Nat
      BY <2>1, <3>2
    <3> QED
      BY <3>1, <3>3
  <2>3. \A n \in 0..N : g[n] = Turn(g, n)
    BY <1>1, <2>1, <2>2
  <2> HIDE DEF F, N, Turn
  <2> QED
    BY <2>1, <2>3
<1>5. IsLoop(upto) /\ EventsRead(bs) = upto[N]
  BY <1>4 DEF EventsRead
<1>6. upto[0] = 0 /\ \A n \in 1..N : upto[n] = upto[n - 1] + Len(bs[n])
  <2> HIDE DEF upto, N
  <2>1. \A n \in 0..N : upto[n] = Turn(upto, n)
    <3> HIDE DEF Turn
    <3> QED
      BY <1>5
  <2>2. 0 \in 0..N /\ \A n \in 1..N : n \in 0..N /\ n # 0
    BY <1>1
  <2> QED
    BY <2>1, <2>2
<1> HIDE DEF upto
<1> DEFINE T == {n \in 0..N : upto[n] \in Nat}
<1>7. 0 \in T
  BY <1>1, <1>6
<1>8. ASSUME NEW n \in 1..N, n - 1 \in T
      PROVE  n \in T
  <2>1. n \in 0..N /\ upto[n - 1] \in Nat /\ Len(bs[n]) \in Nat
    BY <1>1, <1>8
  <2>2. upto[n] = upto[n - 1] + Len(bs[n])
    BY <1>6
  <2> HIDE DEF N
  <2> QED
    BY <2>1, <2>2
<1> HIDE DEF T
<1>9. 0..N \subseteq T
  BY <1>1, <1>7, <1>8, IntervalInduction
<1>10. N \in T
  BY <1>1, <1>9
<1> QED
  BY <1>5, <1>10 DEF T

-----------------------------------------------------------------------------
\* A new queue is empty and its pointers are apart as they should.
LEMMA FreshQueue ==
  /\ queue_create \in Queues /\ Joins(queue_create) /\ queue_create.size = 0
  /\ \A q \in Queues : /\ queue_make_empty(q) \in Queues /\ Joins(queue_make_empty(q))
                       /\ queue_make_empty(q).size = 0
<1>1. ASSUME NEW q \in Queues
      PROVE  queue_make_empty(q) \in Queues /\ Joins(queue_make_empty(q)) /\ queue_make_empty(q).size = 0
  <2> DEFINE w == queue_make_empty(q)
  <2>0. w = [q EXCEPT !.size = 0, !.front = 1, !.rear = 0]
    BY DEF queue_make_empty
  <2> HIDE DEF w
  <2>1. w = [array |-> q.array, front |-> 1, rear |-> 0, size |-> 0] /\ q.array \in [Places -> NoteEvents]
    BY <2>0 DEF Queues
  <2>2. 1 \in Places /\ 0 \in Places /\ 0 \in 0..Capacity
    BY CapacityAssumption DEF Places
  <2>3. PlaceAt(1, 0) = 1 /\ next_position(0) = 1
    BY CapacityAssumption DEF PlaceAt, next_position
  <2>4. w.front = 1 /\ w.rear = 0 /\ w.size = 0
    BY <2>1
  <2>5. w \in Queues
    BY <2>1, <2>2 DEF Queues
  <2>6. Joins(w)
    BY <2>3, <2>4 DEF Joins
  <2> QED
    BY <2>4, <2>5, <2>6 DEF w
<1> DEFINE a == [i \in 0..(Capacity - 1) |-> NoEvent]
<1>2. a \in [Places -> NoteEvents] /\ 0 \in Places /\ 0 \in 0..Capacity
  BY CapacityAssumption DEF Places, NoEvent, NoteEvents
<1>3. queue_create \in Queues /\ Joins(queue_create) /\ queue_create.size = 0
  <2> HIDE DEF a
  <2>1. [array |-> a, front |-> 0, rear |-> 0, size |-> 0] \in Queues
    BY <1>2 DEF Queues
  <2> QED
    BY <1>1, <2>1 DEF queue_create, a
<1> QED
  BY <1>1, <1>3

\* A step that neither reads nor prints and leaves the queue alone or empty.
LEMMA QueueUndisturbed ==
  ASSUME InotifyInv, UNCHANGED <<batches, printed>>, device' \in Seq(NoteEvents),
         ipc' \in {"start", "watch", "handle", "check", "read", "broken", "ended"},
         ipc' # "handle" => iq'.size = 0,
         iq' = iq \/ (iq.size = 0 /\ iq' \in Queues /\ Joins(iq') /\ iq'.size = 0)
  PROVE  InotifyInv'
<1>1. InotifyTyped'
  BY DEF InotifyInv, InotifyTyped
<1>2. Joins(iq)' /\ iq'.size = iq.size
  BY DEF InotifyInv
<1>3. KeptOf(batches)' = KeptOf(batches) /\ printed' = printed /\ batches' = batches
  OBVIOUS
<1>4. Waits(iq, KeptOf(batches), Len(printed))'
  <2>1. CASE iq' = iq
    BY <1>3, <2>1 DEF InotifyInv
  <2>2. CASE iq'.size = 0
    BY <2>2 DEF Waits
  <2> QED
    BY <2>1, <2>2
<1> QED
  BY <1>1, <1>2, <1>3, <1>4 DEF InotifyInv

\* handle_events prints what waits and empties the queue.
LEMMA HandledInOrder ==
  ASSUME InotifyInv, handle_events, ipc' = "check", UNCHANGED <<device, batches>>
  PROVE  InotifyInv'
<1> DEFINE N == iq.size
           P == Len(printed)
           k == KeptOf(batches)
           w == Dequeued(iq)
           new == [n \in 1..N |-> handle_event(queue_front(w[n - 1]))]
<1>1. /\ iq \in Queues /\ Joins(iq) /\ printed \in Seq(Printed) /\ N \in Nat /\ P \in Nat /\ N \in 0..Capacity
      /\ batches \in Seq(Seq(NoteEvents)) /\ Len(k) = P + N /\ k \in Seq(NoteEvents)
      /\ PrintedAs(printed, k) /\ Waits(iq, k, P) /\ FromReads(k, batches)
  <2>1. iq \in Queues /\ printed \in Seq(Printed) /\ batches \in Seq(Seq(NoteEvents))
    BY DEF InotifyInv, InotifyTyped
  <2>2. k \in Seq(NoteEvents)
    BY <2>1, KeptGrows, EmptySeq
  <2>3. N \in 0..Capacity /\ N \in Nat /\ P \in Nat
    BY <2>1, LenProperties, CapacityAssumption DEF Queues
  <2> QED
    BY <2>1, <2>2, <2>3 DEF InotifyInv
<1>2. /\ w[N] \in Queues /\ w[N].size = 0 /\ Joins(w[N])
      /\ \A n \in 1..N : queue_front(w[n - 1]) = iq.array[PlaceAt(iq.front, n - 1)]
  BY <1>1, LoopEmpties
<1>3. \A n \in 1..N : queue_front(w[n - 1]) = k[P + n]
  BY <1>1, <1>2 DEF Waits
<1>4. printed' = printed \o new /\ iq' = w[N]
  BY DEF handle_events
<1> HIDE DEF w, k
<1>5. new = [n \in 1..N |-> handle_event(k[P + n])]
  BY <1>3
<1>6. \A n \in 1..N : k[P + n] \in NoteEvents
  <2>1. \A n \in 1..N : P + n \in 1..Len(k)
    BY <1>1
  <2> QED
    BY <1>1, <2>1, ElementOfSeq
<1>7. new \in Seq(Printed) /\ Len(new) = N /\ \A n \in 1..N : new[n] = handle_event(k[P + n])
  <2>1. \A n \in 1..N : handle_event(k[P + n]) \in Printed
    BY <1>6 DEF Printed
  <2>2. new \in [1..N -> Printed]
    BY <1>5, <2>1
  <2>3. new \in Seq(Printed) /\ Len(new) = N
    <3> HIDE DEF new, N
    <3> QED
      BY <1>1, <2>2, SeqDef
  <2> QED
    BY <1>5, <2>3
<1> HIDE DEF new
<1>8. /\ printed' \in Seq(Printed) /\ Len(printed') = P + N
      /\ \A n \in 1..P + N : printed'[n] = IF n <= P THEN printed[n] ELSE new[n - P]
  <2> HIDE DEF P
  <2>1. /\ printed \o new \in Seq(Printed) /\ Len(printed \o new) = Len(printed) + Len(new)
        /\ \A n \in 1..Len(printed) + Len(new) : (printed \o new)[n] = IF n <= Len(printed) THEN printed[n] ELSE new[n - Len(printed)]
    BY <1>1, <1>7, ConcatProperties
  <2> QED
    BY <1>4, <1>7, <2>1 DEF P
<1>9. \A n \in 1..P + N : printed'[n] = handle_event(k[n])
  <2> SUFFICES ASSUME NEW n \in 1..P + N
               PROVE  printed'[n] = handle_event(k[n])
    OBVIOUS
  <2>1. CASE n <= P
    <3>1. n \in 1..P /\ printed'[n] = printed[n]
      BY <1>1, <1>8, <2>1
    <3> QED
      BY <1>1, <3>1 DEF PrintedAs
  <2>2. CASE ~(n <= P)
    <3>1. n - P \in 1..N /\ P + (n - P) = n /\ printed'[n] = new[n - P]
      BY <1>1, <1>8, <2>2
    <3>2. new[n - P] = handle_event(k[P + (n - P)])
      BY <1>7, <3>1
    <3> QED
      BY <3>1, <3>2
  <2> QED
    BY <2>1, <2>2
<1> HIDE DEF P, N
<1>10. KeptOf(batches)' = k /\ batches' = batches
  BY DEF k
<1>11. InotifyTyped'
  BY <1>2, <1>4, <1>8 DEF InotifyInv, InotifyTyped
<1>12. Len(k) = Len(printed') + iq'.size
  BY <1>1, <1>2, <1>4, <1>8
<1>13. PrintedAs(printed', k) /\ Waits(iq', k, Len(printed')) /\ FromReads(k, batches')
  BY <1>1, <1>2, <1>4, <1>8, <1>9, <1>10 DEF PrintedAs, Waits
<1> QED
  BY <1>2, <1>4, <1>10, <1>11, <1>12, <1>13 DEF InotifyInv

\* A read puts what fits behind what was kept before.
LEMMA ReadInOrder ==
  ASSUME InotifyInv, ipc = "read", read_events, ipc' = "handle", UNCHANGED printed
  PROVE  InotifyInv'
<1> DEFINE D == Len(device)
           m == IF D < BufEvents THEN D ELSE BufEvents
           b == SubSeq(device, 1, m)
           k == KeptOf(batches)
           P == Len(printed)
           w == Enqueued(iq, b)
<1>1. /\ iq \in Queues /\ Joins(iq) /\ iq.size = 0 /\ printed \in Seq(Printed) /\ P \in Nat
      /\ device \in Seq(NoteEvents) /\ D \in Nat /\ batches \in Seq(Seq(NoteEvents))
      /\ Len(k) = P /\ PrintedAs(printed, k) /\ FromReads(k, batches)
  <2>1. /\ iq \in Queues /\ printed \in Seq(Printed) /\ device \in Seq(NoteEvents)
        /\ batches \in Seq(Seq(NoteEvents)) /\ iq.size = 0
    BY DEF InotifyInv, InotifyTyped
  <2>2. D \in Nat /\ P \in Nat
    BY <2>1, LenProperties
  <2> QED
    BY <2>1, <2>2 DEF InotifyInv
<1>2. m \in Int /\ m <= D
  BY <1>1, BufAssumption
<1>3. b \in Seq(NoteEvents) /\ SubSeq(device, m + 1, D) \in Seq(NoteEvents)
  <2>1. m + 1 \in Int /\ D \in Int /\ 1 \in Int /\ (\A i \in 1..m : device[i] \in NoteEvents)
    BY <1>1, <1>2, ElementOfSeq
  <2>2. \A i \in m + 1..D : device[i] \in NoteEvents
    BY <1>1, <1>2, BufAssumption, ElementOfSeq
  <2> HIDE DEF m, D
  <2> QED
    BY <1>2, <2>1, <2>2, SubSeqProperties
<1>4. iq' = w /\ device' = SubSeq(device, m + 1, D) /\ batches' = Append(batches, b)
  BY DEF read_events
<1> HIDE DEF b, m, D
<1>5. /\ w \in Queues /\ Joins(w) /\ w.size = Len(Fit(b)) /\ Fit(b) \in Seq(NoteEvents)
      /\ \A i \in 1..w.size : w.array[PlaceAt(w.front, i - 1)] = Fit(b)[i]
      /\ \A i \in 1..Len(Fit(b)) : i \in 1..Len(b) /\ Fit(b)[i] = b[i]
  BY <1>1, <1>3, ReadFills
<1> DEFINE k2 == KeptOf(batches')
           E == Len(Fit(b))
<1>6. k \in Seq(NoteEvents) /\ k2 = k \o Fit(b)
  BY <1>1, <1>3, <1>4, KeptGrows
<1>7. E \in Nat /\ Len(k2) = P + E /\ \A i \in 1..P + E : k2[i] = IF i <= P THEN k[i] ELSE Fit(b)[i - P]
  <2> HIDE DEF k, k2, P
  <2>1. /\ Len(k \o Fit(b)) = Len(k) + Len(Fit(b))
        /\ \A i \in 1..Len(k) + Len(Fit(b)) : (k \o Fit(b))[i] = IF i <= Len(k) THEN k[i] ELSE Fit(b)[i - Len(k)]
    BY <1>5, <1>6, ConcatProperties
  <2>2. E \in Nat
    BY <1>5, LenProperties
  <2> QED
    BY <1>1, <1>6, <2>1, <2>2
<1> HIDE DEF k, k2, w
<1>8. PrintedAs(printed', k2)
  <2>1. \A n \in 1..Len(printed) : n \in 1..P + E /\ n <= P
    BY <1>1, <1>7
  <2>2. \A n \in 1..Len(printed) : k2[n] = k[n]
    BY <1>7, <2>1
  <2> QED
    BY <1>1, <2>2 DEF PrintedAs
<1>9. Waits(iq', k2, Len(printed'))
  <2> SUFFICES ASSUME NEW i \in 1..w.size
               PROVE  w.array[PlaceAt(w.front, i - 1)] = k2[P + i]
    BY <1>4 DEF Waits
  <2>1. P + i \in 1..P + E /\ ~(P + i <= P) /\ (P + i) - P = i
    BY <1>1, <1>5, <1>7
  <2>2. k2[P + i] = Fit(b)[(P + i) - P]
    BY <1>7, <2>1
  <2> QED
    BY <1>5, <2>1, <2>2
<1>10. FromReads(k2, batches')
  <2>1. \A c \in Range(batches) : c \in Range(batches')
    <3>1. DOMAIN batches = 1..Len(batches) /\ Len(batches) \in Nat
      BY <1>1, LenProperties
    <3>2. /\ Append(batches, b) \in Seq(Seq(NoteEvents)) /\ Len(Append(batches, b)) = Len(batches) + 1
          /\ \A i \in 1..Len(batches) : Append(batches, b)[i] = batches[i]
      BY <1>1, <1>3, AppendProperties
    <3>3. DOMAIN batches' = 1..Len(batches) + 1
      BY <1>4, <3>2, LenProperties
    <3>4. \A i \in DOMAIN batches : i \in DOMAIN batches' /\ batches'[i] = batches[i]
      BY <1>4, <3>1, <3>2, <3>3
    <3> QED
      BY <3>4 DEF Range
  <2>2. b \in Range(batches')
    <3>1. /\ Append(batches, b) \in Seq(Seq(NoteEvents)) /\ Len(Append(batches, b)) = Len(batches) + 1
          /\ Append(batches, b)[Len(batches) + 1] = b /\ Len(batches) \in Nat
      BY <1>1, <1>3, AppendProperties, LenProperties
    <3>2. DOMAIN batches' = 1..Len(batches) + 1 /\ Len(batches) + 1 \in 1..Len(batches) + 1
      BY <1>4, <3>1, LenProperties
    <3> QED
      BY <1>4, <3>1, <3>2 DEF Range
  <2> SUFFICES ASSUME NEW n \in 1..P + E
               PROVE  \E c \in Range(batches') : k2[n] \in Range(c)
    BY <1>7 DEF FromReads
  <2>3. CASE n <= P
    <3>1. n \in 1..Len(k) /\ k2[n] = k[n]
      BY <1>1, <1>7, <2>3
    <3> QED
      BY <1>1, <2>1, <3>1 DEF FromReads
  <2>4. CASE ~(n <= P)
    <3>1. n - P \in 1..E
      BY <1>1, <1>7, <2>4
    <3>0. k2[n] = Fit(b)[n - P]
      BY <1>7, <2>4
    <3>2. n - P \in 1..Len(b) /\ k2[n] = b[n - P]
      BY <1>5, <3>0, <3>1
    <3>3. DOMAIN b = 1..Len(b)
      BY <1>3, LenProperties
    <3> QED
      BY <2>2, <3>2, <3>3 DEF Range
  <2> QED
    BY <2>3, <2>4
<1>11. InotifyTyped'
  <2>1. batches' \in Seq(Seq(NoteEvents))
    BY <1>1, <1>3, <1>4, AppendProperties
  <2> QED
    BY <1>1, <1>3, <1>4, <1>5, <2>1 DEF InotifyTyped
<1>12. Len(k2) = Len(printed') + iq'.size
  BY <1>4, <1>5, <1>7
<1> QED
  BY <1>4, <1>5, <1>8, <1>9, <1>10, <1>11, <1>12 DEF InotifyInv, k2

\* A kind that is said is the whole mask.
LEMMA SaidIsMask ==
  ASSUME NEW e \in NoteEvents, handle_event(e).said \in SingleKinds
  PROVE  e = [id |-> handle_event(e).id, mask |-> {handle_event(e).said}]
<1> DEFINE one == \E k \in SingleKinds : e.mask = {k}
           kind == CHOOSE k \in SingleKinds : e.mask = {k}
<1>1. "close" \notin SingleKinds /\ "unknown" \notin SingleKinds
  BY DEF SingleKinds
<1>2. ~(e.mask = IN_CLOSE /\ one)
  <2>1. "close_write" # "close_nowrite"
    OBVIOUS
  <2> QED
    BY <2>1 DEF IN_CLOSE
<1>3. one => e.mask = {kind}
  OBVIOUS
<1>4. handle_event(e).said = CASE e.mask = IN_CLOSE -> "close" [] one -> kind [] OTHER -> "unknown"
  BY DEF handle_event
<1> HIDE DEF one, kind
<1>5. one /\ handle_event(e).said = kind
  BY <1>1, <1>2, <1>4
<1>6. handle_event(e).id = e.id
  BY DEF handle_event
<1>7. e = [id |-> e.id, mask |-> e.mask]
  BY DEF NoteEvents
<1> QED
  BY <1>3, <1>5, <1>6, <1>7

\* The invariant says what InotifyInOrder asks.
LEMMA InotifyInvOrder ==
  ASSUME InotifyInv
  PROVE  InotifyInOrder
<1> DEFINE N == iq.size
           P == Len(printed)
           k == KeptOf(batches)
           waiting == [n \in 1..N |-> iq.array[(iq.front + n - 1) % Capacity]]
           shown == [n \in 1..Len(waiting) |-> handle_event(waiting[n])]
           whole == [n \in 1..(P + N) |-> handle_event(k[n])]
<1>1. /\ iq \in Queues /\ printed \in Seq(Printed) /\ batches \in Seq(Seq(NoteEvents)) /\ N \in 0..Capacity
      /\ N \in Nat /\ P \in Nat /\ k \in Seq(NoteEvents) /\ Len(k) = P + N
      /\ PrintedAs(printed, k) /\ Waits(iq, k, P) /\ FromReads(k, batches)
  <2>1. iq \in Queues /\ printed \in Seq(Printed) /\ batches \in Seq(Seq(NoteEvents))
    BY DEF InotifyInv, InotifyTyped
  <2>2. k \in Seq(NoteEvents)
    BY <2>1, KeptGrows, EmptySeq
  <2>3. N \in 0..Capacity /\ N \in Nat /\ P \in Nat
    BY <2>1, LenProperties, CapacityAssumption DEF Queues
  <2> QED
    BY <2>1, <2>2, <2>3 DEF InotifyInv
<1>2. ASSUME NEW n \in 1..N
      PROVE  iq.array[(iq.front + n - 1) % Capacity] = k[P + n]
  <2>1. iq.front \in 0..Capacity - 1 /\ n - 1 \in 0..Capacity - 1 /\ Capacity \in Nat \ {0}
    BY <1>1, CapacityAssumption DEF Queues, Places
  <2>2. (iq.front + n - 1) % Capacity = PlaceAt(iq.front, n - 1)
    <3> DEFINE x == iq.front + n - 1
    <3>1. x = iq.front + (n - 1) /\ x \in 0..2 * Capacity - 1
      BY <1>1, <2>1
    <3>2. CASE x < Capacity
      <4>1. x % Capacity = x
        <5> HIDE DEF x
        <5> QED
          BY <2>1, <3>1, <3>2
      <4> QED
        BY <3>1, <3>2, <4>1 DEF PlaceAt
    <3>3. CASE ~(x < Capacity)
      <4>1. x % Capacity = x - Capacity
        <5> HIDE DEF x
        <5>1. x - Capacity \in 0..Capacity - 1
          BY <2>1, <3>1, <3>3
        <5>2. x = 1 * Capacity + (x - Capacity)
          BY <2>1, <3>1
        <5> QED
          BY <2>1, <3>1, <5>1, <5>2
      <4> QED
        BY <2>1, <3>1, <3>3, <4>1 DEF PlaceAt
    <3> QED
      BY <3>2, <3>3
  <2> QED
    BY <1>1, <2>2 DEF Waits
<1> HIDE DEF k
<1>3. waiting = [n \in 1..N |-> k[P + n]]
  BY <1>2
<1> HIDE DEF waiting
<1>4. \A n \in 1..N : P + n \in 1..Len(k) /\ k[P + n] \in NoteEvents
  BY <1>1, ElementOfSeq
<1>5. Len(waiting) = N
  <2>1. waiting \in [1..N -> NoteEvents]
    BY <1>3, <1>4
  <2> HIDE DEF N
  <2> QED
    BY <1>1, <2>1, SeqDef
<1>6. shown = [n \in 1..N |-> handle_event(k[P + n])]
  BY <1>3, <1>5
<1> HIDE DEF shown
<1>7. shown \in Seq(Printed) /\ Len(shown) = N /\ \A n \in 1..N : shown[n] = handle_event(k[P + n])
  <2>1. \A n \in 1..N : handle_event(k[P + n]) \in Printed
    BY <1>4 DEF Printed
  <2>2. shown \in [1..N -> Printed]
    BY <1>6, <2>1
  <2>3. shown \in Seq(Printed) /\ Len(shown) = N
    <3> HIDE DEF N
    <3> QED
      BY <1>1, <2>2, SeqDef
  <2> QED
    BY <1>6, <2>3
<1>8. whole \in Seq(Printed) /\ Len(whole) = P + N /\ \A n \in 1..P + N : whole[n] = handle_event(k[n])
  <2>1. \A n \in 1..P + N : handle_event(k[n]) \in Printed
    BY <1>1, ElementOfSeq DEF Printed
  <2>2. whole \in [1..(P + N) -> Printed] /\ P + N \in Nat
    BY <1>1, <2>1
  <2>3. whole \in Seq(Printed) /\ Len(whole) = P + N
    <3> HIDE DEF N, P, whole
    <3> QED
      BY <2>2, SeqDef
  <2> QED
    BY <2>3
<1> HIDE DEF whole
<1>9. printed \o shown = whole
  <2> HIDE DEF P
  <2>1. /\ printed \o shown \in Seq(Printed) /\ Len(printed \o shown) = Len(printed) + Len(shown)
        /\ \A n \in 1..Len(printed) + Len(shown) : (printed \o shown)[n] = IF n <= Len(printed) THEN printed[n] ELSE shown[n - Len(printed)]
    BY <1>1, <1>7, ConcatProperties
  <2>2. ASSUME NEW n \in 1..P + N
        PROVE  (printed \o shown)[n] = whole[n]
    <3>1. (printed \o shown)[n] = IF n <= P THEN printed[n] ELSE shown[n - P]
      BY <1>7, <2>1 DEF P
    <3>2. CASE n <= P
      <4>1. n \in 1..P
        BY <1>1, <3>2
      <4> QED
        BY <1>1, <1>8, <3>1, <3>2, <4>1 DEF PrintedAs, P
    <3>3. CASE ~(n <= P)
      <4>1. n - P \in 1..N /\ P + (n - P) = n
        BY <1>1, <3>3
      <4>2. shown[n - P] = handle_event(k[P + (n - P)])
        BY <1>7, <4>1
      <4> QED
        BY <1>8, <3>1, <3>3, <4>1, <4>2
    <3> QED
      BY <3>2, <3>3
  <2>3. Len(printed \o shown) = P + N
    BY <1>7, <2>1 DEF P
  <2> QED
    BY <1>8, <2>1, <2>2, <2>3, SeqEqual
<1>10. ASSUME NEW n \in DOMAIN printed, printed[n].said \in SingleKinds
       PROVE  \E b \in Range(batches) : \E e \in Range(b) : e = [id |-> printed[n].id, mask |-> {printed[n].said}]
  <2>1. n \in 1..P /\ n \in 1..Len(k)
    BY <1>1, <1>10, LenProperties
  <2>2. k[n] \in NoteEvents /\ printed[n] = handle_event(k[n])
    BY <1>1, <2>1, ElementOfSeq DEF PrintedAs
  <2>3. k[n] = [id |-> printed[n].id, mask |-> {printed[n].said}]
    BY <1>10, <2>2, SaidIsMask
  <2>4. \E b \in Range(batches) : k[n] \in Range(b)
    BY <1>1, <2>1 DEF FromReads
  <2> QED
    BY <2>3, <2>4
<1>11. Len(printed) + iq.size <= Len(k) /\ Len(k) = Len(printed) + iq.size
  BY <1>1
<1> QED
  BY <1>9, <1>10, <1>11 DEF InotifyInOrder, k, whole, shown, waiting

-----------------------------------------------------------------------------
\* InotifyInOrder: whatever the directory does, however many events a read
\* returns and wherever the ring stands, events are printed once and in the
\* order of the device, without those a read had too many of.
THEOREM InotifyIsInOrder == InotifySpec => []InotifyInOrder
<1>1. InotifyInit => InotifyInv
  <2> SUFFICES ASSUME InotifyInit
               PROVE  InotifyInv
    OBVIOUS
  <2>1. iq = queue_create /\ device = <<>> /\ batches = <<>> /\ printed = <<>> /\ ipc = "start"
    BY DEF InotifyInit, InotifyRest
  <2>2. InotifyTyped /\ Joins(iq) /\ iq.size = 0
    BY <2>1, FreshQueue, EmptySeq DEF InotifyTyped
  <2>3. KeptOf(batches) = <<>> /\ Len(KeptOf(batches)) = 0 /\ Len(printed) = 0
    <3>1. batches \in Seq(Seq(NoteEvents)) /\ <<>> \in Seq(NoteEvents)
      BY <2>2, EmptySeq DEF InotifyTyped
    <3> QED
      BY <2>1, <3>1, KeptGrows, EmptySeq
  <2>4. PrintedAs(printed, KeptOf(batches)) /\ Waits(iq, KeptOf(batches), Len(printed)) /\ FromReads(KeptOf(batches), batches)
    BY <2>2, <2>3 DEF PrintedAs, Waits, FromReads
  <2> QED
    BY <2>1, <2>2, <2>3, <2>4 DEF InotifyInv
<1>2. InotifyInv /\ [InotifyNext]_inotifyVars => InotifyInv'
  <2> SUFFICES ASSUME InotifyInv, [InotifyNext]_inotifyVars
               PROVE  InotifyInv'
    OBVIOUS
  <2>0. device \in Seq(NoteEvents) /\ iq \in Queues /\ batches \in Seq(Seq(NoteEvents))
    BY DEF InotifyInv, InotifyTyped
  <2>1. CASE LoopHandle
    <3>1. CASE queue_empty(iq)
      BY <2>0, <2>1, <3>1, QueueUndisturbed DEF LoopHandle, queue_empty
    <3>2. CASE ~queue_empty(iq)
      BY <2>1, <3>2, HandledInOrder DEF LoopHandle
    <3> QED
      BY <3>1, <3>2
  <2>2. CASE event_check
    <3>1. iq.size = 0
      BY <2>2 DEF event_check, InotifyInv
    <3> QED
      BY <2>0, <2>2, <3>1, QueueUndisturbed DEF event_check
  <2>3. CASE LoopRead
    <3>1. iq.size = 0
      BY <2>3 DEF LoopRead, InotifyInv
    <3>2. CASE read_events /\ ipc' = "handle" /\ UNCHANGED printed
      BY <2>3, <3>2, ReadInOrder DEF LoopRead
    <3>3. CASE ipc' = "broken" /\ UNCHANGED <<iq, device, batches, printed>>
      BY <2>0, <3>1, <3>3, QueueUndisturbed
    <3> QED
      BY <2>3, <3>2, <3>3 DEF LoopRead
  <2>4. CASE open_inotify_dev
    <3>1. iq.size = 0
      BY <2>4 DEF open_inotify_dev, InotifyInv
    <3> QED
      BY <2>0, <2>4, <3>1, FreshQueue, QueueUndisturbed DEF open_inotify_dev
  <2>5. CASE watch_dir
    BY <2>0, <2>5, QueueUndisturbed DEF watch_dir
  <2>6. CASE FinishUp
    <3>1. iq.size = 0
      BY <2>6 DEF FinishUp, InotifyInv
    <3> QED
      BY <2>0, <2>6, <3>1, FreshQueue, QueueUndisturbed DEF FinishUp
  <2>7. CASE DeviceReports
    <3> DEFINE seen == EventsRead(batches) + Len(device)
    <3>1. seen + 1 \in Nat
      BY <2>0, EventsReadNat, LenProperties
    <3>2. PICK m \in EventMasks : device' = Append(device, [id |-> seen + 1, mask |-> m])
      BY <2>7 DEF DeviceReports
    <3>3. [id |-> seen + 1, mask |-> m] \in NoteEvents
      BY <3>1 DEF NoteEvents
    <3> HIDE DEF seen
    <3>4. device' \in Seq(NoteEvents)
      BY <2>0, <3>2, <3>3, AppendProperties
    <3>5. UNCHANGED <<iq, ipc, batches, printed>>
      BY <2>7 DEF DeviceReports
    <3>6. ipc' # "handle" => iq'.size = 0
      BY <3>5 DEF InotifyInv
    <3>7. ipc' \in {"start", "watch", "handle", "check", "read", "broken", "ended"}
      BY <3>5 DEF InotifyInv, InotifyTyped
    <3> QED
      BY <3>4, <3>5, <3>6, <3>7, QueueUndisturbed
  <2>8. CASE UNCHANGED inotifyVars
    <3>1. UNCHANGED <<iq, ipc, device, batches, printed>>
      BY <2>8 DEF inotifyVars
    <3>2. ipc' # "handle" => iq'.size = 0
      BY <3>1 DEF InotifyInv
    <3>3. ipc' \in {"start", "watch", "handle", "check", "read", "broken", "ended"}
      BY <3>1 DEF InotifyInv, InotifyTyped
    <3> QED
      BY <2>0, <3>1, <3>2, <3>3, QueueUndisturbed
  <2> QED
    BY <2>1, <2>2, <2>3, <2>4, <2>5, <2>6, <2>7, <2>8 DEF InotifyNext, process_inotify_events
<1> QED
  BY <1>1, <1>2, InotifyInvOrder, PTL DEF InotifySpec

-----------------------------------------------------------------------------
(* Sums over finite sets.                                                  *)

\* f takes each set of D to the sum of v over it, as SumOver takes it apart.
SumsUp(f, D, v) ==
  \A T \in D : f[T] = IF T = {} THEN 0 ELSE v[CHOOSE x \in T : TRUE] + f[T \ {CHOOSE x \in T : TRUE}]

\* Induction over the subsets of a finite set by their size.
LEMMA SubsetInduction ==
  ASSUME NEW S, IsFiniteSet(S), NEW G, {} \in G,
         \A T \in SUBSET S : T # {} /\ (\A U \in SUBSET S : Cardinality(U) < Cardinality(T) => U \in G) => T \in G
  PROVE  SUBSET S \subseteq G
<1> DEFINE Small(n) == {T \in SUBSET S : Cardinality(T) <= n}
           N == {n \in Nat : Small(n) \subseteq G}
<1>1. \A T \in SUBSET S : IsFiniteSet(T) /\ Cardinality(T) \in Nat
  BY FS_Subset, FS_CardinalityType
<1>2. 0 \in N
  <2>1. \A T \in SUBSET S : Cardinality(T) <= 0 => T = {}
    BY <1>1, FS_EmptySet
  <2> QED
    BY <2>1
<1>3. ASSUME NEW n \in Nat, n \in N
      PROVE  n + 1 \in N
  <2>1. SUFFICES ASSUME NEW T \in SUBSET S, Cardinality(T) <= n + 1
                 PROVE  T \in G
    OBVIOUS
  <2>2. \A U \in SUBSET S : Cardinality(U) < Cardinality(T) => Cardinality(U) <= n
    BY <1>1, <2>1
  <2>3. \A U \in SUBSET S : Cardinality(U) < Cardinality(T) => U \in G
    BY <1>3, <2>2
  <2> QED
    BY <2>3
<1> HIDE DEF N
<1>4. Nat \subseteq N
  BY <1>2, <1>3, NatSetInduction
<1>5. ASSUME NEW T \in SUBSET S
      PROVE  T \in G
  <2>1. Cardinality(T) \in Nat
    BY <1>1
  <2>2. Small(Cardinality(T)) \subseteq G
    BY <2>1, <1>4 DEF N
  <2> QED
    BY <2>1, <2>2
<1> QED
  BY <1>5

\* The member a set is taken apart at, and what is left.
LEMMA TakenApart ==
  ASSUME NEW S, IsFiniteSet(S), NEW T \in SUBSET S, T # {}
  PROVE  /\ (CHOOSE x \in T : TRUE) \in T
         /\ \A x \in T : /\ T \ {x} \in SUBSET S
                         /\ Cardinality(T \ {x}) \in Nat /\ Cardinality(T \ {x}) + 1 = Cardinality(T)
<1>1. IsFiniteSet(T) /\ Cardinality(T) \in Nat
  BY FS_Subset, FS_CardinalityType
<1>2. \A x \in T : Cardinality(T \ {x}) = Cardinality(T) - 1 /\ IsFiniteSet(T \ {x})
  BY <1>1, FS_RemoveElement
<1>3. \A x \in T : Cardinality(T \ {x}) \in Nat
  BY <1>2, FS_CardinalityType
<1> QED
  BY <1>1, <1>2, <1>3

\* SumOver is one value of such a function.
LEMMA SumOverExists ==
  ASSUME NEW S, IsFiniteSet(S), NEW v \in [S -> Nat]
  PROVE  \E f \in [SUBSET S -> Nat] : SumsUp(f, SUBSET S, v) /\ SumOver(S, v) = f[S]
<1> DEFINE Small(n) == {T \in SUBSET S : Cardinality(T) <= n}
           N == {n \in Nat : \E g \in [Small(n) -> Nat] : SumsUp(g, Small(n), v)}
           Rest(T) == T \ {CHOOSE x \in T : TRUE}
<1>1. \A T \in SUBSET S : IsFiniteSet(T) /\ Cardinality(T) \in Nat
  BY FS_Subset, FS_CardinalityType
<1>2. \A T \in SUBSET S : T # {} =>
        /\ (CHOOSE x \in T : TRUE) \in S
        /\ Rest(T) \in SUBSET S /\ Cardinality(Rest(T)) \in Nat /\ Cardinality(Rest(T)) + 1 = Cardinality(T)
  BY TakenApart
<1>3. 0 \in N
  <2>1. \A T \in SUBSET S : Cardinality(T) <= 0 => T = {}
    BY <1>1, FS_EmptySet
  <2> DEFINE g == [T \in Small(0) |-> 0]
  <2>2. g \in [Small(0) -> Nat]
    OBVIOUS
  <2>3. SumsUp(g, Small(0), v)
    BY <2>1 DEF SumsUp
  <2> QED
    BY <2>2, <2>3
<1>4. ASSUME NEW n \in Nat, n \in N
      PROVE  n + 1 \in N
  <2>1. PICK g \in [Small(n) -> Nat] : SumsUp(g, Small(n), v)
    BY <1>4
  <2> DEFINE h == [T \in Small(n + 1) |-> IF T = {} THEN 0 ELSE v[CHOOSE x \in T : TRUE] + g[Rest(T)]]
  <2>2. \A T \in Small(n + 1) : T # {} => Rest(T) \in Small(n)
    BY <1>2
  <2>3. h \in [Small(n + 1) -> Nat]
    <3>1. ASSUME NEW T \in Small(n + 1), T # {}
          PROVE  v[CHOOSE x \in T : TRUE] \in Nat /\ g[Rest(T)] \in Nat
      <4>1. (CHOOSE x \in T : TRUE) \in S
        BY <1>2, <3>1
      <4>2. Rest(T) \in Small(n)
        BY <2>2, <3>1
      <4> QED
        BY <4>1, <4>2
    <3> QED
      BY <3>1
  <2>4. \A T \in Small(n) : T \in Small(n + 1)
    BY <1>1
  <2>5. \A T \in Small(n) : h[T] = g[T]
    BY <2>1, <2>4 DEF SumsUp
  <2>6. ASSUME NEW T \in Small(n + 1)
        PROVE  h[T] = IF T = {} THEN 0 ELSE v[CHOOSE x \in T : TRUE] + h[Rest(T)]
    <3>1. h[T] = IF T = {} THEN 0 ELSE v[CHOOSE x \in T : TRUE] + g[Rest(T)]
      BY <2>6
    <3>2. T # {} => h[Rest(T)] = g[Rest(T)]
      BY <2>2, <2>5
    <3> HIDE DEF h
    <3> QED
      BY <3>1, <3>2
  <2> HIDE DEF h
  <2>7. SumsUp(h, Small(n + 1), v)
    BY <2>6, Zenon DEF SumsUp
  <2>8. \E f \in [Small(n + 1) -> Nat] : SumsUp(f, Small(n + 1), v)
    BY <2>3, <2>7, Zenon
  <2> HIDE DEF Small
  <2>9. n + 1 \in Nat
    OBVIOUS
  <2> QED
    BY <2>8, <2>9, Zenon
<1> HIDE DEF N
<1>5. Nat \subseteq N
  BY <1>3, <1>4, NatSetInduction
<1>6. PICK g \in [Small(Cardinality(S)) -> Nat] : SumsUp(g, Small(Cardinality(S)), v)
  BY <1>1, <1>5 DEF N
<1>7. Small(Cardinality(S)) = SUBSET S
  BY FS_Subset
<1> DEFINE sum == CHOOSE f : f = [T \in SUBSET S |-> IF T = {} THEN 0 ELSE LET s == CHOOSE x \in T : TRUE IN v[s] + f[T \ {s}]]
<1>8. g \in [SUBSET S -> Nat] /\ SumsUp(g, SUBSET S, v)
  BY <1>6, <1>7
<1>9. g = [T \in SUBSET S |-> IF T = {} THEN 0 ELSE v[CHOOSE x \in T : TRUE] + g[T \ {CHOOSE x \in T : TRUE}]]
  BY <1>8 DEF SumsUp
<1>10. sum = [T \in SUBSET S |-> IF T = {} THEN 0 ELSE LET s == CHOOSE x \in T : TRUE IN v[s] + sum[T \ {s}]]
  <2>1. \E f : f = [T \in SUBSET S |-> IF T = {} THEN 0 ELSE LET s == CHOOSE x \in T : TRUE IN v[s] + f[T \ {s}]]
    BY <1>9, Zenon
  <2> QED
    BY <2>1, Zenon
<1>11. SumOver(S, v) = sum[S]
  BY Zenon DEF SumOver
<1> HIDE DEF sum
<1>12. SumsUp(sum, SUBSET S, v)
  BY <1>10 DEF SumsUp
<1>13. \A T \in SUBSET S : sum[T] = g[T]
  <2> DEFINE G == {T \in SUBSET S : sum[T] = g[T]}
  <2>1. {} \in G
    BY <1>8, <1>12 DEF SumsUp
  <2>2. ASSUME NEW T \in SUBSET S, T # {}, \A U \in SUBSET S : Cardinality(U) < Cardinality(T) => U \in G
        PROVE  T \in G
    <3>1. Rest(T) \in G
      BY <1>2, <2>2
    <3> QED
      BY <3>1, <1>8, <1>12, <2>2 DEF SumsUp
  <2> HIDE DEF G
  <2>3. SUBSET S \subseteq G
    BY <2>1, <2>2, SubsetInduction
  <2> QED
    BY <2>3 DEF G
<1> QED
  BY <1>8, <1>11, <1>13

\* Any member may be taken out first.
LEMMA SumsUpAnyOrder ==
  ASSUME NEW S, IsFiniteSet(S), NEW v \in [S -> Nat], NEW f \in [SUBSET S -> Nat], SumsUp(f, SUBSET S, v),
         NEW T \in SUBSET S, NEW x \in T
  PROVE  f[T] = v[x] + f[T \ {x}]
<1> DEFINE G == {U \in SUBSET S : \A y \in U : f[U] = v[y] + f[U \ {y}]}
<1>1. {} \in G
  OBVIOUS
<1>2. ASSUME NEW U \in SUBSET S, U # {}, \A W \in SUBSET S : Cardinality(W) < Cardinality(U) => W \in G, NEW y \in U
      PROVE  f[U] = v[y] + f[U \ {y}]
  <2> DEFINE c == CHOOSE z \in U : TRUE
  <2>1. c \in U /\ f[U] = v[c] + f[U \ {c}]
    BY <1>2 DEF SumsUp
  <2> HIDE DEF c
  <2>2. CASE y = c
    BY <2>1, <2>2
  <2>3. CASE y # c
    <3>1. U \ {c} \in G /\ U \ {y} \in G
      <4>1. \A e \in U : U \ {e} \in SUBSET S /\ Cardinality(U \ {e}) \in Nat /\ Cardinality(U \ {e}) + 1 = Cardinality(U)
        BY <1>2, TakenApart
      <4>2. \A e \in U : U \ {e} \in SUBSET S /\ Cardinality(U \ {e}) < Cardinality(U)
        BY <4>1
      <4> HIDE DEF G
      <4> QED
        BY <1>2, <2>1, <4>2
    <3>2. f[U \ {c}] = v[y] + f[(U \ {c}) \ {y}]
      BY <2>3, <3>1
    <3>3. f[U \ {y}] = v[c] + f[(U \ {y}) \ {c}]
      BY <2>1, <2>3, <3>1
    <3>4. (U \ {c}) \ {y} = (U \ {y}) \ {c}
      OBVIOUS
    <3>5. v[c] \in Nat /\ v[y] \in Nat /\ f[(U \ {c}) \ {y}] \in Nat
      BY <2>1
    <3>6. \A a, b, r \in Nat : a + (b + r) = b + (a + r)
      OBVIOUS
    <3>7. f[U] = v[c] + (v[y] + f[(U \ {c}) \ {y}])
      BY <2>1, <3>2, Zenon
    <3>8. v[y] + f[U \ {y}] = v[y] + (v[c] + f[(U \ {c}) \ {y}])
      BY <3>3, <3>4, Zenon
    <3> QED
      BY <3>5, <3>6, <3>7, <3>8, Zenon
  <2> QED
    BY <2>2, <2>3
<1>3. \A U \in SUBSET S : U # {} /\ (\A W \in SUBSET S : Cardinality(W) < Cardinality(U) => W \in G) => U \in G
  BY <1>2
<1> HIDE DEF G
<1>4. SUBSET S \subseteq G
  BY <1>1, <1>3, SubsetInduction
<1> QED
  BY <1>4 DEF G

\* A sum is a number.
LEMMA SumOverNat ==
  ASSUME NEW S, IsFiniteSet(S), NEW v \in [S -> Nat]
  PROVE  SumOver(S, v) \in Nat
<1>1. PICK f \in [SUBSET S -> Nat] : SumsUp(f, SUBSET S, v) /\ SumOver(S, v) = f[S]
  BY SumOverExists
<1> QED
  BY <1>1

\* The empty sum.
LEMMA SumOverEmpty ==
  ASSUME NEW v \in [{} -> Nat]
  PROVE  SumOver({}, v) = 0
<1>1. IsFiniteSet({})
  BY FS_EmptySet
<1>2. PICK f \in [SUBSET {} -> Nat] : SumsUp(f, SUBSET {}, v) /\ SumOver({}, v) = f[{}]
  BY <1>1, SumOverExists
<1> QED
  BY <1>2 DEF SumsUp

\* The sum of sums.
LEMMA SumOverPlus ==
  ASSUME NEW S, IsFiniteSet(S), NEW v \in [S -> Nat], NEW w \in [S -> Nat],
         NEW z \in [S -> Nat], \A x \in S : z[x] = v[x] + w[x]
  PROVE  SumOver(S, z) = SumOver(S, v) + SumOver(S, w)
<1>1. PICK f \in [SUBSET S -> Nat] : SumsUp(f, SUBSET S, v) /\ SumOver(S, v) = f[S]
  BY SumOverExists
<1>2. PICK g \in [SUBSET S -> Nat] : SumsUp(g, SUBSET S, w) /\ SumOver(S, w) = g[S]
  BY SumOverExists
<1>3. PICK h \in [SUBSET S -> Nat] : SumsUp(h, SUBSET S, z) /\ SumOver(S, z) = h[S]
  BY SumOverExists
<1> DEFINE G == {T \in SUBSET S : h[T] = f[T] + g[T]}
<1>4. {} \in G
  BY <1>1, <1>2, <1>3 DEF SumsUp
<1>5. ASSUME NEW T \in SUBSET S, T # {}, \A U \in SUBSET S : Cardinality(U) < Cardinality(T) => U \in G
      PROVE  h[T] = f[T] + g[T]
  <2> DEFINE c == CHOOSE x \in T : TRUE
  <2>1. /\ f[T] = v[c] + f[T \ {c}] /\ g[T] = w[c] + g[T \ {c}] /\ h[T] = z[c] + h[T \ {c}]
    BY <1>1, <1>2, <1>3, <1>5 DEF SumsUp
  <2>2. c \in S /\ T \ {c} \in G
    <3>1. c \in T /\ (\A x1 \in T : T \ {x1} \in SUBSET S /\ Cardinality(T \ {x1}) \in Nat /\ Cardinality(T \ {x1}) + 1 = Cardinality(T))
      BY <1>5, TakenApart
    <3> HIDE DEF c, G
    <3>2. T \ {c} \in SUBSET S /\ Cardinality(T \ {c}) < Cardinality(T)
      BY <3>1
    <3> QED
      BY <1>5, <3>1, <3>2
  <2> HIDE DEF c
  <2>3. v[c] \in Nat /\ w[c] \in Nat /\ f[T \ {c}] \in Nat /\ g[T \ {c}] \in Nat
    BY <2>2
  <2> QED
    BY <2>1, <2>2, <2>3
<1>6. \A T \in SUBSET S : T # {} /\ (\A U \in SUBSET S : Cardinality(U) < Cardinality(T) => U \in G) => T \in G
  BY <1>5
<1> HIDE DEF G
<1>7. S \in G
  BY <1>4, <1>6, SubsetInduction
<1> QED
  BY <1>1, <1>2, <1>3, <1>7 DEF G

\* The sum over a set with one member more.
LEMMA SumOverAdd ==
  ASSUME NEW S, IsFiniteSet(S), NEW x, x \notin S, NEW v \in [S -> Nat], NEW w \in [S \cup {x} -> Nat],
         \A y \in S : w[y] = v[y]
  PROVE  SumOver(S \cup {x}, w) = w[x] + SumOver(S, v)
<1> DEFINE W == S \cup {x}
<1>1. IsFiniteSet(W)
  BY FS_AddElement
<1>2. PICK f \in [SUBSET S -> Nat] : SumsUp(f, SUBSET S, v) /\ SumOver(S, v) = f[S]
  BY SumOverExists
<1>3. PICK g \in [SUBSET W -> Nat] : SumsUp(g, SUBSET W, w) /\ SumOver(W, w) = g[W]
  BY <1>1, SumOverExists
<1>4. g[W] = w[x] + g[W \ {x}]
  <2>1. W \in SUBSET W /\ x \in W /\ w \in [W -> Nat]
    OBVIOUS
  <2> HIDE DEF W
  <2> QED
    BY <1>1, <1>3, <2>1, SumsUpAnyOrder
<1>5. W \ {x} = S
  OBVIOUS
<1> DEFINE G == {T \in SUBSET S : g[T] = f[T]}
<1>6. {} \in G
  BY <1>2, <1>3 DEF SumsUp
<1>7. ASSUME NEW T \in SUBSET S, T # {}, \A U \in SUBSET S : Cardinality(U) < Cardinality(T) => U \in G
      PROVE  g[T] = f[T]
  <2> DEFINE c == CHOOSE z \in T : TRUE
  <2>1. f[T] = v[c] + f[T \ {c}]
    BY <1>2, <1>7 DEF SumsUp
  <2>2. g[T] = w[c] + g[T \ {c}]
    BY <1>3, <1>7 DEF SumsUp
  <2>3. c \in S /\ T \ {c} \in G
    <3>1. c \in T /\ (\A x1 \in T : T \ {x1} \in SUBSET S /\ Cardinality(T \ {x1}) \in Nat /\ Cardinality(T \ {x1}) + 1 = Cardinality(T))
      BY <1>7, TakenApart
    <3> HIDE DEF c, G
    <3>2. T \ {c} \in SUBSET S /\ Cardinality(T \ {c}) < Cardinality(T)
      BY <3>1
    <3> QED
      BY <1>7, <3>1, <3>2
  <2> HIDE DEF c
  <2> QED
    BY <2>1, <2>2, <2>3
<1>8. \A T \in SUBSET S : T # {} /\ (\A U \in SUBSET S : Cardinality(U) < Cardinality(T) => U \in G) => T \in G
  BY <1>7
<1> HIDE DEF G
<1>9. S \in G
  BY <1>6, <1>8, SubsetInduction
<1> QED
  BY <1>2, <1>3, <1>4, <1>5, <1>9 DEF G

-----------------------------------------------------------------------------
(* The signal meter.                                                       *)

Injects(r) == \A i, j \in DOMAIN r : r[i] = r[j] => i = j
ToldApart(S) == \A a, b \in S : SameAddr(a, b) => a = b
RingOK(r) == r \in Seq(Addresses) /\ Injects(r) /\ ToldApart(Senders(r))

\* Two addresses of one length are compared alike in either order.
LEMMA SameAddrSymmetric ==
  ASSUME NEW a \in Addresses, NEW b \in Addresses, SameAddr(a, b)
  PROVE  SameAddr(b, a)
<1>1. Len(a) = Len(b)
  BY AddressAssumption
<1>2. PICK n \in 0..Len(a) : (\A i \in 1..n : a[i] = b[i]) /\ (n = Len(a) \/ (a[n + 1] = 0 /\ b[n + 1] = 0))
  BY DEF SameAddr
<1> QED
  BY <1>1, <1>2 DEF SameAddr

\* A ring of different senders has as many as it has places.
LEMMA RingSize ==
  ASSUME NEW r \in Seq(Addresses), Injects(r)
  PROVE  IsFiniteSet(Senders(r)) /\ Cardinality(Senders(r)) = Len(r)
<1>1. Len(r) \in Nat /\ DOMAIN r = 1..Len(r)
  OBVIOUS
<1>2. r \in Bijection(1..Len(r), Senders(r))
  <2>1. r \in [1..Len(r) -> Senders(r)]
    BY <1>1 DEF Senders
  <2>2. \A i, j \in 1..Len(r) : r[i] = r[j] => i = j
    BY <1>1 DEF Injects
  <2>3. \A x \in Senders(r) : \E i \in 1..Len(r) : r[i] = x
    BY <1>1 DEF Senders
  <2>4. r \in Injection(1..Len(r), Senders(r))
    BY <2>1, <2>2 DEF Injection, IsInjective
  <2>5. r \in Surjection(1..Len(r), Senders(r))
    BY <2>1, <2>3 DEF Surjection
  <2> QED
    BY <2>4, <2>5 DEF Bijection
<1>3. IsFiniteSet(1..Len(r)) /\ Cardinality(1..Len(r)) = Len(r)
  BY <1>1, FS_Interval
<1>4. ExistsBijection(1..Len(r), Senders(r))
  BY <1>2 DEF ExistsBijection
<1> QED
  BY <1>3, <1>4, FS_Bijection

\* The sender of an address that is not in the ring is told apart from all
\* that are; one that is in the ring is found.
LEMMA FoundSender ==
  ASSUME RingOK(ring), NEW f \in Addresses
  PROVE  findfrom(f) \in Addresses /\ ToldApart(Senders(ring) \cup {findfrom(f)})
<1>1. \A x \in Senders(ring) : x \in Addresses
  BY DEF RingOK, Senders
<1>2. CASE Known(f) # {}
  <2>1. findfrom(f) \in Known(f)
    BY <1>2 DEF findfrom
  <2>2. findfrom(f) \in Senders(ring)
    BY <2>1 DEF Known
  <2> QED
    BY <2>2, <1>1 DEF RingOK, ToldApart
<1>3. CASE Known(f) = {}
  <2>1. findfrom(f) = f
    BY <1>3 DEF findfrom
  <2>2. \A x \in Senders(ring) : ~SameAddr(f, x)
    BY <1>3 DEF Known
  <2>3. \A x \in Senders(ring) : ~SameAddr(x, f)
    BY <1>1, <2>2, SameAddrSymmetric
  <2>4. ToldApart(Senders(ring))
    BY DEF RingOK
  <2> QED
    BY <2>1, <2>2, <2>3, <2>4 DEF ToldApart
<1> QED
  BY <1>2, <1>3

\* A new sender goes behind the one senders points to.
LEMMA RingGrows ==
  ASSUME ring \in Seq(Addresses), Injects(ring), NEW s \in Addresses
  PROVE  /\ WithSender(s) \in Seq(Addresses) /\ Injects(WithSender(s))
         /\ Senders(WithSender(s)) = Senders(ring) \cup {s}
<1>1. CASE ring = <<>>
  BY <1>1 DEF WithSender, Injects, Senders
<1>2. CASE ring # <<>> /\ s \in Senders(ring)
  BY <1>2 DEF WithSender
<1>3. CASE ring # <<>> /\ s \notin Senders(ring)
  <2> DEFINE n == Len(ring)
             w == <<Head(ring), s>> \o Tail(ring)
  <2>1. WithSender(s) = w
    BY <1>3 DEF WithSender
  <2>2. n \in Nat \ {0} /\ DOMAIN ring = 1..n /\ \A i \in 1..n : ring[i] \in Addresses
    BY <1>3
  <2>3. /\ w \in Seq(Addresses) /\ Len(w) = n + 1 /\ DOMAIN w = 1..(n + 1)
        /\ \A i \in 1..(n + 1) : w[i] = IF i = 1 THEN ring[1] ELSE IF i = 2 THEN s ELSE ring[i - 1]
    <3>1. /\ Tail(ring) \in Seq(Addresses) /\ Len(Tail(ring)) = n - 1
          /\ \A i \in 1..(n - 1) : Tail(ring)[i] = ring[i + 1]
      BY <1>3, HeadTailProperties
    <3>2. <<Head(ring), s>> \in Seq(Addresses) /\ Len(<<Head(ring), s>>) = 2 /\ Head(ring) = ring[1]
      BY <2>2
    <3> HIDE DEF n
    <3>3. w \in Seq(Addresses) /\ Len(w) = 2 + (n - 1)
      BY <3>1, <3>2, ConcatProperties
    <3>4. \A i \in 1..(n + 1) : w[i] = IF i <= 2 THEN <<Head(ring), s>>[i] ELSE Tail(ring)[i - 2]
      BY <2>2, <3>1, <3>2, ConcatProperties
    <3>5. \A i \in 1..(n + 1) : i > 2 => i - 2 \in 1..(n - 1) /\ (i - 2) + 1 = i - 1
      BY <2>2
    <3>6. \A i \in 1..(n + 1) : i > 2 => Tail(ring)[i - 2] = ring[i - 1]
      BY <3>1, <3>5
    <3> QED
      BY <2>2, <3>2, <3>3, <3>4, <3>6
  <2>4. \A i \in 1..n : ring[i] # s
    BY <1>3, <2>2 DEF Senders
  <2> HIDE DEF w, n
  <2>5. \A i, j \in 1..n : ring[i] = ring[j] => i = j
    BY <2>2 DEF Injects
  <2>6. Injects(w)
    <3>1. SUFFICES ASSUME NEW i \in 1..(n + 1), NEW j \in 1..(n + 1), w[i] = w[j]
                   PROVE  i = j
      BY <2>3 DEF Injects
    <3> DEFINE p(k) == IF k = 1 THEN 1 ELSE k - 1
    <3>2. \A k \in 1..(n + 1) : k # 2 => p(k) \in 1..n /\ w[k] = ring[p(k)]
      BY <2>2, <2>3
    <3>3. w[2] = s
      BY <2>2, <2>3
    <3>4. CASE i = 2 \/ j = 2
      BY <2>4, <3>1, <3>2, <3>3, <3>4
    <3>5. CASE i # 2 /\ j # 2
      <4>1. p(i) = p(j)
        BY <2>5, <3>1, <3>2, <3>5
      <4> QED
        BY <2>2, <3>5, <4>1
    <3> QED
      BY <3>4, <3>5
  <2>7. Senders(w) = Senders(ring) \cup {s}
    <3>1. \A i \in 1..(n + 1) : w[i] \in Senders(ring) \cup {s}
      <4>1. \A i \in 1..(n + 1) : i # 1 /\ i # 2 => i - 1 \in 1..n
        BY <2>2
      <4>2. 1 \in 1..n
        BY <2>2
      <4> QED
        BY <2>2, <2>3, <4>1, <4>2 DEF Senders
    <3>2. \A i \in 1..n : ring[i] \in Senders(w)
      <4>1. \A i \in 1..n : i # 1 => i + 1 \in 1..(n + 1) /\ w[i + 1] = ring[i]
        BY <2>2, <2>3
      <4>2. 1 \in 1..(n + 1) /\ w[1] = ring[1]
        BY <2>2, <2>3
      <4> QED
        BY <2>3, <4>1, <4>2 DEF Senders
    <3>3. s \in Senders(w)
      <4>1. 2 \in 1..(n + 1) /\ w[2] = s
        BY <2>2, <2>3
      <4> QED
        BY <2>3, <4>1 DEF Senders
    <3>4. Senders(w) = {w[i] : i \in 1..(n + 1)} /\ Senders(ring) = {ring[i] : i \in 1..n}
      BY <2>2, <2>3 DEF Senders
    <3> QED
      BY <3>1, <3>2, <3>3, <3>4
  <2> QED
    BY <2>1, <2>3, <2>6, <2>7
<1> QED
  BY <1>1, <1>2, <1>3

\* Turning the ring keeps its senders.
LEMMA RingTurns ==
  ASSUME NEW r \in Seq(Addresses), Injects(r), NEW s \in Senders(r)
  PROVE  /\ Turned(r, s) \in Seq(Addresses) /\ Injects(Turned(r, s))
         /\ Senders(Turned(r, s)) = Senders(r)
<1> DEFINE n == Len(r)
           k == CHOOSE i \in DOMAIN r : r[i] = s
           m == n - k + 1
           w == SubSeq(r, k, n) \o SubSeq(r, 1, k - 1)
<1>1. n \in Nat /\ DOMAIN r = 1..n /\ \A i \in 1..n : r[i] \in Addresses
  OBVIOUS
<1>2. k \in 1..n
  BY <1>1 DEF Senders
<1>3. Turned(r, s) = w
  BY DEF Turned
<1> HIDE DEF k, n
<1>4. m \in 1..n /\ m + (k - 1) = n
  BY <1>1, <1>2
<1>5. /\ w \in Seq(Addresses) /\ Len(w) = n /\ DOMAIN w = 1..n
      /\ \A i \in 1..n : w[i] = r[IF i <= m THEN k + i - 1 ELSE i - m]
  <2>1. SubSeq(r, k, n) \in Seq(Addresses) /\ Len(SubSeq(r, k, n)) = m /\ \A i \in 1..m : SubSeq(r, k, n)[i] = r[k + i - 1]
    BY <1>1, <1>2, SubSeqProperties DEF n
  <2>2. /\ SubSeq(r, 1, k - 1) \in Seq(Addresses) /\ Len(SubSeq(r, 1, k - 1)) = k - 1
        /\ \A i \in 1..(k - 1) : SubSeq(r, 1, k - 1)[i] = r[i]
    BY <1>1, <1>2, SubSeqProperties DEF n
  <2> HIDE DEF m
  <2>3. w \in Seq(Addresses) /\ Len(w) = m + (k - 1)
    BY <2>1, <2>2, ConcatProperties
  <2>4. \A i \in 1..n : w[i] = IF i <= m THEN SubSeq(r, k, n)[i] ELSE SubSeq(r, 1, k - 1)[i - m]
    <3> DEFINE x == SubSeq(r, k, n)
               y == SubSeq(r, 1, k - 1)
               z == x \o y
    <3>1. x \in Seq(Addresses) /\ y \in Seq(Addresses) /\ Len(x) = m /\ Len(y) = k - 1 /\ w = z
      BY <2>1, <2>2
    <3> HIDE DEF x, y
    <3>2. \A i \in 1..(Len(x) + Len(y)) : z[i] = IF i <= Len(x) THEN x[i] ELSE y[i - Len(x)]
      BY <3>1, ConcatProperties
    <3> HIDE DEF z, w
    <3>3. \A i \in 1..n : w[i] = IF i <= m THEN x[i] ELSE y[i - m]
      BY <1>4, <3>1, <3>2
    <3> QED
      BY <3>3 DEF x, y
  <2>5. \A i \in 1..n : i > m => i - m \in 1..(k - 1)
    BY <1>1, <1>2, <1>4
  <2>6. \A i \in 1..n : i <= m => i \in 1..m
    BY <1>1, <1>4
  <2> QED
    <3>1. w \in Seq(Addresses) /\ Len(w) = n /\ DOMAIN w = 1..n
      BY <1>4, <2>3
    <3>2. ASSUME NEW i \in 1..n
          PROVE  w[i] = r[IF i <= m THEN k + i - 1 ELSE i - m]
      BY <2>1, <2>2, <2>4, <2>5, <2>6
    <3> QED
      BY <3>1, <3>2
<1> DEFINE p(i) == IF i <= m THEN k + i - 1 ELSE i - m
<1>6. \A i \in 1..n : p(i) \in 1..n /\ w[i] = r[p(i)]
  BY <1>1, <1>2, <1>5
<1>7. \A i, j \in 1..n : p(i) = p(j) => i = j
  BY <1>1, <1>2
<1>8. \A j \in 1..n : \E i \in 1..n : p(i) = j
  <2>1. ASSUME NEW j \in 1..n
        PROVE  \E i \in 1..n : p(i) = j
    <3>1. CASE j >= k
      <4>1. j - k + 1 \in 1..n /\ p(j - k + 1) = j
        BY <1>1, <1>2, <3>1
      <4> QED
        BY <4>1
    <3>2. CASE j < k
      <4>1. j + m \in 1..n /\ p(j + m) = j
        BY <1>1, <1>2, <3>2
      <4> QED
        BY <4>1
    <3> QED
      BY <1>2, <3>1, <3>2
  <2> QED
    BY <2>1
<1> HIDE DEF w, p
<1>9. Injects(w)
  BY <1>1, <1>5, <1>6, <1>7 DEF Injects
<1>10. Senders(w) = Senders(r)
  <2>1. Senders(w) = {w[i] : i \in 1..n} /\ Senders(r) = {r[i] : i \in 1..n}
    BY <1>1, <1>5 DEF Senders
  <2>2. \A i \in 1..n : w[i] \in Senders(r)
    BY <1>6, <2>1
  <2>3. \A j \in 1..n : r[j] \in Senders(w)
    BY <1>6, <1>8, <2>1
  <2> QED
    BY <2>1, <2>2, <2>3
<1> QED
  BY <1>3, <1>5, <1>9, <1>10

\* The difference of two numbers that arrive shortened is, in the same length,
\* the difference of the true ones.
LEMMA ShortDifference ==
  ASSUME NEW m \in Nat \ {0}, NEW n \in Nat, NEW l \in Nat
  PROVE  ((n % m) - (l % m) - 1) % m = (n - l - 1) % m
<1> DEFINE x == n - l - 1
<1>1. n \div m \in Int /\ (n % m) \in Int /\ n = m * (n \div m) + (n % m)
  BY RemainderOf
<1>2. l \div m \in Int /\ (l % m) \in Int /\ l = m * (l \div m) + (l % m)
  BY RemainderOf
<1>3. x \div m \in Int /\ (x % m) \in 0..(m - 1) /\ x = m * (x \div m) + (x % m)
  BY RemainderOf
<1>4. ASSUME NEW a \in Int, NEW b \in Int, NEW c \in Int, NEW ra \in Int, NEW rb \in Int, NEW rc \in Int,
             n = m * a + ra, l = m * b + rb, x = m * c + rc
      PROVE  ra - rb - 1 = m * (c + b - a) + rc
  BY <1>4
<1>5. (n % m) - (l % m) - 1 = m * (x \div m + l \div m - n \div m) + (x % m)
  <2> HIDE DEF x
  <2>1. x \in Int
    BY DEF x
  <2> DEFINE a == n \div m
             b == l \div m
             c == x \div m
             ra == n % m
             rb == l % m
             rc == x % m
  <2>2. /\ a \in Int /\ b \in Int /\ c \in Int /\ ra \in Int /\ rb \in Int /\ rc \in Int
        /\ n = m * a + ra /\ l = m * b + rb /\ x = m * c + rc
    BY <1>1, <1>2, <1>3
  <2> HIDE DEF a, b, c, ra, rb, rc
  <2>3. ra - rb - 1 = m * (c + b - a) + rc
    BY <1>4, <2>2
  <2> QED
    BY <2>3 DEF a, b, c, ra, rb, rc
<1>6. x \div m + l \div m - n \div m \in Int
  BY <1>1, <1>2, <1>3
<1> HIDE DEF x
<1>7. ((n % m) - (l % m) - 1) % m = (x % m)
  BY <1>3, <1>5, <1>6, RemainderUnique
<1> QED
  BY <1>7 DEF x

CountKeys == {"spkts", "slost", "npkts", "bytes"}
Counts == [CountKeys -> Nat]
Stats == [seq : Nat, flags : {0, 1}, cur : Counts, T : Counts]
Truths == [first : Nat, last : Nat, ontime : Nat \ {0}, late : Nat, far : BOOLEAN]

\* The counts of a sender are those of its true numbers; the expected number
\* and the losses as long as no packet was far from the last one.
Tells(st, t) ==
  /\ st.T.spkts + st.cur.spkts = t.ontime + t.late
  /\ st.T.bytes + st.cur.bytes = PacketLen * (t.ontime + t.late)
  /\ ~t.far => /\ st.seq = t.last % RTP_SEQ_MOD
               /\ st.T.slost + st.cur.slost = t.last - t.first + 1 - t.ontime
               /\ st.cur.npkts = t.late

\* Cleared counts are counts.
LEMMA ZeroCounts ==
  DOMAIN Zero = CountKeys /\ Zero \in Counts
BY DEF Zero, CountKeys, Counts

\* The high bit splits the sequence numbers in halves.
LEMMA HalfTheNumbers ==
  /\ RTP_SEQ_MOD \in Nat \ {0} /\ RTP_SEQ_MOD \div 2 \in Nat \ {0}
  /\ RTP_SEQ_MOD = 2 * (RTP_SEQ_MOD \div 2)
<1>1. \A h \in Nat : (2 * h) \div 2 = h
  OBVIOUS
<1> QED
  BY <1>1, SeqBitsAssumption DEF RTP_SEQ_MOD

\* A new second moves counts and changes no sum.
LEMMA SummedTells ==
  ASSUME NEW st \in Stats, NEW t \in Truths, Tells(st, t)
  PROVE  /\ Summed(st) \in Stats /\ Tells(Summed(st), t)
         /\ \A k \in CountKeys : Summed(st).T[k] = st.T[k] + st.cur[k]
<1> DEFINE T2 == [k \in CountKeys |-> st.T[k] + st.cur[k]]
           cur2 == [Zero EXCEPT !.npkts = st.cur.npkts]
<1>1. st.cur \in Counts /\ st.T \in Counts /\ st.seq \in Nat
  BY DEF Stats
<1>2. T2 \in Counts
  BY <1>1 DEF Counts
<1>3. cur2 \in Counts /\ cur2.spkts = 0 /\ cur2.slost = 0 /\ cur2.bytes = 0 /\ cur2.npkts = st.cur.npkts
  BY <1>1 DEF Counts, CountKeys, Zero
<1>4. Summed(st) = [st EXCEPT !.T = T2, !.cur = cur2, !.flags = 0]
  BY ZeroCounts DEF Summed
<1>5. T2.spkts = st.T.spkts + st.cur.spkts /\ T2.slost = st.T.slost + st.cur.slost /\ T2.bytes = st.T.bytes + st.cur.bytes
  BY DEF CountKeys
<1>6. \A k \in CountKeys : T2[k] = st.T[k] + st.cur[k]
  OBVIOUS
<1> HIDE DEF T2, cur2
<1>7. /\ Summed(st) \in Stats /\ Summed(st).T = T2 /\ Summed(st).cur = cur2 /\ Summed(st).seq = st.seq
  BY <1>1, <1>2, <1>3, <1>4 DEF Stats
<1>8. T2.spkts \in Nat /\ T2.slost \in Nat /\ T2.bytes \in Nat
  BY <1>2 DEF Counts, CountKeys
<1>9. Tells(Summed(st), t)
  BY <1>3, <1>5, <1>7, <1>8 DEF Tells
<1> QED
  BY <1>6, <1>7, <1>9

\* Near the last number, the shortened difference tells late packets from
\* those that skip numbers, and how many they skip.
LEMMA GapTells ==
  ASSUME NEW n \in Nat, NEW l \in Nat,
         n - l \in (1 - RTP_SEQ_MOD \div 2)..(RTP_SEQ_MOD \div 2)
  PROVE  LET gap == (n % RTP_SEQ_MOD) - (l % RTP_SEQ_MOD) - 1
         IN  /\ Late(gap) <=> n <= l
             /\ n > l => gap % RTP_SEQ_MOD = n - l - 1
<1> DEFINE M == RTP_SEQ_MOD
           h == M \div 2
           gap == (n % M) - (l % M) - 1
<1>1. M \in Nat \ {0} /\ h \in Nat \ {0} /\ M = 2 * h
  BY HalfTheNumbers
<1>2. gap % M = (n - l - 1) % M
  BY <1>1, ShortDifference
<1>3. n - l >= 1 - h /\ n - l <= h
  BY <1>1
<1>4. Late(gap) <=> gap % M >= h
  BY DEF Late
<1> HIDE DEF M, h, gap
<1>5. CASE n > l
  <2>1. n - l - 1 \in 0..(M - 1) /\ n - l - 1 < h /\ n - l - 1 = M * 0 + (n - l - 1)
    BY <1>1, <1>3, <1>5
  <2>2. (M * 0 + (n - l - 1)) % M = n - l - 1
    BY <1>1, <2>1, RemainderUnique
  <2>3. gap % M = n - l - 1
    BY <1>2, <2>1, <2>2
  <2> QED
    BY <1>1, <1>4, <1>5, <2>1, <2>3 DEF M, gap
<1>6. CASE n <= l
  <2> DEFINE r == n - l - 1 + M
  <2>1. r \in 0..(M - 1) /\ r >= h /\ n - l - 1 = M * (-1) + r
    BY <1>1, <1>3, <1>6
  <2> HIDE DEF r
  <2>2. (M * (-1) + r) % M = r
    BY <1>1, <2>1, RemainderUnique
  <2>3. gap % M = r
    BY <1>2, <2>1, <2>2
  <2> QED
    BY <1>1, <1>4, <1>6, <2>1, <2>3 DEF M, gap
<1> QED
  BY <1>5, <1>6

\* The true numbers after packet n of a known sender.
TruthAfter(was, n) ==
  LET near == n - was.last \in (1 - RTP_SEQ_MOD \div 2)..(RTP_SEQ_MOD \div 2)
  IN  IF n > was.last THEN [was EXCEPT !.last = n, !.ontime = @ + 1, !.far = @ \/ ~near]
      ELSE [was EXCEPT !.late = @ + 1, !.far = @ \/ ~near]

\* What tabulating a packet of a known sender counts.
LEMMA TabulatedCounts ==
  ASSUME NEW st \in Stats, NEW sq \in Nat
  PROVE  LET gap == sq - st.seq - 1
             r == Tabulated(st, sq)
         IN  /\ r \in Stats /\ r.T = st.T
             /\ r.cur.spkts = st.cur.spkts + 1 /\ r.cur.bytes = st.cur.bytes + PacketLen
             /\ Late(gap) => r.seq = st.seq /\ r.cur.slost = st.cur.slost /\ r.cur.npkts = st.cur.npkts + 1
             /\ ~Late(gap) => r.seq = sq /\ r.cur.slost = st.cur.slost + (gap % RTP_SEQ_MOD) /\ r.cur.npkts = st.cur.npkts
<1> DEFINE gap == sq - st.seq - 1
           got == [st EXCEPT !.flags = 1, !.cur.spkts = @ + 1, !.cur.bytes = @ + PacketLen]
           lost == gap % RTP_SEQ_MOD
           r == Tabulated(st, sq)
<1>1. st.seq \in Nat /\ st.cur \in Counts /\ st.T \in Counts
  BY DEF Stats
<1>2. lost \in Nat
  <2>1. gap \in Int
    BY <1>1
  <2> HIDE DEF gap
  <2> QED
    BY <2>1, HalfTheNumbers, RemainderOf
<1>3. r = IF Late(gap) THEN [got EXCEPT !.cur.npkts = @ + 1] ELSE [got EXCEPT !.cur.slost = @ + lost, !.seq = sq]
  BY <1>1 DEF Tabulated
<1>4. got = [st EXCEPT !.flags = 1, !.cur = [st.cur EXCEPT !.spkts = @ + 1, !.bytes = @ + PacketLen]]
  BY DEF Stats, Counts, CountKeys
<1>5. /\ [st.cur EXCEPT !.spkts = @ + 1, !.bytes = @ + PacketLen] \in Counts
      /\ [st.cur EXCEPT !.spkts = @ + 1, !.bytes = @ + PacketLen].spkts = st.cur.spkts + 1
      /\ [st.cur EXCEPT !.spkts = @ + 1, !.bytes = @ + PacketLen].bytes = st.cur.bytes + PacketLen
      /\ [st.cur EXCEPT !.spkts = @ + 1, !.bytes = @ + PacketLen].slost = st.cur.slost
      /\ [st.cur EXCEPT !.spkts = @ + 1, !.bytes = @ + PacketLen].npkts = st.cur.npkts
  <2> DEFINE a == [st.cur EXCEPT !.spkts = @ + 1]
             b == [a EXCEPT !.bytes = @ + PacketLen]
  <2>1. a \in Counts /\ a.spkts = st.cur.spkts + 1 /\ a.bytes = st.cur.bytes /\ a.slost = st.cur.slost /\ a.npkts = st.cur.npkts
    BY <1>1 DEF Counts, CountKeys
  <2>2. [st.cur EXCEPT !.spkts = @ + 1, !.bytes = @ + PacketLen] = b
    OBVIOUS
  <2> HIDE DEF a
  <2>3. b \in Counts /\ b.spkts = a.spkts /\ b.bytes = a.bytes + PacketLen /\ b.slost = a.slost /\ b.npkts = a.npkts
    BY <2>1, PacketAssumption DEF Counts, CountKeys
  <2> HIDE DEF b
  <2> QED
    BY <2>1, <2>2, <2>3
<1>6. /\ got \in Stats /\ got.T = st.T /\ got.seq = st.seq
      /\ got.cur.spkts = st.cur.spkts + 1 /\ got.cur.bytes = st.cur.bytes + PacketLen
      /\ got.cur.slost = st.cur.slost /\ got.cur.npkts = st.cur.npkts
  <2> DEFINE c == [st.cur EXCEPT !.spkts = @ + 1, !.bytes = @ + PacketLen]
  <2>1. got = [st EXCEPT !.flags = 1, !.cur = c]
    BY <1>4
  <2>2. /\ c \in Counts /\ c.spkts = st.cur.spkts + 1 /\ c.bytes = st.cur.bytes + PacketLen
        /\ c.slost = st.cur.slost /\ c.npkts = st.cur.npkts
    BY <1>5
  <2> HIDE DEF c, got
  <2> QED
    BY <1>1, <2>1, <2>2 DEF Stats
<1> HIDE DEF got, lost, gap
<1>7. got.cur \in Counts
  BY <1>6 DEF Stats
<1>8. CASE Late(gap)
  <2> DEFINE c == [got.cur EXCEPT !.npkts = @ + 1]
  <2>1. c \in Counts /\ c.spkts = got.cur.spkts /\ c.bytes = got.cur.bytes /\ c.slost = got.cur.slost /\ c.npkts = got.cur.npkts + 1
    BY <1>7 DEF Counts, CountKeys
  <2>2. r = [got EXCEPT !.cur = c]
    BY <1>3, <1>6, <1>8 DEF Stats
  <2> HIDE DEF c, r
  <2>3. r \in Stats /\ r.T = got.T /\ r.seq = got.seq /\ r.cur = c
    BY <1>6, <2>1, <2>2 DEF Stats
  <2> QED
    BY <1>6, <1>8, <2>1, <2>3 DEF r, gap
<1>9. CASE ~Late(gap)
  <2> DEFINE c == [got.cur EXCEPT !.slost = @ + lost]
  <2>1. c \in Counts /\ c.spkts = got.cur.spkts /\ c.bytes = got.cur.bytes /\ c.slost = got.cur.slost + lost /\ c.npkts = got.cur.npkts
    BY <1>2, <1>7 DEF Counts, CountKeys
  <2>2. r = [got EXCEPT !.cur = c, !.seq = sq]
    BY <1>3, <1>6, <1>9 DEF Stats
  <2> HIDE DEF c, r
  <2>3. r \in Stats /\ r.T = got.T /\ r.seq = sq /\ r.cur = c
    BY <1>6, <2>1, <2>2 DEF Stats
  <2> QED
    BY <1>6, <1>9, <2>1, <2>3 DEF r, gap, lost
<1> QED
  BY <1>8, <1>9

\* A packet of a known sender is counted as it should be.
LEMMA TabulatedTells ==
  ASSUME NEW st \in Stats, NEW t \in Truths, Tells(st, t), NEW n \in Nat
  PROVE  LET r == Tabulated(st, getRTPseq(n))
             u == TruthAfter(t, n)
         IN  r \in Stats /\ u \in Truths /\ Tells(r, u) /\ r.T = st.T
<1> DEFINE M == RTP_SEQ_MOD
           sq == n % M
           near == n - t.last \in (1 - M \div 2)..(M \div 2)
           gap == sq - st.seq - 1
           r == Tabulated(st, sq)
           u == TruthAfter(t, n)
           A == t.ontime + t.late
           B == u.ontime + u.late
<1>1. M \in Nat \ {0} /\ sq \in Nat
  <2>1. M \in Nat \ {0}
    BY HalfTheNumbers
  <2> HIDE DEF M
  <2> QED
    BY <2>1, RemainderOf
<1>2. t.first \in Nat /\ t.last \in Nat /\ t.ontime \in Nat \ {0} /\ t.late \in Nat /\ t.far \in BOOLEAN
  BY DEF Truths
<1>3. /\ u \in Truths /\ u.first = t.first /\ (u.far <=> t.far \/ ~near)
      /\ n > t.last => u.last = n /\ u.ontime = t.ontime + 1 /\ u.late = t.late
      /\ ~(n > t.last) => u.last = t.last /\ u.ontime = t.ontime /\ u.late = t.late + 1
  <2> DEFINE f == t.far \/ ~near
  <2>1. f \in BOOLEAN
    OBVIOUS
  <2>2. u = IF n > t.last THEN [t EXCEPT !.last = n, !.ontime = @ + 1, !.far = f]
                          ELSE [t EXCEPT !.late = @ + 1, !.far = f]
    BY DEF TruthAfter
  <2> HIDE DEF f, u
  <2>3. CASE n > t.last
    <3>1. u \in Truths /\ u.first = t.first /\ u.last = n /\ u.ontime = t.ontime + 1 /\ u.late = t.late /\ u.far = f
      <4> DEFINE a == [t EXCEPT !.last = n]
                 b == [a EXCEPT !.ontime = @ + 1]
      <4>1. a \in Truths /\ a.first = t.first /\ a.last = n /\ a.ontime = t.ontime /\ a.late = t.late
        BY <1>2 DEF Truths
      <4>2. u = [b EXCEPT !.far = f]
        BY <2>2, <2>3
      <4> HIDE DEF a
      <4>3. b \in Truths /\ b.first = a.first /\ b.last = a.last /\ b.ontime = a.ontime + 1 /\ b.late = a.late
        BY <4>1 DEF Truths
      <4> HIDE DEF b
      <4>4. u \in Truths /\ u.far = f
        BY <2>1, <4>2, <4>3 DEF Truths
      <4>5. u.first = b.first /\ u.last = b.last /\ u.ontime = b.ontime /\ u.late = b.late
        BY <4>2, <4>3 DEF Truths
      <4> QED
        BY <4>1, <4>3, <4>4, <4>5
    <3> QED
      BY <2>3, <3>1 DEF f
  <2>4. CASE ~(n > t.last)
    <3>1. u \in Truths /\ u.first = t.first /\ u.last = t.last /\ u.ontime = t.ontime /\ u.late = t.late + 1 /\ u.far = f
      <4> DEFINE a == [t EXCEPT !.late = @ + 1]
      <4>1. a \in Truths /\ a.first = t.first /\ a.last = t.last /\ a.ontime = t.ontime /\ a.late = t.late + 1
        BY <1>2 DEF Truths
      <4>2. u = [a EXCEPT !.far = f]
        BY <2>2, <2>4
      <4> HIDE DEF a
      <4>3. u \in Truths /\ u.far = f
        BY <2>1, <4>1, <4>2 DEF Truths
      <4>4. u.first = a.first /\ u.last = a.last /\ u.ontime = a.ontime /\ u.late = a.late
        BY <4>1, <4>2 DEF Truths
      <4> QED
        BY <4>1, <4>3, <4>4
    <3> QED
      BY <2>4, <3>1 DEF f
  <2> QED
    BY <2>3, <2>4
<1>4. /\ r \in Stats /\ r.T = st.T
      /\ r.cur.spkts = st.cur.spkts + 1 /\ r.cur.bytes = st.cur.bytes + PacketLen
      /\ Late(gap) => r.seq = st.seq /\ r.cur.slost = st.cur.slost /\ r.cur.npkts = st.cur.npkts + 1
      /\ ~Late(gap) => r.seq = sq /\ r.cur.slost = st.cur.slost + (gap % M) /\ r.cur.npkts = st.cur.npkts
  <2> HIDE DEF sq
  <2> QED
    BY <1>1, TabulatedCounts
<1>5. /\ st.seq \in Nat /\ st.cur.spkts \in Nat /\ st.cur.slost \in Nat /\ st.cur.npkts \in Nat /\ st.cur.bytes \in Nat
      /\ st.T.spkts \in Nat /\ st.T.slost \in Nat /\ st.T.bytes \in Nat
  BY DEF Stats, Counts, CountKeys
<1>6. ~u.far => /\ ~t.far
                /\ Late(gap) <=> n <= t.last
                /\ n > t.last => gap % M = n - t.last - 1
                /\ st.seq = t.last % M
  <2> SUFFICES ASSUME ~u.far
               PROVE  /\ ~t.far
                      /\ Late(gap) <=> n <= t.last
                      /\ n > t.last => gap % M = n - t.last - 1
                      /\ st.seq = t.last % M
    OBVIOUS
  <2>1. ~t.far /\ near
    BY <1>3
  <2>2. st.seq = t.last % M
    BY <2>1 DEF Tells
  <2> QED
    BY <1>2, <2>1, <2>2, GapTells
<1> HIDE DEF r, u, gap, sq, near, M
<1>7. B = A + 1 /\ A \in Nat
  BY <1>2, <1>3
<1>8. r.T.spkts + r.cur.spkts = B
  <2>1. st.T.spkts + st.cur.spkts = A
    BY DEF Tells
  <2> QED
    BY <1>4, <1>5, <1>7, <2>1
<1>9. r.T.bytes + r.cur.bytes = PacketLen * B
  <2>1. st.T.bytes + st.cur.bytes = PacketLen * A
    BY DEF Tells
  <2> HIDE DEF A, B
  <2>2. PacketLen * B = PacketLen * A + PacketLen
    BY <1>7, PacketAssumption
  <2>3. PacketLen * A \in Nat /\ PacketLen \in Nat
    BY <1>7, PacketAssumption
  <2> QED
    BY <1>4, <1>5, <2>1, <2>2, <2>3
<1>10. ASSUME ~u.far
       PROVE  r.seq = u.last % M /\ r.T.slost + r.cur.slost = u.last - u.first + 1 - u.ontime /\ r.cur.npkts = u.late
  <2>1. ~t.far /\ st.T.slost + st.cur.slost = t.last - t.first + 1 - t.ontime /\ st.cur.npkts = t.late
    BY <1>6, <1>10 DEF Tells
  <2>2. CASE n > t.last
    <3>1. ~Late(gap) /\ gap % M = n - t.last - 1
      BY <1>2, <1>6, <1>10, <2>2
    <3>2. r.seq = sq /\ u.last = n
      BY <1>3, <1>4, <2>2, <3>1
    <3>3. r.cur.slost = st.cur.slost + (n - t.last - 1)
      BY <1>4, <3>1
    <3>4. r.T.slost + r.cur.slost = u.last - u.first + 1 - u.ontime
      <4>1. r.T.slost = st.T.slost
        BY <1>4
      <4>2. u.last = n /\ u.first = t.first /\ u.ontime = t.ontime + 1
        BY <1>3, <2>2
      <4> QED
        <5> DEFINE T == st.T.slost
                   c == st.cur.slost
                   l == t.last
                   f == t.first
                   o == t.ontime
        <5>1. T \in Int /\ c \in Int /\ l \in Int /\ f \in Int /\ o \in Int /\ n \in Int
          BY <1>2, <1>5
        <5>2. T + c = l - f + 1 - o
          BY <2>1
        <5>3. r.T.slost = T /\ r.cur.slost = c + (n - l - 1) /\ u.last = n /\ u.first = f /\ u.ontime = o + 1
          BY <3>3, <4>1, <4>2
        <5> HIDE DEF T, c, l, f, o
        <5>4. T + (c + (n - l - 1)) = n - f + 1 - (o + 1)
          BY <5>1, <5>2
        <5> QED
          BY <5>3, <5>4
    <3> QED
      BY <1>3, <1>4, <2>1, <2>2, <3>1, <3>2, <3>4 DEF sq
  <2>3. CASE n <= t.last
    <3>1. Late(gap) /\ ~(n > t.last)
      BY <1>2, <1>6, <1>10, <2>3
    <3>2. r.seq = u.last % M
      BY <1>3, <1>4, <1>6, <1>10, <3>1
    <3> QED
      BY <1>3, <1>4, <2>1, <3>1, <3>2
  <2> QED
    BY <1>2, <2>2, <2>3
<1>11. Tells(r, u)
  BY <1>8, <1>9, <1>10 DEF Tells, M
<1> QED
  BY <1>3, <1>4, <1>11 DEF getRTPseq, r, u, sq, M

\* The first packet of a sender.
FirstTruth(n) == [NewTruth EXCEPT !.first = n, !.last = n, !.ontime = 1]
LEMMA FirstTells ==
  ASSUME NEW n \in Nat
  PROVE  LET r == Tabulated(NewStat, getRTPseq(n))
         IN  r \in Stats /\ FirstTruth(n) \in Truths /\ Tells(r, FirstTruth(n)) /\ r.T = Zero
<1> DEFINE c == [Zero EXCEPT !.spkts = 1, !.bytes = PacketLen]
           r == Tabulated(NewStat, getRTPseq(n))
<1>1. c \in Counts /\ c.spkts = 1 /\ c.bytes = PacketLen /\ c.slost = 0 /\ c.npkts = 0
  <2> DEFINE a == [Zero EXCEPT !.spkts = 1]
  <2>1. a \in Counts /\ a.spkts = 1 /\ a.slost = 0 /\ a.npkts = 0
    BY DEF Zero, Counts, CountKeys
  <2>2. c = [a EXCEPT !.bytes = PacketLen]
    OBVIOUS
  <2> HIDE DEF a, c
  <2> QED
    BY <2>1, <2>2, PacketAssumption DEF Counts, CountKeys
<1>2. getRTPseq(n) \in Nat /\ getRTPseq(n) = n % RTP_SEQ_MOD
  BY HalfTheNumbers, RemainderOf DEF getRTPseq
<1>3. r = [seq |-> getRTPseq(n), flags |-> 1, cur |-> c, T |-> Zero]
  <2> DEFINE got == [NewStat EXCEPT !.flags = 1, !.cur.spkts = @ + 1, !.cur.bytes = @ + PacketLen]
  <2>1. NewStat.seq < 0
    BY DEF NewStat
  <2>2. r = [got EXCEPT !.seq = getRTPseq(n)]
    BY <2>1 DEF Tabulated
  <2>3. got = [NewStat EXCEPT !.flags = 1, !.cur = [Zero EXCEPT !.spkts = @ + 1, !.bytes = @ + PacketLen]]
    BY DEF NewStat, Zero
  <2>4. [Zero EXCEPT !.spkts = @ + 1, !.bytes = @ + PacketLen] = c
    <3>1. Zero.spkts + 1 = 1 /\ Zero.bytes + PacketLen = PacketLen
      BY PacketAssumption DEF Zero
    <3> QED
      BY <3>1
  <2> HIDE DEF c, got, r
  <2>5. got = [seq |-> -1, flags |-> 1, cur |-> c, T |-> Zero]
    BY <2>3, <2>4 DEF NewStat
  <2> QED
    BY <2>2, <2>5
<1>4. /\ FirstTruth(n) \in Truths
      /\ FirstTruth(n).first = n /\ FirstTruth(n).last = n /\ FirstTruth(n).ontime = 1 /\ FirstTruth(n).late = 0
  <2> DEFINE R == [first : Nat, last : Nat, ontime : Nat, late : Nat, far : BOOLEAN]
             a == [NewTruth EXCEPT !.first = n]
             b == [a EXCEPT !.last = n]
  <2>1. NewTruth \in R /\ NewTruth.late = 0
    BY DEF NewTruth
  <2>2. FirstTruth(n) = [b EXCEPT !.ontime = 1]
    BY DEF FirstTruth
  <2>3. a \in R /\ a.first = n /\ a.late = 0
    BY <2>1
  <2> HIDE DEF a
  <2>4. b \in R /\ b.first = n /\ b.last = n /\ b.late = 0
    BY <2>3
  <2> HIDE DEF b
  <2> QED
    BY <2>2, <2>4 DEF Truths
<1> HIDE DEF c, r
<1>5. r \in Stats /\ r.T = Zero /\ FirstTruth(n) \in Truths
  BY <1>1, <1>2, <1>3, <1>4, ZeroCounts DEF Stats
<1>6. Tells(r, FirstTruth(n))
  BY <1>1, <1>2, <1>3, <1>4, PacketAssumption DEF Tells, Zero
<1> QED
  BY <1>5, <1>6 DEF r

\* The totals of the senders of S, for one of the counts.
TotalsOf(S, f, k) == [s \in S |-> f[s].T[k]]
AllTell(S, f, t) == \A s \in S : f[s] \in Stats /\ t[s] \in Truths /\ Tells(f[s], t[s])
GrandOf(g, S, f) == g \in Counts /\ \A k \in CountKeys : g[k] = SumOver(S, TotalsOf(S, f, k))
\* The inductive invariant.  LossCounted alone is not one: the losses of the next
\* packet depend on the number the sender is expected to send, and the grand
\* totals on the counts being numbers.
RtpInv ==
  /\ RingOK(ring)
  /\ DOMAIN stats = Senders(ring) /\ DOMAIN truth = Senders(ring)
  /\ AllTell(Senders(ring), stats, truth)
  /\ GrandOf(grand, Senders(ring), stats)

\* The totals of the senders are numbers, so that they can be added up.
LEMMA TotalsAreNat ==
  ASSUME NEW S, NEW f, \A s \in S : f[s] \in Stats, NEW k \in CountKeys
  PROVE  TotalsOf(S, f, k) \in [S -> Nat]
BY DEF TotalsOf, Stats, Counts

\* LossCounted is the part of the invariant that says nothing of the expected
\* numbers and of types.
LEMMA RtpInvImplies ==
  RtpInv => LossCounted
<1> SUFFICES ASSUME RtpInv
             PROVE  LossCounted
  OBVIOUS
<1>1. Senders(ring) = DOMAIN stats /\ Cardinality(Senders(ring)) = Len(ring)
  BY RingSize DEF RtpInv, RingOK
<1>2. \A a, b \in Senders(ring) : SameAddr(a, b) => a = b
  BY DEF RtpInv, RingOK, ToldApart
<1>3. \A s \in DOMAIN stats : Tells(stats[s], truth[s])
  BY <1>1 DEF RtpInv, AllTell
<1>4. \A k \in DOMAIN Zero : grand[k] = SumOver(Senders(ring), [s \in Senders(ring) |-> stats[s].T[k]])
  BY ZeroCounts DEF RtpInv, GrandOf, TotalsOf
<1> QED
  BY <1>1, <1>2, <1>3, <1>4 DEF LossCounted, Tells

\* No sender has been heard and no sum has anything to add.
LEMMA RtpInitially ==
  RtpInit => RtpInv
<1> SUFFICES ASSUME RtpInit
             PROVE  RtpInv
  OBVIOUS
<1>1. ring = <<>> /\ stats = [s \in {} |-> NewStat] /\ grand = Zero /\ truth = [s \in {} |-> NewTruth]
  BY DEF RtpInit, RtpRest, NoStats
<1>2. Senders(ring) = {} /\ DOMAIN stats = {} /\ DOMAIN truth = {}
  BY <1>1 DEF Senders
<1>3. RingOK(ring)
  BY <1>1, <1>2 DEF RingOK, Injects, ToldApart
<1>4. ASSUME NEW k \in CountKeys
      PROVE  grand[k] = SumOver({}, TotalsOf({}, stats, k))
  <2>1. TotalsOf({}, stats, k) \in [{} -> Nat]
    BY DEF TotalsOf
  <2>2. SumOver({}, TotalsOf({}, stats, k)) = 0
    BY <2>1, SumOverEmpty
  <2> QED
    BY <1>1, <2>2 DEF Zero, CountKeys
<1> QED
  BY <1>1, <1>2, <1>3, <1>4, ZeroCounts DEF RtpInv, AllTell, GrandOf

\* The counts when the program comes to tabulate a packet.
LEMMA SecondsCounted ==
  ASSUME RtpInv
  PROVE  /\ DOMAIN AllStats = Senders(ring) /\ AllTell(Senders(ring), AllStats, truth)
         /\ GrandOf(GrandTotals, Senders(ring), AllStats)
<1>1. CASE ~NewSecond
  BY <1>1 DEF AllStats, GrandTotals, RtpInv
<1>2. CASE NewSecond
  <2> DEFINE S == Senders(ring)
             a == [s \in S |-> Summed(stats[s])]
             g == [k \in CountKeys |-> grand[k] + SumOver(S, [s \in S |-> stats[s].cur[k]])]
  <2>1. AllStats = a
    BY <1>2 DEF AllStats
  <2>2. GrandTotals = g
    BY <1>2, ZeroCounts DEF GrandTotals
  <2>3. IsFiniteSet(S)
    BY RingSize DEF RtpInv, RingOK
  <2>4. \A s \in S : stats[s] \in Stats /\ truth[s] \in Truths /\ Tells(stats[s], truth[s])
    BY DEF RtpInv, AllTell
  <2>5. grand \in Counts /\ \A k \in CountKeys : grand[k] = SumOver(S, TotalsOf(S, stats, k))
    BY DEF RtpInv, GrandOf
  <2> HIDE DEF S
  <2>6. ASSUME NEW s \in S
        PROVE  /\ a[s] \in Stats /\ Tells(a[s], truth[s])
               /\ \A k \in CountKeys : a[s].T[k] = stats[s].T[k] + stats[s].cur[k]
    <3>1. a[s] = Summed(stats[s])
      OBVIOUS
    <3>2. stats[s] \in Stats /\ truth[s] \in Truths /\ Tells(stats[s], truth[s])
      BY <2>4
    <3> QED
      BY <3>1, <3>2, SummedTells
  <2>7. DOMAIN a = S
    OBVIOUS
  <2> HIDE DEF a
  <2>8. ASSUME NEW k \in CountKeys
        PROVE  g[k] \in Nat /\ g[k] = SumOver(S, TotalsOf(S, a, k))
    <3> DEFINE v == TotalsOf(S, stats, k)
               w == [s \in S |-> stats[s].cur[k]]
               z == TotalsOf(S, a, k)
    <3>1. v \in [S -> Nat] /\ w \in [S -> Nat]
      <4>1. \A s \in S : stats[s] \in Stats
        BY <2>4
      <4>2. v \in [S -> Nat]
        BY <4>1, TotalsAreNat
      <4>3. w \in [S -> Nat]
        BY <4>1 DEF Stats, Counts
      <4> QED
        BY <4>2, <4>3
    <3>2. z \in [S -> Nat]
      BY <2>6, TotalsAreNat
    <3>3. \A x \in S : z[x] = v[x] + w[x]
      BY <2>6 DEF TotalsOf
    <3>4. g[k] = grand[k] + SumOver(S, w)
      OBVIOUS
    <3>5. grand[k] = SumOver(S, v)
      BY <2>5
    <3> HIDE DEF g, v, w, z
    <3>6. SumOver(S, z) = SumOver(S, v) + SumOver(S, w)
      BY <2>3, <3>1, <3>2, <3>3, SumOverPlus
    <3>7. SumOver(S, v) \in Nat /\ SumOver(S, w) \in Nat
      BY <2>3, <3>1, SumOverNat
    <3> QED
      BY <3>4, <3>5, <3>6, <3>7 DEF z
  <2>9. g \in Counts
    BY <2>8 DEF Counts
  <2> HIDE DEF g
  <2> QED
    BY <2>1, <2>2, <2>4, <2>6, <2>7, <2>8, <2>9 DEF AllTell, GrandOf, S
<1> QED
  BY <1>1, <1>2

\* One turn of main: the second that may have ended is summed, then the packet
\* is counted for its sender, whose place in the ring becomes the first.
LEMMA PacketKeeps ==
  ASSUME RtpInv, NEW f \in Addresses, NEW n \in 0..MaxTrue, PacketArrives(f, n)
  PROVE  RtpInv'
<1> DEFINE s == findfrom(f)
           S == Senders(ring)
           S2 == S \cup {s}
           before == IF s \in DOMAIN AllStats THEN AllStats[s] ELSE NewStat
           was == IF s \in DOMAIN truth THEN truth[s] ELSE NewTruth
           r == Tabulated(before, getRTPseq(n))
           u == IF was.ontime = 0 THEN FirstTruth(n) ELSE TruthAfter(was, n)
<1>1. n \in Nat
  BY PacketAssumption
<1>2. /\ stats' = [x \in DOMAIN AllStats \cup {s} |-> IF x = s THEN r ELSE AllStats[x]]
      /\ grand' = GrandTotals
      /\ ring' = Turned(WithSender(s), s)
      /\ truth' = [x \in DOMAIN truth \cup {s} |-> IF x = s THEN u ELSE truth[x]]
  <2>1. /\ stats' = [x \in DOMAIN AllStats \cup {s} |-> IF x = s THEN r ELSE AllStats[x]]
        /\ grand' = GrandTotals
        /\ ring' = Turned(WithSender(s), s)
    BY DEF PacketArrives
  <2>2. truth' = [x \in DOMAIN truth \cup {s} |->
           IF x # s THEN truth[x]
           ELSE IF was.ontime = 0 THEN FirstTruth(n) ELSE TruthAfter(was, n)]
    BY DEF PacketArrives, FirstTruth, TruthAfter
  <2> HIDE DEF s, r, was
  <2> QED
    BY <2>1, <2>2
<1>3. /\ DOMAIN AllStats = S /\ AllTell(S, AllStats, truth) /\ GrandOf(GrandTotals, S, AllStats)
  BY SecondsCounted
<1>4. DOMAIN truth = S /\ RingOK(ring)
  BY DEF RtpInv
<1>5. s \in Addresses /\ ToldApart(S2)
  BY <1>4, FoundSender
<1> HIDE DEF s
<1>6. RingOK(ring') /\ Senders(ring') = S2
  <2> DEFINE w == WithSender(s)
  <2>1. w \in Seq(Addresses) /\ Injects(w) /\ Senders(w) = S2
    BY <1>4, <1>5, RingGrows DEF RingOK
  <2>2. s \in Senders(w)
    BY <2>1
  <2> HIDE DEF w
  <2>3. Turned(w, s) \in Seq(Addresses) /\ Injects(Turned(w, s)) /\ Senders(Turned(w, s)) = S2
    BY <2>1, <2>2, RingTurns
  <2>4. ring' = Turned(w, s)
    BY <1>2 DEF w
  <2> QED
    BY <1>5, <2>3, <2>4 DEF RingOK
<1>7. r \in Stats /\ u \in Truths /\ Tells(r, u) /\ (s \in S => r.T = AllStats[s].T) /\ (s \notin S => r.T = Zero)
  <2>1. CASE s \in S
    <3>1. AllStats[s] \in Stats /\ truth[s] \in Truths /\ Tells(AllStats[s], truth[s])
      BY <1>3, <2>1 DEF AllTell
    <3>2. before = AllStats[s] /\ was = truth[s]
      BY <1>3, <1>4, <2>1
    <3>3. truth[s].ontime # 0
      BY <3>1 DEF Truths
    <3>4. u = TruthAfter(truth[s], n) /\ r = Tabulated(AllStats[s], getRTPseq(n))
      BY <3>2, <3>3
    <3> HIDE DEF r, u
    <3> QED
      BY <1>1, <2>1, <3>1, <3>4, TabulatedTells
  <2>2. CASE s \notin S
    <3>1. before = NewStat /\ was = NewTruth
      BY <1>3, <1>4, <2>2
    <3>2. u = FirstTruth(n) /\ r = Tabulated(NewStat, getRTPseq(n))
      BY <3>1 DEF NewTruth
    <3> HIDE DEF r, u
    <3> QED
      BY <1>1, <2>2, <3>2, FirstTells
  <2> QED
    BY <2>1, <2>2
<1> HIDE DEF r, u, S
<1>8. /\ stats' = [x \in S2 |-> IF x = s THEN r ELSE AllStats[x]]
      /\ truth' = [x \in S2 |-> IF x = s THEN u ELSE truth[x]]
  BY <1>2, <1>3, <1>4
<1>9. AllTell(S2, stats', truth')
  <2>1. ASSUME NEW x \in S2
        PROVE  stats'[x] \in Stats /\ truth'[x] \in Truths /\ Tells(stats'[x], truth'[x])
    <3>1. CASE x = s
      BY <1>7, <1>8, <3>1
    <3>2. CASE x # s
      <4>1. x \in S /\ stats'[x] = AllStats[x] /\ truth'[x] = truth[x]
        BY <1>8, <3>2
      <4> QED
        BY <1>3, <4>1 DEF AllTell
    <3> QED
      BY <3>1, <3>2
  <2> QED
    BY <2>1 DEF AllTell
<1>10. GrandOf(grand', S2, stats')
  <2>1. grand' = GrandTotals /\ grand' \in Counts
    BY <1>2, <1>3 DEF GrandOf
  <2>2. ASSUME NEW k \in CountKeys
        PROVE  grand'[k] = SumOver(S2, TotalsOf(S2, stats', k))
    <3> DEFINE v == TotalsOf(S, AllStats, k)
               w == TotalsOf(S2, stats', k)
    <3>1. grand'[k] = SumOver(S, v)
      BY <1>3, <2>1 DEF GrandOf
    <3>2. v \in [S -> Nat]
      BY <1>3, TotalsAreNat DEF AllTell
    <3>3. w \in [S2 -> Nat]
      BY <1>9, TotalsAreNat DEF AllTell
    <3>4. \A y \in S : y # s => w[y] = v[y]
      BY <1>8 DEF TotalsOf
    <3>5. w[s] = r.T[k]
      BY <1>8 DEF TotalsOf
    <3>6. CASE s \in S
      <4>1. S2 = S
        BY <3>6
      <4>2. w[s] = v[s]
        BY <1>7, <3>5, <3>6 DEF TotalsOf
      <4>3. \A y \in S : w[y] = v[y]
        BY <3>4, <4>2
      <4> HIDE DEF v, w
      <4>4. w = v
        BY <3>2, <3>3, <4>1, <4>3
      <4> QED
        BY <3>1, <4>1, <4>4 DEF w
    <3>7. CASE s \notin S
      <4>1. IsFiniteSet(S)
        BY <1>4, RingSize DEF RingOK, S
      <4>2. w[s] = 0
        BY <1>7, <3>5, <3>7 DEF Zero, CountKeys
      <4>3. \A y \in S : w[y] = v[y]
        BY <3>4, <3>7
      <4> HIDE DEF v, w
      <4>4. SumOver(S2, w) = w[s] + SumOver(S, v)
        BY <3>2, <3>3, <3>7, <4>1, <4>3, SumOverAdd
      <4>5. SumOver(S, v) \in Nat
        BY <3>2, <4>1, SumOverNat
      <4> QED
        BY <3>1, <4>2, <4>4, <4>5 DEF w
    <3> QED
      BY <3>6, <3>7
  <2> QED
    BY <2>1, <2>2 DEF GrandOf
<1>11. DOMAIN stats' = S2 /\ DOMAIN truth' = S2
  BY <1>8
<1> HIDE DEF S2
<1> QED
  BY <1>6, <1>9, <1>10, <1>11 DEF RtpInv

\* Every step keeps the invariant.
LEMMA RtpNextKeeps ==
  RtpInv /\ [RtpNext]_rtpVars => RtpInv'
<1> SUFFICES ASSUME RtpInv, [RtpNext]_rtpVars
             PROVE  RtpInv'
  OBVIOUS
<1>1. ASSUME NEW f \in Addresses, NEW n \in 0..MaxTrue, PacketArrives(f, n)
      PROVE  RtpInv'
  BY <1>1, PacketKeeps
<1>2. CASE SecondPasses
  BY <1>2 DEF SecondPasses, RtpInv, Senders
<1>3. CASE UNCHANGED rtpVars
  BY <1>3 DEF rtpVars, RtpInv, Senders
<1> QED
  BY <1>1, <1>2, <1>3 DEF RtpNext

\* LossCounted: for sequence numbers of any width, any addresses, packets and
\* seconds, the tabulation in main, the seconds it adds up and findfrom count the
\* packets received, the numbers skipped and the late packets of each sender, as
\* long as none is further from the last than half the numbers; each address has
\* one place in the ring, and the grand totals are the sums of the totals.
THEOREM LossesCounted == RtpSpec => []LossCounted
<1>1. RtpInit => RtpInv
  BY RtpInitially
<1>2. RtpInv /\ [RtpNext]_rtpVars => RtpInv'
  BY RtpNextKeeps
<1>3. RtpInv => LossCounted
  BY RtpInvImplies
<1> QED
  BY <1>1, <1>2, <1>3, PTL DEF RtpSpec

-----------------------------------------------------------------------------
(***************************************************************************)
(* What holds of the inline power of a switch for any number of ports, any *)
(* classes of devices, any totals the operator configures and any requests *)
(* of the devices: the pool's books balance, and power is on only where a  *)
(* classified device is watched.                                           *)
(***************************************************************************)


(***************************************************************************)
(* The power that the ports hold.                                          *)
(***************************************************************************)

\* The partial sums of the ports' power.
Sums(f, g) ==
  /\ g \in [0..NPorts -> Nat] /\ g[0] = 0
  /\ \A n \in Ports : g[n] = g[n - 1] + f[n].power

\* The partial sums exist, and the last one is what Held adds up.
LEMMA HeldIsSum ==
  ASSUME NEW f \in [Ports -> PortType]
  PROVE  \E g : Sums(f, g) /\ Held(f) = g[NPorts]
<1>0. NPorts \in Nat /\ Ports = 1..NPorts
  BY SizeAssumption DEF Ports
<1> DEFINE F == [n \in 1..NPorts |-> [x \in Nat |-> x + f[n].power]]
<1>1. \A n \in Ports : f[n].power \in Nat
  BY DEF PortType
<1>2. F \in Loops(NPorts, Nat) /\ 0 \in Nat
  BY <1>0, <1>1 DEF Loops
<1>3. PICK g : IsTrace(g, NPorts, Nat, 0, F)
  <2> HIDE DEF F
  <2> QED
    BY <1>0, <1>2, RecursionExists
<1>4. ASSUME NEW n \in Ports
      PROVE  g[n] = g[n - 1] + f[n].power
  <2>1. g[n - 1] \in Nat /\ g[n] = F[n][g[n - 1]]
    BY <1>0, <1>3 DEF IsTrace
  <2> QED
    BY <1>0, <2>1
<1>5. Sums(f, g)
  BY <1>3, <1>4 DEF Sums, IsTrace
<1> DEFINE Rec(h) == h = [n \in 0..NPorts |-> IF n = 0 THEN 0 ELSE h[n - 1] + f[n].power]
           held == CHOOSE h : Rec(h)
<1>6. Rec(g)
  BY <1>0, <1>3, <1>4 DEF IsTrace
<1>7. Rec(held)
  BY <1>6
<1>8. Held(f) = held[NPorts]
  BY DEF Held
<1> HIDE DEF held
<1> DEFINE T == {n \in 0..NPorts : held[n] = g[n]}
<1>9. 0..NPorts \subseteq T
  <2>1. 0 \in T
    BY <1>0, <1>3, <1>7 DEF IsTrace
  <2>2. \A n \in 1..NPorts : n - 1 \in T => n \in T
    BY <1>0, <1>4, <1>7
  <2> HIDE DEF T
  <2> QED
    BY <1>0, <2>1, <2>2, IntervalInduction
<1>10. held[NPorts] = g[NPorts]
  BY <1>0, <1>9
<1> QED
  BY <1>5, <1>8, <1>10

\* When one port's power changes, what the ports hold changes by as much.
LEMMA HeldChanges ==
  ASSUME NEW f \in [Ports -> PortType], NEW k \in [Ports -> PortType], NEW p \in Ports,
         \A q \in Ports \ {p} : k[q].power = f[q].power
  PROVE  /\ Held(f) \in Nat /\ Held(k) \in Nat
         /\ Held(k) = Held(f) + k[p].power - f[p].power
<1>0. NPorts \in Nat /\ Ports = 1..NPorts
  BY SizeAssumption DEF Ports
<1>1. PICK g : Sums(f, g) /\ Held(f) = g[NPorts]
  BY HeldIsSum
<1>2. PICK h : Sums(k, h) /\ Held(k) = h[NPorts]
  BY HeldIsSum
<1>3. \A n \in Ports : f[n].power \in Nat /\ k[n].power \in Nat
  BY DEF PortType
<1> DEFINE T == {n \in 0..NPorts :
                   h[n] = IF n < p THEN g[n] ELSE g[n] + k[p].power - f[p].power}
<1>4. 0..NPorts \subseteq T
  <2>1. 0 \in T
    BY <1>0, <1>1, <1>2 DEF Sums
  <2>2. ASSUME NEW n \in 1..NPorts, n - 1 \in T
        PROVE  n \in T
    <3>1. /\ g[n] = g[n - 1] + f[n].power /\ g[n - 1] \in Nat
          /\ h[n] = h[n - 1] + k[n].power
      BY <1>0, <1>1, <1>2 DEF Sums
    <3>2. f[n].power \in Nat /\ k[n].power \in Nat /\ f[p].power \in Nat
          /\ k[p].power \in Nat /\ (n # p => k[n].power = f[n].power)
      BY <1>0, <1>3
    <3>3. h[n - 1] = IF n - 1 < p THEN g[n - 1] ELSE g[n - 1] + k[p].power - f[p].power
      BY <2>2
    <3>4. CASE n < p
      BY <1>0, <3>1, <3>2, <3>3, <3>4
    <3>5. CASE n = p
      BY <1>0, <3>1, <3>2, <3>3, <3>5
    <3>6. CASE n > p
      BY <1>0, <3>1, <3>2, <3>3, <3>6
    <3> QED
      BY <1>0, <3>4, <3>5, <3>6
  <2> HIDE DEF T
  <2> QED
    BY <1>0, <2>1, <2>2, IntervalInduction
<1>5. NPorts \in T /\ ~(NPorts < p)
  BY <1>0, <1>4
<1>6. g[NPorts] \in Nat /\ h[NPorts] \in Nat
  BY <1>0, <1>1, <1>2 DEF Sums
<1> QED
  BY <1>1, <1>2, <1>5, <1>6

-----------------------------------------------------------------------------
(* The inductive invariant.                                                *)

PoolType ==
  {x \in [usage : Int, total : Totals, applied : 0..MaxApplied,
          lastOn : {"never", "recent", "old"}] :
     x.lastOn = "never" => x.applied = 0}
StateType == [port : [Ports -> PortType], sw : PoolType, halted : BOOLEAN]

\* What holds of a port between two reviews: a port that detects, waits or is
\* linked up has the PHY in discovery mode and the loss of the device armed; it
\* delivers power only to a classified device, detects only with the detection
\* configuration, has a class beyond Detecting, and suppresses the restart of
\* negotiation only for an unknown device that it waits for.
PortSound(q) ==
  /\ q.state \in {"Detecting", "WaitForLinkup", "Linkup"} => q.watch /\ q.mode
  /\ q.dte => q.state \in {"WaitForLinkup", "Linkup"} /\ q.class \in PdClasses
  /\ q.state = "Detecting" => q.discovery /\ q.neg = "detect"
  /\ q.state \in {"WaitForLinkup", "Linkup"} => q.class # "Null"
  /\ ~q.restart => q.state = "WaitForLinkup" /\ q.class = "Unknown"

\* The books of the pool, unless an assertion has stopped the call.
Balanced(s) == ~s.halted => s.sw.usage = Held(s.port)
Within(s) == ~s.halted => s.sw.usage <= s.sw.total

IInv ==
  /\ Now \in StateType
  /\ \A p \in Ports : PortSound(port[p])
  /\ sw.usage = Held(port) /\ sw.usage <= sw.total

\* A call about port p takes s to t: it keeps the types, the other ports and
\* the total, and the books stay balanced and within the total if they were.
Step(s, t, p) ==
  /\ t \in StateType
  /\ s.halted => t.halted
  /\ Balanced(s) => Balanced(t)
  /\ Within(s) => Within(t)
  /\ t.sw.total = s.sw.total
  /\ \A q \in Ports \ {p} : t.port[q] = s.port[q]

\* Calls made one after the other.
LEMMA StepTrans ==
  ASSUME NEW s, NEW t, NEW u, NEW p, Step(s, t, p), Step(t, u, p)
  PROVE  Step(s, u, p)
  BY DEF Step

\* A call that leaves the pool and the power of the ports alone.
LEMMA QuietStep ==
  ASSUME NEW s \in StateType, NEW t \in StateType, NEW p \in Ports,
         t.sw = s.sw, s.halted => t.halted,
         \A q \in Ports \ {p} : t.port[q] = s.port[q],
         t.port[p].power = s.port[p].power
  PROVE  Step(s, t, p)
<1>1. s.port \in [Ports -> PortType] /\ t.port \in [Ports -> PortType]
  BY DEF StateType
<1>2. \A q \in Ports \ {p} : t.port[q].power = s.port[q].power
  OBVIOUS
<1>3. /\ Held(t.port) = Held(s.port) + t.port[p].power - s.port[p].power
      /\ Held(s.port) \in Nat
  BY <1>1, <1>2, HeldChanges
<1>4. t.port[p].power \in Nat
  BY <1>1 DEF PortType
<1>5. Held(t.port) = Held(s.port)
  BY <1>3, <1>4
<1> QED
  BY <1>5 DEF Step, Balanced, Within

\* A call that only changes the record of port p, but not its power.
With(s, p, q) == [s EXCEPT !.port[p] = q]

\* Replacing port p's record by one of the same power is such a call.
LEMMA WithStep ==
  ASSUME NEW s \in StateType, NEW p \in Ports, NEW q \in PortType,
         q.power = s.port[p].power
  PROVE  /\ With(s, p, q) \in StateType /\ Step(s, With(s, p, q), p)
         /\ With(s, p, q).port[p] = q /\ With(s, p, q).halted = s.halted
         /\ With(s, p, q).sw = s.sw
<1> DEFINE t == With(s, p, q)
<1>1. /\ t \in StateType /\ t.port[p] = q /\ t.halted = s.halted /\ t.sw = s.sw
      /\ \A r \in Ports \ {p} : t.port[r] = s.port[r]
  BY DEF With, StateType
<1> HIDE DEF t
<1>2. Step(s, t, p)
  BY <1>1, QuietStep
<1> QED
  BY <1>1, <1>2 DEF t

\* A failed assertion.
LEMMA AssertStep ==
  ASSUME NEW s \in StateType, NEW p \in Ports, NEW c
  PROVE  /\ Asserting(s, c) \in StateType /\ Step(s, Asserting(s, c), p)
         /\ Asserting(s, c).port = s.port /\ Asserting(s, c).sw = s.sw
         /\ Asserting(s, c).halted <=> (s.halted \/ ~c)
<1> DEFINE t == Asserting(s, c)
<1>1. /\ t \in StateType /\ t.port = s.port /\ t.sw = s.sw
      /\ t.halted <=> (s.halted \/ ~c)
  BY DEF Asserting, StateType
<1> HIDE DEF t
<1>2. Step(s, t, p)
  BY <1>1, QuietStep
<1> QED
  BY <1>1, <1>2 DEF t

\* dpmDeviceDiscoveryMode changes only the PHY's mode and ends its discovery.
LEMMA DiscoveryModeStep ==
  ASSUME NEW s \in StateType, NEW p \in Ports, NEW e \in BOOLEAN
  PROVE  LET t == dpmDeviceDiscoveryMode(s, p, e)
         IN  /\ t \in StateType /\ Step(s, t, p) /\ t.halted = s.halted
             /\ t.port[p] = [s.port[p] EXCEPT !.mode = e, !.discovery = FALSE]
<1> DEFINE q == [s.port[p] EXCEPT !.mode = e, !.discovery = FALSE]
<1>1. s.port[p] \in PortType
  BY DEF StateType
<1>2. q \in PortType /\ q.power = s.port[p].power
  BY <1>1 DEF PortType
<1>3. dpmDeviceDiscoveryMode(s, p, e) = With(s, p, q)
  BY <1>1 DEF dpmDeviceDiscoveryMode, With, StateType
<1> HIDE DEF q
<1>4. /\ With(s, p, q) \in StateType /\ Step(s, With(s, p, q), p)
      /\ With(s, p, q).port[p] = q /\ With(s, p, q).halted = s.halted
  BY <1>2, WithStep
<1> QED
  BY <1>3, <1>4 DEF q

-----------------------------------------------------------------------------
(* The pool's operators: they change the pool, and of the port only power   *)
(* and denied, in step with each other.                                     *)

SameBut(q, r) == r = [q EXCEPT !.power = r.power, !.denied = r.denied]

\* Calls that change only power and denial, one after the other, do only that.
LEMMA SameButTrans ==
  ASSUME NEW q \in PortType, NEW r \in PortType, NEW u \in PortType
  PROVE  /\ SameBut(q, q)
         /\ SameBut(q, r) /\ SameBut(r, u) => SameBut(q, u)
<1>1. SameBut(q, q)
  BY DEF SameBut, PortType
<1>2. ASSUME r = [q EXCEPT !.power = r.power, !.denied = r.denied],
             u = [r EXCEPT !.power = u.power, !.denied = u.denied]
      PROVE  u = [q EXCEPT !.power = u.power, !.denied = u.denied]
  <2> DEFINE v == [q EXCEPT !.power = r.power, !.denied = r.denied]
             w == [v EXCEPT !.power = u.power, !.denied = u.denied]
  <2>1. w = [q EXCEPT !.power = u.power, !.denied = u.denied]
    BY DEF PortType
  <2>2. r = v
    BY <1>2
  <2> HIDE DEF v
  <2>3. u = w
    BY <1>2, <2>2
  <2> QED
    BY <2>1, <2>3 DEF v
<1> QED
  BY <1>1, <1>2 DEF SameBut

\* A call that moves power between the pool and port p.
LEMMA PowerStep ==
  ASSUME NEW s \in StateType, NEW t \in StateType, NEW p \in Ports,
         s.halted => t.halted,
         \A q \in Ports \ {p} : t.port[q] = s.port[q],
         t.sw.total = s.sw.total,
         ~t.halted => /\ t.sw.usage - s.sw.usage = t.port[p].power - s.port[p].power
                      /\ t.sw.usage <= s.sw.usage \/ t.sw.usage <= t.sw.total
  PROVE  Step(s, t, p)
<1>1. s.port \in [Ports -> PortType] /\ t.port \in [Ports -> PortType]
  BY DEF StateType
<1>2. \A q \in Ports \ {p} : t.port[q].power = s.port[q].power
  OBVIOUS
<1>3. /\ Held(t.port) = Held(s.port) + t.port[p].power - s.port[p].power
      /\ Held(s.port) \in Nat
  BY <1>1, <1>2, HeldChanges
<1>4. /\ t.port[p].power \in Nat /\ s.port[p].power \in Nat
      /\ t.sw.usage \in Int /\ s.sw.usage \in Int /\ s.sw.total \in Nat
  BY <1>1, PowerAssumption DEF PortType, StateType, PoolType
<1>5. Balanced(s) => Balanced(t)
  BY <1>3, <1>4 DEF Balanced
<1>6. Within(s) => Within(t)
  BY <1>4 DEF Within
<1> QED
  BY <1>5, <1>6 DEF Step

\* Giving power back to the pool.
LEMMA DeleteStep ==
  ASSUME NEW s \in StateType, NEW p \in Ports, NEW w \in Int
  PROVE  LET t == deleteDpmPdPower(s, p, w)
         IN  /\ t \in StateType /\ Step(s, t, p) /\ SameBut(s.port[p], t.port[p])
             /\ ~t.halted => t.port[p].power = s.port[p].power - w
<1> DEFINE t == deleteDpmPdPower(s, p, w)
           q == [s.port[p] EXCEPT !.power = @ - w]
           u == [With(s, p, q) EXCEPT !.sw.usage = @ - w]
           c == w > 0 /\ s.sw.usage >= w
<1>0. s.port[p] \in PortType /\ s.port[p].power \in Nat
  BY DEF StateType, PortType
<1>1. CASE ~(w \in 1..s.port[p].power /\ s.port[p].admin = "auto")
  <2>1. t = Asserting(s, FALSE)
    BY <1>1 DEF deleteDpmPdPower
  <2>2. Asserting(s, FALSE) \in StateType /\ Step(s, Asserting(s, FALSE), p)
        /\ Asserting(s, FALSE).port = s.port /\ Asserting(s, FALSE).halted
    BY AssertStep
  <2>3. SameBut(s.port[p], s.port[p])
    BY <1>0 DEF SameBut, PortType
  <2> QED
    BY <2>1, <2>2, <2>3
<1>2. CASE w \in 1..s.port[p].power /\ s.port[p].admin = "auto"
  <2>1. q \in PortType /\ q.power = s.port[p].power - w /\ SameBut(s.port[p], q)
    <3>1. s.port[p].power - w \in Nat
      BY <1>0, <1>2
    <3>2. q \in PortType /\ q.power = s.port[p].power - w
      BY <1>0, <3>1 DEF PortType
    <3>3. q.denied = s.port[p].denied
      BY <1>0 DEF PortType
    <3>4. q = [s.port[p] EXCEPT !.power = q.power, !.denied = q.denied]
      BY <1>0, <3>2, <3>3 DEF PortType
    <3> QED
      BY <3>2, <3>4 DEF SameBut
  <2> HIDE DEF q
  <2>2. /\ u \in StateType /\ u.port[p] = q /\ u.halted = s.halted
        /\ u.sw = [s.sw EXCEPT !.usage = @ - w]
        /\ \A r \in Ports \ {p} : u.port[r] = s.port[r]
    <3> DEFINE x == [s.sw EXCEPT !.usage = @ - w]
    <3>1. s.sw \in PoolType /\ x \in PoolType
      BY DEF StateType, PoolType
    <3>2. u = [With(s, p, q) EXCEPT !.sw = x]
      BY DEF With, StateType
    <3> HIDE DEF x, u
    <3>3. /\ u \in StateType /\ u.port[p] = q /\ u.halted = s.halted /\ u.sw = x
          /\ \A r \in Ports \ {p} : u.port[r] = s.port[r]
      BY <2>1, <3>1, <3>2 DEF With, StateType
    <3> QED
      BY <3>3 DEF x
  <2>3. t = Asserting(u, c)
    BY <1>2 DEF deleteDpmPdPower, deleteInlinePower, With, StateType, PoolType, q
  <2> HIDE DEF u, c
  <2>4. /\ Asserting(u, c) \in StateType /\ Asserting(u, c).port = u.port
        /\ Asserting(u, c).sw = u.sw /\ (Asserting(u, c).halted <=> u.halted \/ ~c)
    BY <2>2, AssertStep
  <2> HIDE DEF t
  <2>5. /\ t \in StateType /\ t.port[p] = q /\ (s.halted => t.halted)
        /\ t.sw.usage = s.sw.usage - w /\ t.sw.total = s.sw.total
        /\ \A r \in Ports \ {p} : t.port[r] = s.port[r]
    BY <2>2, <2>3, <2>4 DEF StateType, PoolType
  <2>6. s.sw.usage \in Int
    BY DEF StateType, PoolType
  <2>7. Step(s, t, p)
    BY <1>0, <1>2, <2>1, <2>5, <2>6, PowerStep
  <2> QED
    BY <2>1, <2>5, <2>7 DEF t
<1> QED
  BY <1>1, <1>2

\* Giving up all the power of a port: none is left, or an assertion failed.
LEMMA ReleaseStep ==
  ASSUME NEW s \in StateType, NEW p \in Ports
  PROVE  LET t == Release(s, p)
         IN  /\ t \in StateType /\ Step(s, t, p) /\ SameBut(s.port[p], t.port[p])
             /\ ~t.halted => t.port[p].power = 0
<1>1. s.port[p] \in PortType /\ s.port[p].power \in Nat
  BY DEF StateType, PortType
<1>2. CASE s.port[p].power > 0
  BY <1>1, <1>2, DeleteStep DEF Release
<1>3. CASE ~(s.port[p].power > 0)
  <2>1. Release(s, p) = s /\ s.port[p].power = 0
    BY <1>1, <1>3 DEF Release
  <2>2. Step(s, s, p)
    BY QuietStep
  <2>3. SameBut(s.port[p], s.port[p])
    BY <1>1 DEF SameBut, PortType
  <2> QED
    BY <2>1, <2>2, <2>3
<1> QED
  BY <1>2, <1>3

\* The pool grants power or is left alone; what it grants stays below its total.
LEMMA PoolGrants ==
  ASSUME NEW x \in PoolType, NEW w \in Nat
  PROVE  LET y == newInlinePower(x, w)
         IN  /\ y \in PoolType
             /\ y # x => /\ y.usage = x.usage + w /\ y.total = x.total
                         /\ y.usage <= y.total
<1> DEFINE y == newInlinePower(x, w)
<1>0. /\ x.usage \in Int /\ x.total \in Nat /\ x.applied \in 0..MaxApplied
      /\ x.lastOn \in {"never", "recent", "old"}
      /\ x.lastOn = "never" => x.applied = 0
  BY PowerAssumption DEF PoolType
<1>1. CASE y = x
  BY <1>1
<1>2. CASE y # x
  <2>1. /\ x.applied < MaxApplied \/ x.lastOn \in {"old", "never"}
        /\ x.usage + w < x.total
        /\ y = [x EXCEPT !.usage = @ + w,
                         !.applied = IF x.lastOn = "old" THEN 1 ELSE @ + 1,
                         !.lastOn = "recent"]
    BY <1>2 DEF newInlinePower
  <2>2. (IF x.lastOn = "old" THEN 1 ELSE x.applied + 1) \in 0..MaxApplied
    BY <1>0, <2>1, SizeAssumption
  <2>3. x.usage + w \in Int
    BY <1>0
  <2>4. y \in PoolType /\ y.usage = x.usage + w /\ y.total = x.total
    BY <2>1, <2>2, <2>3 DEF PoolType
  <2> QED
    BY <1>0, <2>1, <2>4
<1> QED
  BY <1>1, <1>2

\* Asking the pool for power: granted to the port, or the port gives up all
\* it has.
LEMMA NewStep ==
  ASSUME NEW s \in StateType, NEW p \in Ports, NEW w \in Nat
  PROVE  LET t == newDpmPdPower(s, p, w)
         IN  t \in StateType /\ Step(s, t, p) /\ SameBut(s.port[p], t.port[p])
<1> DEFINE t == newDpmPdPower(s, p, w)
           pool == newInlinePower(s.sw, w)
<1>0. s.port[p] \in PortType /\ s.port[p].power \in Nat /\ s.sw \in PoolType
  BY DEF StateType, PortType
<1>1. CASE w = 0 \/ s.port[p].admin # "auto"
  <2>1. t = Asserting(s, FALSE)
    BY <1>1 DEF newDpmPdPower
  <2>2. SameBut(s.port[p], s.port[p])
    BY <1>0 DEF SameBut, PortType
  <2> QED
    BY <2>1, <2>2, AssertStep
<1>2. CASE /\ ~(w = 0 \/ s.port[p].admin # "auto")
           /\ w + s.port[p].power <= MaxDpmPdPower /\ pool # s.sw
  <2> DEFINE q == [s.port[p] EXCEPT !.power = @ + w, !.denied = FALSE]
             u == With(s, p, q)
  <2>1. q \in PortType /\ q.power = s.port[p].power + w
    <3>1. s.port[p].power + w \in Nat
      BY <1>0
    <3> QED
      BY <1>0, <3>1 DEF PortType
  <2>2. SameBut(s.port[p], q)
    <3>1. q.denied = FALSE
      BY <1>0 DEF PortType
    <3>2. q = [s.port[p] EXCEPT !.power = q.power, !.denied = q.denied]
      BY <1>0, <2>1, <3>1 DEF PortType
    <3> QED
      BY <3>2 DEF SameBut
  <2>3. t = [s EXCEPT !.sw = pool, !.port[p] = q]
    BY <1>2 DEF newDpmPdPower, StateType
  <2>4. /\ pool \in PoolType /\ pool.usage = s.sw.usage + w
        /\ pool.total = s.sw.total /\ pool.usage <= pool.total
    BY <1>0, <1>2, PoolGrants
  <2> HIDE DEF pool, q, t
  <2>5. /\ t \in StateType /\ t.port[p] = q /\ t.halted = s.halted /\ t.sw = pool
        /\ \A r \in Ports \ {p} : t.port[r] = s.port[r]
    BY <2>1, <2>3, <2>4 DEF StateType
  <2>6. s.sw.usage \in Int
    BY <1>0 DEF PoolType
  <2>7. Step(s, t, p)
    BY <1>0, <2>1, <2>4, <2>5, <2>6, PowerStep
  <2> QED
    BY <2>2, <2>5, <2>7 DEF t
<1>3. CASE /\ ~(w = 0 \/ s.port[p].admin # "auto")
           /\ ~(w + s.port[p].power <= MaxDpmPdPower /\ pool # s.sw)
  <2> DEFINE q == [s.port[p] EXCEPT !.denied = TRUE]
             u == With(s, p, q)
  <2>1. q \in PortType /\ q.power = s.port[p].power
    BY <1>0 DEF PortType
  <2>2. t = Release(u, p)
    BY <1>3 DEF newDpmPdPower, With, StateType
  <2>3. u \in StateType /\ Step(s, u, p) /\ u.port[p] = q
    BY <2>1, WithStep
  <2> HIDE DEF u
  <2>4. /\ Release(u, p) \in StateType /\ Step(u, Release(u, p), p)
        /\ SameBut(q, Release(u, p).port[p])
    BY <2>3, ReleaseStep
  <2>5. SameBut(s.port[p], Release(u, p).port[p])
    BY <1>0, <2>4 DEF SameBut, PortType
  <2> QED
    BY <2>2, <2>3, <2>4, <2>5, StepTrans
<1> QED
  BY <1>1, <1>2, <1>3

\* One turn of the loop that sheds ports, and the whole loop.
LEMMA ShedStep ==
  ASSUME NEW s \in StateType, NEW p \in Ports
  PROVE  LET t == Shed(s, p)
         IN  /\ t \in StateType /\ Step(s, t, p) /\ SameBut(s.port[p], t.port[p])
             /\ IF s.sw.usage > s.sw.total /\ s.port[p].power > 0
                THEN t.halted \/ t.port[p].power = 0 ELSE t = s
<1>0. s.port[p] \in PortType
  BY DEF StateType
<1>1. CASE s.sw.usage > s.sw.total /\ s.port[p].power > 0
  <2> DEFINE a == Asserting(s, ~s.port[p].denied)
             r == Release(a, p)
             q == [r.port[p] EXCEPT !.denied = TRUE]
  <2>1. a \in StateType /\ Step(s, a, p) /\ a.port = s.port
    BY AssertStep
  <2> HIDE DEF a
  <2>2. /\ r \in StateType /\ Step(a, r, p) /\ SameBut(a.port[p], r.port[p])
        /\ ~r.halted => r.port[p].power = 0
    BY <2>1, ReleaseStep
  <2> HIDE DEF r
  <2>3. r.port[p] \in PortType
    BY <2>2 DEF StateType
  <2>4. q \in PortType /\ q.power = r.port[p].power
    BY <2>3 DEF PortType
  <2>5. Shed(s, p) = With(r, p, q)
    BY <1>1, <2>2 DEF Shed, With, StateType, a, r
  <2>6. SameBut(s.port[p], q)
    BY <1>0, <2>1, <2>2, <2>3 DEF SameBut, PortType
  <2> HIDE DEF q
  <2>7. /\ With(r, p, q) \in StateType /\ Step(r, With(r, p, q), p)
        /\ With(r, p, q).port[p] = q /\ With(r, p, q).halted = r.halted
    BY <2>2, <2>4, WithStep
  <2>8. Step(s, With(r, p, q), p)
    BY <2>1, <2>2, <2>7, StepTrans
  <2> QED
    BY <1>1, <2>2, <2>4, <2>5, <2>6, <2>7, <2>8
<1>2. CASE ~(s.sw.usage > s.sw.total /\ s.port[p].power > 0)
  <2>1. Shed(s, p) = s
    BY <1>2 DEF Shed
  <2>2. SameBut(s.port[p], s.port[p])
    BY <1>0 DEF SameBut, PortType
  <2> QED
    BY <1>2, <2>1, <2>2, QuietStep
<1> QED
  BY <1>1, <1>2

\* What shedding leaves of s: types, books and everything of a port but its
\* power and the denial.
ShedFrom(s, t) ==
  /\ t \in StateType /\ (s.halted => t.halted) /\ t.sw.total = s.sw.total
  /\ Balanced(s) => Balanced(t)
  /\ \A p \in Ports : SameBut(s.port[p], t.port[p])

\* The values the loop passes through.
ShedTrace(g, s) ==
  /\ g \in [0..NPorts -> StateType] /\ g[0] = s
  /\ \A n \in 1..NPorts : g[n] = Shed(g[n - 1], n)
ShedAll(s) ==
  LET shed[n \in 0..NPorts] == IF n = 0 THEN s ELSE Shed(shed[n - 1], n)
  IN  shed[NPorts]

\* The loop of totalInlinePowerAvailable has such a trace and returns its end.
LEMMA ShedTraced ==
  ASSUME NEW s \in StateType
  PROVE  \E g : ShedTrace(g, s) /\ ShedAll(s) = g[NPorts]
<1>0. NPorts \in Nat /\ Ports = 1..NPorts
  BY SizeAssumption DEF Ports
<1> DEFINE F == [n \in 1..NPorts |-> [x \in StateType |-> Shed(x, n)]]
           Rec(h) == h = [n \in 0..NPorts |-> IF n = 0 THEN s ELSE Shed(h[n - 1], n)]
           shed == CHOOSE h : Rec(h)
<1>1. ASSUME NEW x \in StateType, NEW n \in Ports
      PROVE  Shed(x, n) \in StateType
  BY ShedStep
<1>2. F \in Loops(NPorts, StateType)
  BY <1>0, <1>1 DEF Loops
<1>3. PICK g : IsTrace(g, NPorts, StateType, s, F)
  <2> HIDE DEF F
  <2> QED
    BY <1>0, <1>2, RecursionExists
<1>4. g \in [0..NPorts -> StateType] /\ g[0] = s
      /\ \A n \in 1..NPorts : g[n] = Shed(g[n - 1], n)
  <2>1. ASSUME NEW n \in 1..NPorts
        PROVE  g[n] = Shed(g[n - 1], n)
    <3>1. g[n - 1] \in StateType /\ g[n] = F[n][g[n - 1]]
      BY <1>0, <1>3 DEF IsTrace
    <3> QED
      BY <3>1
  <2> QED
    BY <1>3, <2>1 DEF IsTrace
<1>5. Rec(g)
  BY <1>0, <1>4
<1>6. Rec(shed)
  BY <1>5
<1> HIDE DEF shed
<1> DEFINE T == {n \in 0..NPorts : shed[n] = g[n]}
<1>7. 0..NPorts \subseteq T
  <2>1. 0 \in T
    BY <1>0, <1>4, <1>6
  <2>2. \A n \in 1..NPorts : n - 1 \in T => n \in T
    BY <1>0, <1>4, <1>6
  <2> HIDE DEF T
  <2> QED
    BY <1>0, <2>1, <2>2, IntervalInduction
<1>8. shed[NPorts] = g[NPorts]
  BY <1>0, <1>7
<1> QED
  BY <1>4, <1>8 DEF shed, ShedAll, ShedTrace

\* Shedding keeps the types, the books and what PortSound reads.
LEMMA ShedLoop ==
  ASSUME NEW s \in StateType
  PROVE  ShedFrom(s, ShedAll(s))
<1>0. NPorts \in Nat /\ Ports = 1..NPorts
  BY SizeAssumption DEF Ports
<1>1. PICK g : ShedTrace(g, s) /\ ShedAll(s) = g[NPorts]
  BY ShedTraced
<1>4. g \in [0..NPorts -> StateType] /\ g[0] = s
      /\ \A n \in 1..NPorts : g[n] = Shed(g[n - 1], n)
  BY <1>1 DEF ShedTrace
<1> DEFINE T == {n \in 0..NPorts : ShedFrom(s, g[n])}
<1>7. 0..NPorts \subseteq T
  <2>1. 0 \in T
    <3>1. \A p \in Ports : SameBut(s.port[p], s.port[p])
      BY DEF SameBut, StateType, PortType
    <3>2. ShedFrom(s, s)
      BY <3>1 DEF ShedFrom
    <3> QED
      BY <1>0, <1>4, <3>2
  <2>2. ASSUME NEW n \in 1..NPorts, n - 1 \in T
        PROVE  n \in T
    <3> DEFINE x == g[n - 1]
               y == g[n]
    <3>1. ShedFrom(s, x) /\ n \in Ports
      BY <1>0, <2>2
    <3>2. y = Shed(x, n) /\ x \in StateType
      BY <1>0, <1>4
    <3> HIDE DEF x
    <3>4. /\ Shed(x, n) \in StateType /\ Step(x, Shed(x, n), n)
          /\ SameBut(x.port[n], Shed(x, n).port[n])
      BY <3>1, <3>2, ShedStep
    <3>5. ASSUME NEW p \in Ports
          PROVE  /\ x.port[p] \in PortType /\ y.port[p] \in PortType
                 /\ s.port[p] \in PortType /\ SameBut(x.port[p], y.port[p])
      <4>1. /\ x.port[p] \in PortType /\ y.port[p] \in PortType
            /\ s.port[p] \in PortType
        BY <3>2, <3>4 DEF StateType
      <4>2. CASE p = n
        BY <3>2, <3>4, <4>1, <4>2
      <4>3. CASE p # n
        <5>1. y.port[p] = x.port[p]
          BY <3>2, <3>4, <4>3 DEF Step
        <5> QED
          BY <4>1, <5>1, SameButTrans
      <4> QED
        BY <4>2, <4>3
    <3>6. ASSUME NEW p \in Ports
          PROVE  SameBut(s.port[p], y.port[p])
      BY <3>1, <3>5, SameButTrans DEF ShedFrom
    <3>7. ShedFrom(s, y)
      BY <3>1, <3>2, <3>4, <3>6 DEF ShedFrom, Step
    <3> QED
      BY <3>7
  <2> HIDE DEF T
  <2> QED
    BY <1>0, <2>1, <2>2, IntervalInduction
<1> QED
  BY <1>0, <1>1, <1>7

\* Ports are shed in order, and none that did not have to be.  After n turns of
\* the loop from s: the ports still to come are as they were; the others kept
\* their power or lost it; who kept it kept it because the usage was within the
\* total; who lost it lost it because without that the usage would exceed it.
Gone(s, x, p) == s.port[p].power > 0 /\ x.port[p].power = 0
InOrder(s, x, n) ==
  ~x.halted =>
    /\ \A q \in n+1..NPorts : x.port[q] = s.port[q]
    /\ \A p \in 1..n : x.port[p].power > 0 => x.sw.usage <= x.sw.total
    /\ \A p \in 1..n : Gone(s, x, p) =>
         /\ \A q \in 1..p-1 : x.port[q].power = 0
         /\ (\A q \in p+1..n : ~Gone(s, x, q))
              => x.sw.usage + s.port[p].power > x.sw.total

\* One turn of the loop.
LEMMA ShedTurn ==
  ASSUME NEW s \in StateType, NEW x \in StateType, NEW n \in Ports,
         Balanced(x), InOrder(s, x, n - 1)
  PROVE  InOrder(s, Shed(x, n), n)
<1> DEFINE y == Shed(x, n)
<1>0. NPorts \in Nat /\ Ports = 1..NPorts
  BY SizeAssumption DEF Ports
<1>1. /\ y \in StateType /\ Step(x, y, n)
      /\ IF x.sw.usage > x.sw.total /\ x.port[n].power > 0
         THEN y.halted \/ y.port[n].power = 0 ELSE y = x
  BY ShedStep
<1> HIDE DEF y
<1>2. SUFFICES ASSUME ~y.halted
               PROVE  InOrder(s, y, n)
  BY DEF InOrder, y
<1>3. /\ ~x.halted /\ y.sw.total = x.sw.total
      /\ \A q \in Ports \ {n} : y.port[q] = x.port[q]
  BY <1>1, <1>2 DEF Step
<1>4. \A q \in Ports : s.port[q].power \in Nat /\ x.port[q].power \in Nat
                       /\ y.port[q].power \in Nat
  BY <1>1 DEF StateType, PortType
<1>5. x.sw.usage \in Int /\ x.sw.total \in Nat
  BY PowerAssumption DEF StateType, PoolType
<1>6. /\ \A q \in n..NPorts : x.port[q] = s.port[q]
      /\ \A p \in 1..n-1 : x.port[p].power > 0 => x.sw.usage <= x.sw.total
      /\ \A p \in 1..n-1 : Gone(s, x, p) =>
           /\ \A q \in 1..p-1 : x.port[q].power = 0
           /\ (\A q \in p+1..n-1 : ~Gone(s, x, q))
                => x.sw.usage + s.port[p].power > x.sw.total
  <2>1. (n - 1) + 1 = n
    BY <1>0
  <2> QED
    BY <1>3, <2>1 DEF InOrder
<1>7. n \in n..NPorts /\ x.port[n] = s.port[n]
  BY <1>0, <1>6
<1>8. CASE x.sw.usage > x.sw.total /\ x.port[n].power > 0
  <2>1. y.port[n].power = 0
    BY <1>1, <1>2, <1>8
  <2>2. y.sw.usage = x.sw.usage - x.port[n].power
    <3>1. x.port \in [Ports -> PortType] /\ y.port \in [Ports -> PortType]
      BY <1>1 DEF StateType
    <3>2. \A q \in Ports \ {n} : y.port[q].power = x.port[q].power
      BY <1>3
    <3>3. Held(y.port) = Held(x.port) + y.port[n].power - x.port[n].power
          /\ Held(x.port) \in Nat
      BY <3>1, <3>2, HeldChanges
    <3>4. y.sw.usage = Held(y.port) /\ x.sw.usage = Held(x.port)
      BY <1>1, <1>2, <1>3 DEF Step, Balanced
    <3> QED
      BY <1>4, <2>1, <3>3, <3>4
  <2>3. \A p \in 1..n-1 : x.port[p].power = 0
    <3>1. \A p \in 1..n-1 : p \in Ports
      BY <1>0
    <3> QED
      BY <1>4, <1>5, <1>6, <1>8, <3>1
  <2>4. \A p \in 1..n : y.port[p].power = 0
    BY <1>0, <1>3, <2>1, <2>3
  <2>5. \A q \in n+1..NPorts : y.port[q] = s.port[q]
    BY <1>0, <1>3, <1>6
  <2>6. Gone(s, y, n) /\ y.sw.usage + s.port[n].power > y.sw.total
    BY <1>3, <1>4, <1>5, <1>7, <1>8, <2>1, <2>2 DEF Gone
  <2>7. ASSUME NEW p \in 1..n, \A q \in p+1..n : ~Gone(s, y, q)
        PROVE  y.sw.usage + s.port[p].power > y.sw.total
    <3>1. p = n
      BY <1>0, <2>6, <2>7
    <3> QED
      BY <2>6, <3>1
  <2>8. \A p \in 1..n : \A q \in 1..p-1 : y.port[q].power = 0
    BY <1>0, <2>4
  <2>9. \A p \in 1..n : ~(y.port[p].power > 0)
    BY <2>4
  <2> QED
    BY <2>5, <2>7, <2>8, <2>9 DEF InOrder
<1>9. CASE ~(x.sw.usage > x.sw.total /\ x.port[n].power > 0)
  <2>1. y = x
    BY <1>1, <1>9
  <2>2. ~Gone(s, x, n)
    BY <1>4, <1>7 DEF Gone
  <2>3. ASSUME NEW p \in 1..n, x.port[p].power > 0
        PROVE  x.sw.usage <= x.sw.total
    <3>1. CASE p = n
      BY <1>5, <1>9, <2>3, <3>1
    <3>2. CASE p # n
      <4>1. p \in 1..n-1
        BY <1>0, <3>2
      <4> QED
        BY <1>6, <2>3, <4>1
    <3> QED
      BY <3>1, <3>2
  <2>4. \A q \in n+1..NPorts : x.port[q] = s.port[q]
    BY <1>0, <1>6
  <2>5. ASSUME NEW p \in 1..n, Gone(s, x, p)
        PROVE  /\ \A q \in 1..p-1 : x.port[q].power = 0
               /\ (\A q \in p+1..n : ~Gone(s, x, q))
                    => x.sw.usage + s.port[p].power > x.sw.total
    <3>1. p \in 1..n-1
      BY <1>0, <2>2, <2>5
    <3>2. \A q \in p+1..n-1 : q \in p+1..n
      BY <1>0
    <3> QED
      BY <1>6, <2>5, <3>1, <3>2
  <2> QED
    BY <2>1, <2>3, <2>4, <2>5 DEF InOrder
<1> QED
  BY <1>8, <1>9

\* The whole loop.
LEMMA ShedInOrder ==
  ASSUME NEW s \in StateType, Balanced(s)
  PROVE  InOrder(s, ShedAll(s), NPorts)
<1>0. NPorts \in Nat /\ Ports = 1..NPorts
  BY SizeAssumption DEF Ports
<1>1. PICK g : ShedTrace(g, s) /\ ShedAll(s) = g[NPorts]
  BY ShedTraced
<1>2. g \in [0..NPorts -> StateType] /\ g[0] = s
      /\ \A n \in 1..NPorts : g[n] = Shed(g[n - 1], n)
  BY <1>1 DEF ShedTrace
<1> DEFINE T == {n \in 0..NPorts : Balanced(g[n]) /\ InOrder(s, g[n], n)}
<1>3. 0..NPorts \subseteq T
  <2>1. 0 \in T
    <3>1. InOrder(s, s, 0)
      BY <1>0 DEF InOrder
    <3> QED
      BY <1>0, <1>2, <3>1
  <2>2. ASSUME NEW n \in 1..NPorts, n - 1 \in T
        PROVE  n \in T
    <3> DEFINE x == g[n - 1]
    <3>1. x \in StateType /\ Balanced(x) /\ InOrder(s, x, n - 1) /\ g[n] = Shed(x, n)
          /\ n \in Ports
      BY <1>0, <1>2, <2>2
    <3> HIDE DEF x
    <3>2. InOrder(s, Shed(x, n), n)
      BY <3>1, ShedTurn
    <3>3. Balanced(Shed(x, n))
      BY <3>1, ShedStep DEF Step
    <3> QED
      BY <3>1, <3>2, <3>3
  <2> HIDE DEF T
  <2> QED
    BY <1>0, <2>1, <2>2, IntervalInduction
<1> QED
  BY <1>0, <1>1, <1>3

-----------------------------------------------------------------------------
(* The calls that move a port between its states.                          *)

\* The fields that PortSound reads, but for neg.
Vital(q) ==
  <<q.state, q.watch, q.mode, q.dte, q.class, q.discovery, q.restart>>

\* Soundness of a port depends on those fields, and on neg while it detects.
LEMMA VitalSound ==
  ASSUME NEW q \in PortType, NEW r \in PortType, Vital(r) = Vital(q),
         PortSound(q), q.state = "Detecting" => r.neg = "detect"
  PROVE  PortSound(r)
  BY DEF Vital, PortSound

\* Grants and denials do not touch those fields.
LEMMA SameButVital ==
  ASSUME NEW q \in PortType, NEW r \in PortType, SameBut(q, r)
  PROVE  /\ Vital(r) = Vital(q) /\ r.neg = q.neg /\ r.configured = q.configured
         /\ r.enabled = q.enabled /\ r.admin = q.admin /\ r.link = q.link
<1> DEFINE u == [q EXCEPT !.power = r.power, !.denied = r.denied]
<1>1. /\ u.state = q.state /\ u.watch = q.watch /\ u.mode = q.mode /\ u.dte = q.dte
      /\ u.class = q.class /\ u.discovery = q.discovery /\ u.restart = q.restart
      /\ u.neg = q.neg /\ u.configured = q.configured
      /\ u.enabled = q.enabled /\ u.admin = q.admin /\ u.link = q.link
  BY DEF PortType
<1>2. r = u
  BY DEF SameBut
<1> HIDE DEF u
<1> QED
  BY <1>1, <1>2 DEF Vital

\* dpmResetState leaves a sound port in Off, whatever state it found.
LEMMA ResetStep ==
  ASSUME NEW s \in StateType, NEW p \in Ports
  PROVE  LET t == dpmResetState(s, p)
         IN  /\ t \in StateType /\ Step(s, t, p) /\ PortSound(t.port[p])
             /\ t.port[p].state = "Off"
<1> DEFINE r == Release(s, p)
           q == [r.port[p] EXCEPT
                   !.dte = FALSE, !.watch = FALSE, !.class = "Null",
                   !.denied = FALSE, !.restart = TRUE,
                   !.configured = FALSE, !.state = "Off"]
           u == With(r, p, q)
           t == dpmDeviceDiscoveryMode(u, p, FALSE)
<1>1. r \in StateType /\ Step(s, r, p)
  BY ReleaseStep
<1>2. t = dpmResetState(s, p)
  BY DEF dpmResetState, With
<1> HIDE DEF r
<1>3. /\ q \in PortType /\ q.power = r.port[p].power
      /\ q.state = "Off" /\ ~q.dte /\ q.restart
  <2>1. r.port[p] \in PortType
    BY <1>1 DEF StateType
  <2>2. q \in PortType
    BY <2>1 DEF PortType
  <2>3. q.power = r.port[p].power /\ q.state = "Off" /\ ~q.dte /\ q.restart
    BY <2>1 DEF PortType
  <2> QED
    BY <2>2, <2>3
<1> HIDE DEF q
<1>4. u \in StateType /\ Step(r, u, p) /\ u.port[p] = q
  BY <1>1, <1>3, WithStep
<1> HIDE DEF u
<1>5. /\ t \in StateType /\ Step(u, t, p)
      /\ t.port[p] = [q EXCEPT !.mode = FALSE, !.discovery = FALSE]
  BY <1>4, DiscoveryModeStep
<1> HIDE DEF t
<1>6. t.port[p].state = "Off" /\ ~t.port[p].dte /\ t.port[p].restart
  BY <1>3, <1>5 DEF PortType
<1>7. PortSound(t.port[p])
  BY <1>6 DEF PortSound
<1>8. Step(s, t, p)
  BY <1>1, <1>4, <1>5, StepTrans
<1> QED
  BY <1>2, <1>5, <1>6, <1>7, <1>8

\* restartDiscovery sets the detection configuration and the PHY discovering.
LEMMA RestartStep ==
  ASSUME NEW s \in StateType, NEW p \in Ports
  PROVE  LET t == restartDiscovery(s, p)
         IN  /\ t \in StateType /\ Step(s, t, p)
             /\ t.port[p] = [s.port[p] EXCEPT !.neg = "detect", !.discovery = TRUE]
<1> DEFINE q == [s.port[p] EXCEPT !.neg = "detect", !.discovery = TRUE]
           u == With(s, p, q)
           c == /\ s.port[p].class = "Null"
                   \/ (s.port[p].class = "Cisco" /\ s.port[p].denied)
                /\ s.port[p].power = 0
<1>1. q \in PortType /\ q.power = s.port[p].power
  <2>1. s.port[p] \in PortType
    BY DEF StateType
  <2> QED
    BY <2>1 DEF PortType
<1>2. restartDiscovery(s, p) = Asserting(u, c)
  BY DEF restartDiscovery, With, StateType
<1> HIDE DEF q
<1>3. u \in StateType /\ Step(s, u, p) /\ u.port[p] = q
  BY <1>1, WithStep
<1> HIDE DEF u, c
<1>4. /\ Asserting(u, c) \in StateType /\ Step(u, Asserting(u, c), p)
      /\ Asserting(u, c).port = u.port
  BY <1>3, AssertStep
<1>5. Step(s, Asserting(u, c), p)
  BY <1>3, <1>4, StepTrans
<1> QED
  BY <1>2, <1>3, <1>4, <1>5 DEF q

\* A port in discovery mode that goes back to Detecting is sound there.
LEMMA BackStep ==
  ASSUME NEW s \in StateType, NEW p \in Ports,
         s.port[p].mode, s.port[p].watch, ~s.port[p].dte
  PROVE  LET t == BackToDetecting(s, p)
         IN  t \in StateType /\ Step(s, t, p) /\ PortSound(t.port[p])
<1> DEFINE q == [s.port[p] EXCEPT !.restart = TRUE, !.state = "Detecting"]
           u == With(s, p, q)
           t == restartDiscovery(u, p)
<1>1. /\ q \in PortType /\ q.power = s.port[p].power
      /\ q.state = "Detecting" /\ q.restart /\ q.mode /\ q.watch /\ ~q.dte
  <2>1. s.port[p] \in PortType
    BY DEF StateType
  <2> QED
    BY <2>1 DEF PortType
<1>2. BackToDetecting(s, p) = t
  BY DEF BackToDetecting, restartCiscoDiscovery, With, StateType
<1> HIDE DEF q
<1>3. u \in StateType /\ Step(s, u, p) /\ u.port[p] = q
  BY <1>1, WithStep
<1> HIDE DEF u
<1>4. /\ t \in StateType /\ Step(u, t, p)
      /\ t.port[p] = [q EXCEPT !.neg = "detect", !.discovery = TRUE]
  BY <1>3, RestartStep
<1> HIDE DEF t
<1>5. /\ t.port[p].state = "Detecting" /\ t.port[p].restart /\ t.port[p].mode
      /\ t.port[p].watch /\ ~t.port[p].dte /\ t.port[p].discovery
      /\ t.port[p].neg = "detect"
  BY <1>1, <1>4 DEF PortType
<1>6. PortSound(t.port[p])
  BY <1>5 DEF PortSound
<1>7. Step(s, t, p)
  BY <1>3, <1>4, StepTrans
<1> QED
  BY <1>2, <1>4, <1>6, <1>7

\* The end of WaitForLinkup or Linkup, with the power controller in order or not.
LEMMA LoseStep ==
  ASSUME NEW s \in StateType, NEW p \in Ports, NEW error \in BOOLEAN,
         s.port[p].mode, s.port[p].watch
  PROVE  LET t == LoseDevice(s, p, error)
         IN  t \in StateType /\ Step(s, t, p) /\ PortSound(t.port[p])
<1>1. CASE error
  BY <1>1, ResetStep DEF LoseDevice
<1>2. CASE ~error
  <2> DEFINE r == Release(s, p)
             q == [r.port[p] EXCEPT !.class = "Null", !.denied = FALSE, !.dte = FALSE]
             u == With(r, p, q)
             t == BackToDetecting(u, p)
  <2>1. /\ r \in StateType /\ Step(s, r, p) /\ SameBut(s.port[p], r.port[p])
        /\ s.port[p] \in PortType /\ r.port[p] \in PortType
    BY ReleaseStep DEF StateType
  <2>2. LoseDevice(s, p, error) = t
    <3> HIDE DEF r
    <3>1. u = [r EXCEPT !.port[p].class = "Null",
                          !.port[p].denied = FALSE, !.port[p].dte = FALSE]
      BY <2>1 DEF With, StateType
    <3> HIDE DEF u
    <3> QED
      BY <1>2, <3>1 DEF LoseDevice, r
  <2> HIDE DEF r
  <2>3. r.port[p].mode /\ r.port[p].watch
    BY <2>1, SameButVital DEF Vital
  <2>4. /\ q \in PortType /\ q.power = r.port[p].power
        /\ q.mode /\ q.watch /\ ~q.dte
    BY <2>1, <2>3 DEF PortType
  <2> HIDE DEF q
  <2>5. u \in StateType /\ Step(r, u, p) /\ u.port[p] = q
    BY <2>1, <2>4, WithStep
  <2> HIDE DEF u
  <2>6. t \in StateType /\ Step(u, t, p) /\ PortSound(t.port[p])
    BY <2>4, <2>5, BackStep
  <2> HIDE DEF t
  <2>7. Step(s, t, p)
    BY <2>1, <2>5, <2>6, StepTrans
  <2> QED
    BY <2>2, <2>6, <2>7
<1> QED
  BY <1>1, <1>2

\* A power controller out of control resets the port, or only counts.
LEMMA ControlStep ==
  ASSUME NEW s \in StateType, NEW p \in Ports, NEW within30 \in BOOLEAN,
         PortSound(s.port[p])
  PROVE  LET t == dtePowerOutOfControl(s, p, within30)
         IN  /\ t \in StateType /\ Step(s, t, p) /\ PortSound(t.port[p])
             /\ t.port[p].state = "Off" \/ Vital(t.port[p]) = Vital(s.port[p])
<1> DEFINE n == s.port[p].outOfControl + 1
           r == IF within30 THEN dpmResetState(s, p) ELSE s
           b == IF n <= MaxOutOfControlCounts THEN s ELSE r
           k == IF n <= MaxOutOfControlCounts THEN n ELSE 1
           q == [b.port[p] EXCEPT !.outOfControl = k]
<1>1. s.port[p] \in PortType /\ k \in 0..MaxOutOfControlCounts
  <2>1. s.port[p] \in PortType
    BY DEF StateType
  <2>2. s.port[p].outOfControl \in 0..MaxOutOfControlCounts
    BY <2>1 DEF PortType
  <2> QED
    BY <2>1, <2>2, SizeAssumption
<1>2. /\ r \in StateType /\ Step(s, r, p) /\ PortSound(r.port[p])
      /\ r.port[p].state = "Off" \/ r = s
  BY ResetStep, QuietStep
<1>3. /\ b \in StateType /\ Step(s, b, p) /\ PortSound(b.port[p])
      /\ b.port[p].state = "Off" \/ b = s
  BY <1>2, QuietStep
<1>4. dtePowerOutOfControl(s, p, within30) = With(b, p, q)
  BY <1>3 DEF dtePowerOutOfControl, With, StateType
<1> HIDE DEF b, k
<1>5. /\ b.port[p] \in PortType
      /\ q \in PortType /\ q.power = b.port[p].power /\ Vital(q) = Vital(b.port[p])
      /\ q.neg = b.port[p].neg /\ q.state = b.port[p].state
  <2>1. b.port[p] \in PortType
    BY <1>3 DEF StateType
  <2> QED
    BY <1>1, <2>1 DEF PortType, Vital
<1> HIDE DEF q
<1>6. With(b, p, q) \in StateType /\ Step(b, With(b, p, q), p) /\ With(b, p, q).port[p] = q
  BY <1>3, <1>5, WithStep
<1>7. PortSound(q)
  BY <1>3, <1>5, VitalSound DEF PortSound
<1>8. Step(s, With(b, p, q), p)
  BY <1>3, <1>6, StepTrans
<1> QED
  BY <1>3, <1>4, <1>5, <1>6, <1>7, <1>8

\* Reporting the link, and choosing the negotiator's configuration, changes
\* neither the pool nor what PortSound reads, but for neg.
LEMMA ReportKeeps ==
  ASSUME NEW q \in PortType
  PROVE  LET r == updateResultsFromAutoNegotiation(q)
         IN  /\ r \in PortType /\ r.power = q.power /\ Vital(r) = Vital(q)
             /\ r.neg = q.neg /\ r.link = q.link /\ r.class = q.class
<1> DEFINE r == updateResultsFromAutoNegotiation(q)
<1>1. PICK b \in BOOLEAN, d \in {"never", "recent", "old"} :
        r = [q EXCEPT !.linked = b, !.firstDown = d]
  <2>1. q.linked \in BOOLEAN /\ q.firstDown \in {"never", "recent", "old"}
        /\ q.link \in BOOLEAN
    BY DEF PortType
  <2>2. CASE q.link
    <3>1. r = [q EXCEPT !.linked = TRUE,
                        !.firstDown = IF Debounce THEN "never" ELSE q.firstDown]
      BY <2>2 DEF updateResultsFromAutoNegotiation
    <3> QED
      BY <2>1, <3>1
  <2>3. CASE ~q.link /\ Debounce /\ q.firstDown = "never"
    <3>1. r = [q EXCEPT !.firstDown = "recent"]
      BY <2>3 DEF updateResultsFromAutoNegotiation
    <3>2. r = [q EXCEPT !.linked = q.linked, !.firstDown = "recent"]
      BY <3>1 DEF PortType
    <3> HIDE DEF r
    <3> QED
      BY <2>1, <3>2
  <2>4. CASE ~q.link /\ Debounce /\ q.firstDown = "recent"
    <3>1. r = q
      BY <2>4 DEF updateResultsFromAutoNegotiation
    <3>2. r = [q EXCEPT !.linked = q.linked, !.firstDown = q.firstDown]
      BY <3>1 DEF PortType
    <3> HIDE DEF r
    <3> QED
      BY <2>1, <3>2
  <2>5. CASE ~q.link /\ ~(Debounce /\ q.firstDown \in {"never", "recent"})
    <3>1. r = [q EXCEPT !.linked = FALSE]
      BY <2>5 DEF updateResultsFromAutoNegotiation
    <3>2. r = [q EXCEPT !.linked = FALSE, !.firstDown = q.firstDown]
      BY <3>1 DEF PortType
    <3> HIDE DEF r
    <3> QED
      BY <2>1, <3>2
  <2> QED
    BY <2>1, <2>2, <2>3, <2>4, <2>5
<1> HIDE DEF r
<1>2. /\ r \in PortType /\ r.power = q.power /\ Vital(r) = Vital(q)
      /\ r.neg = q.neg /\ r.link = q.link /\ r.class = q.class
  BY <1>1 DEF PortType, Vital
<1> QED
  BY <1>2 DEF r

\* runNonDpmReview reports the link and configures the negotiator, nothing else.
LEMMA ReportStep ==
  ASSUME NEW s \in StateType, NEW p \in Ports
  PROVE  LET t == runNonDpmReview(s, p)
         IN  /\ t \in StateType /\ Step(s, t, p) /\ t.halted = s.halted
             /\ t.sw = s.sw /\ Vital(t.port[p]) = Vital(s.port[p])
             /\ t.port[p].link = s.port[p].link
<1> DEFINE n == IF s.port[p].enabled THEN "user" ELSE "disabled"
           q == [s.port[p] EXCEPT !.neg = n]
           r == updateResultsFromAutoNegotiation(q)
<1>1. s.port[p] \in PortType
  BY DEF StateType
<1>2. /\ q \in PortType /\ q.power = s.port[p].power /\ Vital(q) = Vital(s.port[p])
      /\ q.link = s.port[p].link
  <2>1. n \in {"none", "user", "disabled", "detect"}
    OBVIOUS
  <2> HIDE DEF n
  <2> QED
    BY <1>1, <2>1 DEF PortType, Vital
<1>3. runNonDpmReview(s, p) = With(s, p, r)
  BY DEF runNonDpmReview, With
<1> HIDE DEF q
<1>4. /\ r \in PortType /\ r.power = q.power /\ Vital(r) = Vital(q)
      /\ r.link = q.link
  BY <1>2, ReportKeeps
<1> HIDE DEF r
<1>5. /\ With(s, p, r) \in StateType /\ Step(s, With(s, p, r), p)
      /\ With(s, p, r).port[p] = r /\ With(s, p, r).halted = s.halted
      /\ With(s, p, r).sw = s.sw
  BY <1>2, <1>4, WithStep
<1> QED
  BY <1>2, <1>3, <1>4, <1>5

\* A device has been classified: its port waits for the link with its power on,
\* detects again, or is reset.
LEMMA PowerUpStep ==
  ASSUME NEW s \in StateType, NEW p \in Ports, NEW error \in BOOLEAN,
         s.port[p].state = "Detecting", s.port[p].watch, s.port[p].mode,
         s.port[p].restart, ~s.port[p].dte, s.port[p].class \in PdClasses
  PROVE  LET t == PowerUp(s, p, error)
         IN  t \in StateType /\ Step(s, t, p) /\ PortSound(t.port[p])
<1> DEFINE t == newDpmPdPower(s, p, DefaultPower[s.port[p].class])
           d == [t.port[p] EXCEPT !.dte = TRUE]
           on == Asserting(With(t, p, d), ~t.port[p].dte)
<1>1. /\ t \in StateType /\ Step(s, t, p) /\ s.port[p] \in PortType
      /\ t.port[p] \in PortType /\ Vital(t.port[p]) = Vital(s.port[p])
  <2>1. DefaultPower[s.port[p].class] \in Nat
    BY PowerAssumption
  <2>2. t \in StateType /\ Step(s, t, p) /\ SameBut(s.port[p], t.port[p])
    BY <2>1, NewStep
  <2>3. s.port[p] \in PortType /\ t.port[p] \in PortType
    BY <2>2 DEF StateType
  <2> QED
    BY <2>2, <2>3, SameButVital
<1>2. PowerUp(s, p, error) =
        CASE t.port[p].denied ->
               restartCiscoDiscovery([t EXCEPT !.port[p].restart = TRUE], p)
          [] ~t.port[p].denied /\ error -> dpmResetState(on, p)
          [] OTHER ->
               [applyUsersConfig([on EXCEPT !.port[p].discovery = FALSE], p)
                  EXCEPT !.port[p].state = "WaitForLinkup"]
  BY <1>1 DEF PowerUp, With, StateType
<1> HIDE DEF t
<1>3. /\ t.port[p].state = "Detecting" /\ t.port[p].watch /\ t.port[p].mode
      /\ t.port[p].restart /\ ~t.port[p].dte /\ t.port[p].class \in PdClasses
  BY <1>1 DEF Vital
<1>4. /\ on \in StateType /\ Step(t, on, p) /\ on.port[p] = d /\ d \in PortType
      /\ d.state = "Detecting" /\ d.watch /\ d.mode /\ d.restart
      /\ d.class \in PdClasses
  <2>1. /\ d \in PortType /\ d.power = t.port[p].power
        /\ d.state = "Detecting" /\ d.watch /\ d.mode /\ d.restart
        /\ d.class \in PdClasses
    BY <1>1, <1>3 DEF PortType
  <2> HIDE DEF d
  <2> DEFINE w == With(t, p, d)
  <2>2. w \in StateType /\ Step(t, w, p) /\ w.port[p] = d
    BY <1>1, <2>1, WithStep
  <2> HIDE DEF w
  <2> DEFINE a == Asserting(w, ~t.port[p].dte)
  <2>3. a \in StateType /\ Step(w, a, p) /\ a.port = w.port
    BY <2>2, AssertStep
  <2> HIDE DEF a
  <2>4. a \in StateType /\ Step(t, a, p) /\ a.port[p] = d
    BY <2>2, <2>3, StepTrans
  <2> QED
    BY <2>1, <2>4 DEF a, w
<1> HIDE DEF on, d
<1>5. CASE t.port[p].denied
  <2> DEFINE q == [t.port[p] EXCEPT !.restart = TRUE]
             u == With(t, p, q)
             v == restartDiscovery(u, p)
  <2>1. PowerUp(s, p, error) = v
    BY <1>2, <1>5 DEF restartCiscoDiscovery, With
  <2>2. /\ q \in PortType /\ q.power = t.port[p].power
        /\ q.state = "Detecting" /\ q.watch /\ q.mode /\ q.restart /\ ~q.dte
    BY <1>1, <1>3 DEF PortType
  <2> HIDE DEF q
  <2>3. u \in StateType /\ Step(t, u, p) /\ u.port[p] = q
    BY <1>1, <2>2, WithStep
  <2> HIDE DEF u
  <2>4. /\ v \in StateType /\ Step(u, v, p)
        /\ v.port[p] = [q EXCEPT !.neg = "detect", !.discovery = TRUE]
    BY <2>3, RestartStep
  <2> HIDE DEF v
  <2>5. /\ v.port[p].state = "Detecting" /\ v.port[p].watch /\ v.port[p].mode
        /\ v.port[p].restart /\ ~v.port[p].dte
        /\ v.port[p].neg = "detect" /\ v.port[p].discovery
    BY <2>2, <2>4 DEF PortType
  <2>6. PortSound(v.port[p])
    BY <2>5 DEF PortSound
  <2>7. Step(s, v, p)
    BY <1>1, <2>3, <2>4, StepTrans
  <2> QED
    BY <2>1, <2>4, <2>6, <2>7
<1>6. CASE ~t.port[p].denied /\ error
  <2>1. PowerUp(s, p, error) = dpmResetState(on, p)
    BY <1>2, <1>6
  <2>2. /\ dpmResetState(on, p) \in StateType /\ Step(on, dpmResetState(on, p), p)
        /\ PortSound(dpmResetState(on, p).port[p])
    BY <1>4, ResetStep
  <2>3. Step(s, dpmResetState(on, p), p)
    BY <1>1, <1>4, <2>2, StepTrans
  <2> QED
    BY <2>1, <2>2, <2>3
<1>7. CASE ~t.port[p].denied /\ ~error
  <2> DEFINE q == [d EXCEPT !.discovery = FALSE]
             u == With(on, p, q)
             v == runNonDpmReview(u, p)
             r == [v.port[p] EXCEPT !.state = "WaitForLinkup"]
  <2>1. PowerUp(s, p, error) = With(v, p, r)
    BY <1>2, <1>4, <1>7 DEF applyUsersConfig, With
  <2>2. /\ q \in PortType /\ q.power = d.power
        /\ q.watch /\ q.mode /\ q.restart /\ q.class \in PdClasses
    BY <1>4 DEF PortType
  <2> HIDE DEF q
  <2>3. u \in StateType /\ Step(on, u, p) /\ u.port[p] = q
    BY <1>4, <2>2, WithStep
  <2> HIDE DEF u
  <2>4. /\ v \in StateType /\ Step(u, v, p) /\ v.port[p] \in PortType
        /\ Vital(v.port[p]) = Vital(q)
    BY <2>3, ReportStep DEF StateType
  <2> HIDE DEF v
  <2>5. /\ r \in PortType /\ r.power = v.port[p].power /\ r.state = "WaitForLinkup"
        /\ r.watch /\ r.mode /\ r.restart /\ r.class \in PdClasses
    <3>1. /\ v.port[p].watch /\ v.port[p].mode /\ v.port[p].restart
          /\ v.port[p].class \in PdClasses
      BY <2>2, <2>4 DEF Vital
    <3> QED
      BY <2>4, <3>1 DEF PortType
  <2> HIDE DEF r
  <2>6. /\ With(v, p, r) \in StateType /\ Step(v, With(v, p, r), p)
        /\ With(v, p, r).port[p] = r
    BY <2>4, <2>5, WithStep
  <2>7. PortSound(r)
    BY <2>5, PowerAssumption DEF PortSound
  <2>8. Step(s, With(v, p, r), p)
    <3>1. Step(s, u, p)
      BY <1>1, <1>4, <2>3, StepTrans
    <3> QED
      BY <2>4, <2>6, <3>1, StepTrans
  <2> QED
    BY <2>1, <2>6, <2>7, <2>8
<1> QED
  BY <1>5, <1>6, <1>7

\* What the power controller reports, and the timeout of WaitForLinkup.
LEMMA TimeoutStep ==
  ASSUME NEW s \in StateType, NEW p \in Ports, NEW timedOut \in BOOLEAN,
         NEW error \in BOOLEAN, PortSound(s.port[p])
  PROVE  LET t == LinkupTimeout(s, p, timedOut, error)
         IN  t \in StateType /\ Step(s, t, p) /\ PortSound(t.port[p])
<1>1. CASE s.port[p].state = "WaitForLinkup" /\ timedOut
  <2>1. s.port[p].mode /\ s.port[p].watch
    BY <1>1 DEF PortSound
  <2> QED
    BY <1>1, <2>1, LoseStep DEF LinkupTimeout
<1>2. CASE ~(s.port[p].state = "WaitForLinkup" /\ timedOut)
  <2>1. LinkupTimeout(s, p, timedOut, error) = s
    BY <1>2 DEF LinkupTimeout
  <2> QED
    BY <2>1, QuietStep
<1> QED
  BY <1>1, <1>2

\* Whatever the power controller reports, the port stays sound.
LEMMA StatusStep ==
  ASSUME NEW s \in StateType, NEW p \in Ports,
         NEW status \in {"On", "Off", "OutOfControl", "Faulty"},
         NEW within30 \in BOOLEAN, NEW error \in BOOLEAN,
         PortSound(s.port[p]), s.port[p].state = "WaitForLinkup",
         s.port[p].class \in PdClasses
  PROVE  LET t == AfterStatus(s, p, status, within30, error)
         IN  t \in StateType /\ Step(s, t, p) /\ PortSound(t.port[p])
<1>0. s.port[p].mode /\ s.port[p].watch /\ s.port[p] \in PortType
  BY DEF PortSound, StateType
<1>1. CASE status = "OutOfControl"
  BY <1>1, ControlStep DEF AfterStatus
<1>2. CASE status = "Off" /\ ~s.port[p].link
  BY <1>0, <1>2, LoseStep DEF AfterStatus
<1>3. CASE status = "On" /\ s.port[p].link
  <2> DEFINE q == [s.port[p] EXCEPT !.state = "Linkup"]
  <2>1. AfterStatus(s, p, status, within30, error) = With(s, p, q)
    BY <1>3 DEF AfterStatus, With
  <2>2. /\ q \in PortType /\ q.power = s.port[p].power /\ q.state = "Linkup"
        /\ q.mode /\ q.watch /\ q.class \in PdClasses /\ q.restart = s.port[p].restart
    BY <1>0 DEF PortType
  <2>3. s.port[p].restart
    BY PowerAssumption DEF PortSound
  <2> HIDE DEF q
  <2>4. /\ With(s, p, q) \in StateType /\ Step(s, With(s, p, q), p)
        /\ With(s, p, q).port[p] = q
    BY <2>2, WithStep
  <2>5. PortSound(q)
    BY <2>2, <2>3, PowerAssumption DEF PortSound
  <2> QED
    BY <2>1, <2>4, <2>5
<1>4. CASE ~(\/ status = "OutOfControl" \/ (status = "Off" /\ ~s.port[p].link)
             \/ (status = "On" /\ s.port[p].link))
  <2>1. AfterStatus(s, p, status, within30, error) = s
    BY <1>4 DEF AfterStatus
  <2> QED
    BY <2>1, QuietStep
<1> QED
  BY <1>1, <1>2, <1>3, <1>4

-----------------------------------------------------------------------------
(* The steps.                                                              *)

\* What a step about one port leaves: the invariant and the total.
Kept == IInv' /\ sw'.total = sw.total

\* A call about port p that leaves the port sound keeps the invariant.
LEMMA CallKeeps ==
  ASSUME IInv, NEW p \in Ports, NEW t, Becomes(t),
         Step(Now, t, p), PortSound(t.port[p])
  PROVE  Kept
<1>1. CASE t.halted
  <2>1. halted' = TRUE /\ port' = port /\ sw' = sw
    BY <1>1 DEF Becomes, Step, StateType
  <2> QED
    BY <2>1 DEF Kept, IInv, Now, StateType
<1>2. CASE ~t.halted
  <2>1. halted' = FALSE /\ port' = t.port /\ sw' = t.sw
    BY <1>2 DEF Becomes, Step, StateType
  <2>2. Now' = t /\ t \in StateType
    BY <2>1, <1>2 DEF Now, Step, StateType
  <2>3. Balanced(t) /\ Within(t)
    BY DEF Step, Balanced, Within, IInv, Now
  <2>4. \A q \in Ports : PortSound(t.port[q])
    BY DEF Step, IInv, Now
  <2> QED
    BY <1>2, <2>1, <2>2, <2>3, <2>4 DEF Kept, IInv, Balanced, Within, Step, Now
<1> QED
  BY <1>1, <1>2

\* What the invariant says of the state a step starts from.
LEMMA NowTyped ==
  ASSUME IInv, NEW p \in Ports
  PROVE  /\ Now \in StateType /\ Now.port = port /\ port[p] \in PortType
         /\ PortSound(port[p])
  BY DEF IInv, Now, StateType

\* A review of a port that is disabled or whose inline power is off.
LEMMA PoweredOffKeeps ==
  ASSUME IInv, NEW p \in Ports, ReviewPoweredOff(p)
  PROVE  Kept
<1> DEFINE m == dpmDeviceDiscoveryMode(Now, p, FALSE)
           q == [m.port[p] EXCEPT !.configured = FALSE]
           s == IF port[p].configured THEN With(m, p, q) ELSE Now
           t == IF port[p].state # "Off" THEN dpmResetState(s, p) ELSE s
           a == Asserting(t, Idle(t.port[p]))
           v == runNonDpmReview(a, p)
<1>1. Now \in StateType /\ Now.port = port /\ port[p] \in PortType /\ PortSound(port[p])
  BY NowTyped
<1>2. Becomes(v)
  BY DEF ReviewPoweredOff, With
<1>3. /\ s \in StateType /\ Step(Now, s, p)
      /\ port[p].state = "Off" => PortSound(s.port[p]) /\ s.port[p].state = "Off"
  <2>1. /\ m \in StateType /\ Step(Now, m, p)
        /\ m.port[p] = [port[p] EXCEPT !.mode = FALSE, !.discovery = FALSE]
    BY <1>1, DiscoveryModeStep
  <2> HIDE DEF m
  <2>2. /\ q \in PortType /\ q.power = m.port[p].power /\ q.state = port[p].state
        /\ q.dte = port[p].dte /\ q.restart = port[p].restart
    BY <1>1, <2>1 DEF PortType
  <2> HIDE DEF q
  <2>3. /\ With(m, p, q) \in StateType /\ Step(m, With(m, p, q), p)
        /\ With(m, p, q).port[p] = q
    BY <2>1, <2>2, WithStep
  <2>4. Step(Now, With(m, p, q), p) /\ Step(Now, Now, p)
    BY <1>1, <2>1, <2>3, StepTrans, QuietStep
  <2>5. port[p].state = "Off" => PortSound(q)
    BY <1>1, <2>2 DEF PortSound
  <2> QED
    BY <1>1, <2>2, <2>3, <2>4, <2>5
<1> HIDE DEF s
<1>4. /\ t \in StateType /\ Step(Now, t, p) /\ PortSound(t.port[p])
      /\ t.port[p].state = "Off"
  BY <1>3, ResetStep, StepTrans
<1> HIDE DEF t
<1>5. a \in StateType /\ Step(t, a, p) /\ a.port = t.port
  BY <1>4, AssertStep
<1> HIDE DEF a
<1>6. /\ v \in StateType /\ Step(a, v, p) /\ Vital(v.port[p]) = Vital(t.port[p])
      /\ v.port[p] \in PortType /\ t.port[p] \in PortType
  BY <1>4, <1>5, ReportStep DEF StateType
<1>7. PortSound(v.port[p])
  BY <1>4, <1>6, VitalSound
<1>8. Step(Now, v, p)
  BY <1>4, <1>5, <1>6, StepTrans
<1> QED
  BY <1>2, <1>7, <1>8, CallKeeps

\* A review in Null or Off, up to arming the link watch.
LEMMA OffKeeps ==
  ASSUME IInv, NEW p \in Ports, ReviewOff(p)
  PROVE  Kept
<1> DEFINE a == Asserting(Now, Idle(port[p]))
           s == runNonDpmReview(a, p)
           m == dpmDeviceDiscoveryMode(s, p, TRUE)
           q == [m.port[p] EXCEPT !.configured = TRUE]
           w == [s.port[p] EXCEPT !.watch = TRUE]
           r == restartDiscovery(With(s, p, w), p)
           d == [r.port[p] EXCEPT !.state = "Detecting"]
<1>1. Now \in StateType /\ Now.port = port /\ port[p] \in PortType /\ PortSound(port[p])
      /\ port[p].state \in {"Null", "Off"}
  BY NowTyped DEF ReviewOff, ReviewIn
<1>2. \/ Becomes(With(m, p, q))
      \/ Becomes(s)
      \/ Becomes(dpmResetState(s, p))
      \/ port[p].mode /\ Becomes(With(r, p, d))
  BY DEF ReviewOff, With
<1>3. /\ s \in StateType /\ Step(Now, s, p) /\ PortSound(s.port[p])
      /\ s.port[p] \in PortType /\ Vital(s.port[p]) = Vital(port[p])
      /\ ~s.port[p].dte /\ s.port[p].restart
  <2>1. a \in StateType /\ Step(Now, a, p) /\ a.port = port
    BY <1>1, AssertStep
  <2> HIDE DEF a
  <2>2. /\ s \in StateType /\ Step(a, s, p) /\ Vital(s.port[p]) = Vital(port[p])
        /\ s.port[p] \in PortType
    BY <2>1, ReportStep DEF StateType
  <2>3. Step(Now, s, p)
    BY <2>1, <2>2, StepTrans
  <2>4. PortSound(s.port[p])
    BY <1>1, <2>2, VitalSound
  <2>5. s.port[p].state = port[p].state
    BY <2>2 DEF Vital
  <2>6. ~s.port[p].dte /\ s.port[p].restart
    BY <1>1, <2>4, <2>5 DEF PortSound
  <2> QED
    BY <2>2, <2>3, <2>4, <2>6
<1> HIDE DEF s
<1>4. CASE Becomes(With(m, p, q))
  <2>1. /\ m \in StateType /\ Step(s, m, p)
        /\ m.port[p] = [s.port[p] EXCEPT !.mode = TRUE, !.discovery = FALSE]
    BY <1>3, DiscoveryModeStep
  <2> HIDE DEF m
  <2>2. /\ q \in PortType /\ q.power = m.port[p].power /\ q.state = s.port[p].state
        /\ q.dte = s.port[p].dte /\ q.restart = s.port[p].restart
    BY <1>3, <2>1 DEF PortType
  <2> HIDE DEF q
  <2>3. /\ With(m, p, q) \in StateType /\ Step(m, With(m, p, q), p)
        /\ With(m, p, q).port[p] = q
    BY <2>1, <2>2, WithStep
  <2>4. Step(Now, With(m, p, q), p)
    BY <1>3, <2>1, <2>3, StepTrans
  <2>5. s.port[p].state \in {"Null", "Off"}
    BY <1>1, <1>3 DEF Vital
  <2>6. PortSound(q)
    BY <1>3, <2>2, <2>5 DEF PortSound
  <2> QED
    BY <1>4, <2>3, <2>4, <2>6, CallKeeps
<1>5. CASE Becomes(s)
  BY <1>3, <1>5, CallKeeps
<1>6. CASE Becomes(dpmResetState(s, p))
  BY <1>3, <1>6, ResetStep, StepTrans, CallKeeps
<1>7. CASE port[p].mode /\ Becomes(With(r, p, d))
  <2>1. /\ w \in PortType /\ w.power = s.port[p].power /\ w.watch
        /\ w.mode /\ ~w.dte /\ w.restart
    <3>1. s.port[p].mode = port[p].mode
      BY <1>3 DEF Vital
    <3> QED
      BY <1>3, <1>7, <3>1 DEF PortType
  <2> HIDE DEF w
  <2> DEFINE u == With(s, p, w)
  <2>2. u \in StateType /\ Step(s, u, p) /\ u.port[p] = w
    BY <1>3, <2>1, WithStep
  <2> HIDE DEF u
  <2>3. /\ restartDiscovery(u, p) \in StateType /\ Step(u, restartDiscovery(u, p), p)
        /\ restartDiscovery(u, p).port[p] = [w EXCEPT !.neg = "detect", !.discovery = TRUE]
    BY <2>2, RestartStep
  <2>4. /\ r \in StateType /\ Step(u, r, p)
        /\ r.port[p] = [w EXCEPT !.neg = "detect", !.discovery = TRUE]
    BY <2>3 DEF u
  <2> HIDE DEF r
  <2>5. /\ d \in PortType /\ d.power = r.port[p].power /\ d.state = "Detecting"
        /\ d.watch /\ d.mode /\ ~d.dte /\ d.restart /\ d.neg = "detect" /\ d.discovery
    BY <2>1, <2>4 DEF PortType
  <2> HIDE DEF d
  <2>6. /\ With(r, p, d) \in StateType /\ Step(r, With(r, p, d), p)
        /\ With(r, p, d).port[p] = d
    <3>1. r \in StateType /\ d \in PortType /\ d.power = r.port[p].power
      BY <2>4, <2>5
    <3> QED
      BY <3>1, WithStep
  <2>7. Step(Now, With(r, p, d), p)
    <3>1. Step(Now, u, p)
      BY <1>3, <2>2, StepTrans
    <3> QED
      BY <2>4, <2>6, <3>1, StepTrans
  <2>8. PortSound(d)
    BY <2>5 DEF PortSound
  <2> QED
    BY <1>7, <2>6, <2>7, <2>8, CallKeeps
<1> QED
  BY <1>2, <1>4, <1>5, <1>6, <1>7

\* The reviews in Detecting: a new configuration, nothing, an unknown device, or
\* a classified one with its request for power.
LEMMA FindsKeeps ==
  ASSUME IInv, NEW p \in Ports, ReviewFinds(p)
  PROVE  Kept
<1> DEFINE a == Asserting(Now, DetectingChecked[p])
<1>1. /\ Now \in StateType /\ Now.port = port /\ port[p] \in PortType
      /\ PortSound(port[p]) /\ port[p].state = "Detecting"
  BY NowTyped DEF ReviewFinds, DetectingConfigChanged, DetectingNothing,
                  DetectingUnknown, DetectingDevice, ReviewIn
<1>2. /\ port[p].watch /\ port[p].mode /\ ~port[p].dte /\ port[p].restart
      /\ port[p].discovery /\ port[p].neg = "detect"
  BY <1>1 DEF PortSound
<1>3. a \in StateType /\ Step(Now, a, p) /\ a.port = port
  BY <1>1, AssertStep
<1>4. CASE DetectingConfigChanged(p)
  <2>1. Becomes(restartDiscovery(a, p))
    BY <1>4 DEF DetectingConfigChanged
  <2> HIDE DEF a
  <2> DEFINE t == restartDiscovery(a, p)
  <2>2. /\ t \in StateType /\ Step(a, t, p)
        /\ t.port[p] = [port[p] EXCEPT !.neg = "detect", !.discovery = TRUE]
    BY <1>3, RestartStep
  <2> HIDE DEF t
  <2>3. /\ Vital(t.port[p]) = Vital(port[p]) /\ t.port[p].neg = "detect"
        /\ t.port[p] \in PortType
    <3>1. port[p].discovery = TRUE
      BY <1>1, <1>2 DEF PortType
    <3> DEFINE r == [port[p] EXCEPT !.neg = "detect", !.discovery = TRUE]
    <3>2. /\ r \in PortType /\ r.neg = "detect" /\ r.discovery = TRUE
          /\ r.state = port[p].state /\ r.watch = port[p].watch
          /\ r.mode = port[p].mode /\ r.dte = port[p].dte
          /\ r.class = port[p].class /\ r.restart = port[p].restart
      BY <1>1 DEF PortType
    <3>3. t.port[p] = r
      BY <2>2
    <3> HIDE DEF r
    <3> QED
      BY <3>1, <3>2, <3>3 DEF Vital
  <2>4. PortSound(t.port[p])
    BY <1>1, <2>3, VitalSound
  <2>5. Step(Now, t, p)
    BY <1>3, <2>2, StepTrans
  <2> QED
    BY <2>1, <2>4, <2>5, CallKeeps DEF t
<1>5. CASE DetectingNothing(p)
  <2> DEFINE q == [port[p] EXCEPT !.class = "Null", !.denied = FALSE]
  <2>1. Becomes(With(a, p, q))
    BY <1>3, <1>5 DEF DetectingNothing, With
  <2> HIDE DEF a
  <2>2. /\ q \in PortType /\ q.power = a.port[p].power /\ q.state = "Detecting"
        /\ q.watch /\ q.mode /\ ~q.dte /\ q.restart /\ q.discovery /\ q.neg = "detect"
    BY <1>1, <1>2, <1>3 DEF PortType
  <2> HIDE DEF q
  <2>3. PortSound(q)
    BY <2>2 DEF PortSound
  <2>4. Step(a, With(a, p, q), p) /\ With(a, p, q).port[p] = q
    BY <1>3, <2>2, WithStep
  <2>5. Step(Now, With(a, p, q), p)
    BY <1>3, <2>4, StepTrans
  <2> QED
    BY <2>1, <2>3, <2>4, <2>5, CallKeeps
<1>6. CASE DetectingUnknown(p)
  <2> DEFINE q == [port[p] EXCEPT !.class = "Unknown", !.denied = FALSE,
                                  !.restart = FALSE, !.discovery = FALSE]
             u == With(a, p, q)
             v == runNonDpmReview(u, p)
             r == [v.port[p] EXCEPT !.state = "WaitForLinkup"]
  <2>1. Becomes(With(v, p, r))
    <3>1. u = [a EXCEPT !.port[p].class = "Unknown", !.port[p].denied = FALSE,
                        !.port[p].restart = FALSE, !.port[p].discovery = FALSE]
      BY <1>3 DEF With, StateType
    <3> HIDE DEF u
    <3> QED
      BY <1>6, <3>1 DEF DetectingUnknown, applyUsersConfig, With
  <2> HIDE DEF a
  <2>2. /\ q \in PortType /\ q.power = a.port[p].power /\ q.class = "Unknown"
        /\ q.watch /\ q.mode /\ ~q.dte
    BY <1>1, <1>2, <1>3 DEF PortType
  <2> HIDE DEF q
  <2>3. u \in StateType /\ Step(a, u, p) /\ u.port[p] = q
    BY <1>3, <2>2, WithStep
  <2> HIDE DEF u
  <2>4. /\ v \in StateType /\ Step(u, v, p) /\ v.port[p] \in PortType
        /\ Vital(v.port[p]) = Vital(q)
    BY <2>3, ReportStep DEF StateType
  <2> HIDE DEF v
  <2>5. /\ v.port[p].class = "Unknown" /\ v.port[p].watch /\ v.port[p].mode
        /\ ~v.port[p].dte
    BY <2>2, <2>4 DEF Vital
  <2>6. /\ r \in PortType /\ r.power = v.port[p].power
        /\ r.state = "WaitForLinkup" /\ r.class = "Unknown"
        /\ r.watch /\ r.mode /\ ~r.dte
    BY <2>4, <2>5 DEF PortType
  <2> HIDE DEF r
  <2>7. PortSound(r)
    BY <2>6 DEF PortSound
  <2>8. Step(v, With(v, p, r), p) /\ With(v, p, r).port[p] = r
    BY <2>4, <2>6, WithStep
  <2>9. Step(Now, With(v, p, r), p)
    <3>1. Step(Now, u, p)
      BY <1>3, <2>3, StepTrans
    <3> QED
      BY <2>4, <2>8, <3>1, StepTrans
  <2> QED
    BY <2>1, <2>7, <2>8, <2>9, CallKeeps
<1>7. CASE DetectingDevice(p)
  <2>1. PICK c \in PdClasses, autoneg \in BOOLEAN, error \in BOOLEAN :
          Becomes(PowerUp([a EXCEPT !.port[p].class = c,
                                    !.port[p].discovery = ~autoneg], p, error))
    BY <1>7 DEF DetectingDevice
  <2> DEFINE q == [port[p] EXCEPT !.class = c, !.discovery = ~autoneg]
             u == With(a, p, q)
             t == PowerUp(u, p, error)
  <2>2. Becomes(t)
    <3>1. u = [a EXCEPT !.port[p].class = c, !.port[p].discovery = ~autoneg]
      BY <1>3 DEF With, StateType
    <3> HIDE DEF u
    <3> QED
      BY <2>1, <3>1
  <2> HIDE DEF a
  <2>3. /\ q \in PortType /\ q.power = a.port[p].power /\ q.state = "Detecting"
        /\ q.watch /\ q.mode /\ ~q.dte /\ q.restart /\ q.class \in PdClasses
    BY <1>1, <1>2, <1>3 DEF PortType
  <2> HIDE DEF q
  <2>4. u \in StateType /\ Step(a, u, p) /\ u.port[p] = q
    BY <1>3, <2>3, WithStep
  <2> HIDE DEF u
  <2>5. t \in StateType /\ Step(u, t, p) /\ PortSound(t.port[p])
    BY <2>3, <2>4, PowerUpStep
  <2> HIDE DEF t
  <2>6. Step(Now, t, p)
    BY <1>3, <2>4, <2>5, StepTrans
  <2> QED
    BY <2>2, <2>5, <2>6, CallKeeps
<1> QED
  BY <1>4, <1>5, <1>6, <1>7 DEF ReviewFinds

\* A review in WaitForLinkup of a device whose power was denied.
LEMMA WaitDeniedKeeps ==
  ASSUME IInv, NEW p \in Ports, WaitForLinkupDenied(p)
  PROVE  Kept
<1> DEFINE a == Asserting(Now, port[p].mode /\ port[p].power = 0)
           q == [port[p] EXCEPT !.dte = FALSE]
           u == With(a, p, q)
           t == BackToDetecting(u, p)
<1>1. /\ Now \in StateType /\ Now.port = port /\ port[p] \in PortType
      /\ PortSound(port[p]) /\ port[p].state = "WaitForLinkup"
  BY NowTyped DEF WaitForLinkupDenied, ReviewIn
<1>2. a \in StateType /\ Step(Now, a, p) /\ a.port = port
  BY <1>1, AssertStep
<1>3. Becomes(t)
  BY <1>2 DEF WaitForLinkupDenied, With
<1> HIDE DEF a
<1>4. q \in PortType /\ q.power = a.port[p].power /\ q.mode /\ q.watch /\ ~q.dte
  BY <1>1, <1>2 DEF PortType, PortSound
<1> HIDE DEF q
<1>5. u \in StateType /\ Step(a, u, p) /\ u.port[p] = q
  BY <1>2, <1>4, WithStep
<1> HIDE DEF u
<1>6. t \in StateType /\ Step(u, t, p) /\ PortSound(t.port[p])
  BY <1>4, <1>5, BackStep
<1> HIDE DEF t
<1>7. Step(Now, t, p)
  BY <1>2, <1>5, <1>6, StepTrans
<1> QED
  BY <1>3, <1>6, <1>7, CallKeeps

\* A review in WaitForLinkup of a device with power.
LEMMA WaitPoweredKeeps ==
  ASSUME IInv, NEW p \in Ports, WaitForLinkupPowered(p)
  PROVE  Kept
<1> DEFINE s == Asserting(Now, port[p].mode /\ port[p].power > 0)
           v == runNonDpmReview(s, p)
<1>1. /\ Now \in StateType /\ Now.port = port /\ port[p] \in PortType
      /\ PortSound(port[p]) /\ port[p].state = "WaitForLinkup"
      /\ port[p].class \in PdClasses
  BY NowTyped DEF WaitForLinkupPowered, ReviewIn
<1>2. s \in StateType /\ Step(Now, s, p) /\ s.port = port
  BY <1>1, AssertStep
<1>3. \/ Becomes(v)
      \/ \E timedOut, error \in BOOLEAN : Becomes(LinkupTimeout(s, p, timedOut, error))
      \/ \E status \in {"On", "Off", "OutOfControl", "Faulty"},
            within30, timedOut, error \in BOOLEAN :
           Becomes(LinkupTimeout(AfterStatus(v, p, status, within30, error),
                                 p, timedOut, error))
  BY DEF WaitForLinkupPowered, applyUsersConfig
<1> HIDE DEF s
<1>4. /\ v \in StateType /\ Step(Now, v, p) /\ PortSound(v.port[p])
      /\ v.port[p].state = "WaitForLinkup" /\ v.port[p].class \in PdClasses
  <2>1. /\ v \in StateType /\ Step(s, v, p) /\ Vital(v.port[p]) = Vital(port[p])
        /\ v.port[p] \in PortType
    BY <1>2, ReportStep DEF StateType
  <2>2. PortSound(v.port[p])
    BY <1>1, <2>1, VitalSound
  <2>3. v.port[p].state = "WaitForLinkup" /\ v.port[p].class \in PdClasses
    BY <1>1, <2>1 DEF Vital
  <2>4. Step(Now, v, p)
    BY <1>2, <2>1, StepTrans
  <2> QED
    BY <2>1, <2>2, <2>3, <2>4
<1> HIDE DEF v
<1>5. CASE Becomes(v)
  BY <1>4, <1>5, CallKeeps
<1>6. ASSUME NEW timedOut \in BOOLEAN, NEW error \in BOOLEAN,
             Becomes(LinkupTimeout(s, p, timedOut, error))
      PROVE  Kept
  <2> DEFINE t == LinkupTimeout(s, p, timedOut, error)
  <2>1. t \in StateType /\ Step(s, t, p) /\ PortSound(t.port[p])
    BY <1>1, <1>2, TimeoutStep
  <2>2. Step(Now, t, p)
    BY <1>2, <2>1, StepTrans
  <2> HIDE DEF t
  <2>3. Becomes(t)
    BY <1>6 DEF t
  <2> QED
    BY <2>1, <2>2, <2>3, CallKeeps
<1>7. ASSUME NEW status \in {"On", "Off", "OutOfControl", "Faulty"},
             NEW within30 \in BOOLEAN, NEW timedOut \in BOOLEAN, NEW error \in BOOLEAN,
             Becomes(LinkupTimeout(AfterStatus(v, p, status, within30, error),
                                   p, timedOut, error))
      PROVE  Kept
  <2> DEFINE u == AfterStatus(v, p, status, within30, error)
             t == LinkupTimeout(u, p, timedOut, error)
  <2>1. u \in StateType /\ Step(v, u, p) /\ PortSound(u.port[p])
    BY <1>4, StatusStep
  <2>2. Becomes(t)
    BY <1>7
  <2> HIDE DEF u
  <2>3. t \in StateType /\ Step(u, t, p) /\ PortSound(t.port[p])
    BY <2>1, TimeoutStep
  <2> HIDE DEF t
  <2>4. Step(Now, t, p)
    BY <1>4, <2>1, <2>3, StepTrans
  <2> QED
    BY <2>2, <2>3, <2>4, CallKeeps
<1> QED
  BY <1>3, <1>5, <1>6, <1>7

\* A review in WaitForLinkup of an unknown device.
LEMMA WaitUnknownKeeps ==
  ASSUME IInv, NEW p \in Ports, WaitForLinkupUnknown(p)
  PROVE  Kept
<1> DEFINE r == updateResultsFromAutoNegotiation(port[p])
           u == With(Now, p, r)
           s == Asserting(u, port[p].mode /\ port[p].power = 0)
           q == [s.port[p] EXCEPT !.restart = TRUE, !.state = "Linkup"]
<1>1. /\ Now \in StateType /\ Now.port = port /\ port[p] \in PortType
      /\ PortSound(port[p]) /\ port[p].state = "WaitForLinkup"
      /\ port[p].class = "Unknown"
  BY NowTyped DEF WaitForLinkupUnknown, ReviewIn
<1>2. u = [Now EXCEPT !.port[p] = updateResultsFromAutoNegotiation(@)]
  BY <1>1 DEF With, StateType
<1>3. \/ Becomes(With(s, p, q))
      \/ \E timedOut, error \in BOOLEAN : Becomes(LinkupTimeout(s, p, timedOut, error))
  <2> HIDE DEF u
  <2>1. With(s, p, q) = [s EXCEPT !.port[p].restart = TRUE, !.port[p].state = "Linkup"]
    <3>1. r \in PortType /\ r.power = port[p].power
      BY <1>1, ReportKeeps
    <3>2. u \in StateType
      BY <1>1, <3>1, WithStep DEF u
    <3>3. s \in StateType
      BY <1>1, <3>2, AssertStep
    <3> HIDE DEF s
    <3> QED
      BY <3>3 DEF With, StateType
  <2> HIDE DEF q
  <2> QED
    BY <1>2, <2>1 DEF WaitForLinkupUnknown
<1>4. /\ r \in PortType /\ r.power = port[p].power /\ Vital(r) = Vital(port[p])
  BY <1>1, ReportKeeps
<1>5. PortSound(r)
  BY <1>1, <1>4, VitalSound
<1> HIDE DEF r
<1>6. u \in StateType /\ Step(Now, u, p) /\ u.port[p] = r
  BY <1>1, <1>4, WithStep
<1> HIDE DEF u
<1>7. s \in StateType /\ Step(u, s, p) /\ s.port = u.port
  BY <1>6, AssertStep
<1> HIDE DEF s
<1>8. Step(Now, s, p) /\ PortSound(s.port[p]) /\ s.port[p] = r
  BY <1>5, <1>6, <1>7, StepTrans
<1>9. CASE Becomes(With(s, p, q))
  <2>1. /\ r.class = "Unknown" /\ r.watch /\ r.mode /\ ~r.dte
    BY <1>1, <1>4, PowerAssumption DEF Vital, PortSound
  <2>2. /\ q \in PortType /\ q.power = s.port[p].power /\ q.state = "Linkup"
        /\ q.class = "Unknown" /\ q.watch /\ q.mode /\ ~q.dte /\ q.restart
    BY <1>4, <1>8, <2>1 DEF PortType
  <2> HIDE DEF q
  <2>3. Step(s, With(s, p, q), p) /\ With(s, p, q).port[p] = q
    BY <1>7, <2>2, WithStep
  <2>4. PortSound(q)
    BY <2>2 DEF PortSound
  <2>5. Step(Now, With(s, p, q), p)
    BY <1>8, <2>3, StepTrans
  <2> QED
    BY <1>9, <2>3, <2>4, <2>5, CallKeeps
<1>10. ASSUME NEW timedOut \in BOOLEAN, NEW error \in BOOLEAN,
              Becomes(LinkupTimeout(s, p, timedOut, error))
       PROVE  Kept
  <2> DEFINE t == LinkupTimeout(s, p, timedOut, error)
  <2>1. t \in StateType /\ Step(s, t, p) /\ PortSound(t.port[p])
    BY <1>7, <1>8, TimeoutStep
  <2>2. Step(Now, t, p)
    BY <1>8, <2>1, StepTrans
  <2> HIDE DEF t
  <2>3. Becomes(t)
    BY <1>10 DEF t
  <2> QED
    BY <2>1, <2>2, <2>3, CallKeeps
<1> QED
  BY <1>3, <1>9, <1>10

\* A review in Linkup of a classified device: power cut, link lost, out of control.
LEMMA LinkupDeviceKeeps ==
  ASSUME IInv, NEW p \in Ports, LinkupDevice(p)
  PROVE  Kept
<1> DEFINE a == Asserting(Now, port[p].mode)
           s == runNonDpmReview(a, p)
           cut == port[p].dte /\ port[p].power = 0
           q == [s.port[p] EXCEPT !.dte = FALSE]
           t == IF cut THEN With(s, p, q) ELSE s
           Ends(u, error) == IF u.port[p].state = "Linkup" /\ ~port[p].link
                             THEN LoseDevice(u, p, error) ELSE u
<1>1. /\ Now \in StateType /\ Now.port = port /\ port[p] \in PortType
      /\ PortSound(port[p]) /\ port[p].state = "Linkup"
      /\ port[p].class \in PdClasses
  BY NowTyped DEF LinkupDevice, ReviewIn
<1>2. \/ Becomes(dpmResetState(s, p))
      \/ \E error \in BOOLEAN : Becomes(Ends(t, error))
      \/ \E within30, error \in BOOLEAN :
           Becomes(Ends(dtePowerOutOfControl(t, p, within30), error))
  BY DEF LinkupDevice, With
<1>3. /\ s \in StateType /\ Step(Now, s, p) /\ PortSound(s.port[p])
      /\ s.port[p] \in PortType /\ s.port[p].state = "Linkup"
  <2>1. a \in StateType /\ Step(Now, a, p) /\ a.port = port
    BY <1>1, AssertStep
  <2> HIDE DEF a
  <2>2. /\ s \in StateType /\ Step(a, s, p) /\ Vital(s.port[p]) = Vital(port[p])
        /\ s.port[p] \in PortType
    BY <2>1, ReportStep DEF StateType
  <2>3. PortSound(s.port[p]) /\ s.port[p].state = "Linkup"
    BY <1>1, <2>2, VitalSound DEF Vital
  <2>4. Step(Now, s, p)
    BY <2>1, <2>2, StepTrans
  <2> QED
    BY <2>2, <2>3, <2>4
<1> HIDE DEF s
<1>4. t \in StateType /\ Step(Now, t, p) /\ PortSound(t.port[p])
  <2>1. q \in PortType /\ q.power = s.port[p].power /\ PortSound(q)
    <3>1. /\ q \in PortType /\ q.power = s.port[p].power /\ ~q.dte
          /\ q.state = s.port[p].state /\ q.watch = s.port[p].watch
          /\ q.mode = s.port[p].mode /\ q.class = s.port[p].class
          /\ q.restart = s.port[p].restart
      BY <1>3 DEF PortType
    <3> HIDE DEF q
    <3> QED
      BY <1>3, <3>1 DEF PortSound
  <2> HIDE DEF q
  <2>2. /\ With(s, p, q) \in StateType /\ Step(s, With(s, p, q), p)
        /\ With(s, p, q).port[p] = q
    BY <1>3, <2>1, WithStep
  <2>3. Step(Now, With(s, p, q), p)
    BY <1>3, <2>2, StepTrans
  <2> QED
    BY <1>3, <2>1, <2>2, <2>3
<1> HIDE DEF t
<1>5. ASSUME NEW u \in StateType, NEW error \in BOOLEAN, Step(Now, u, p),
             PortSound(u.port[p]), Becomes(Ends(u, error))
      PROVE  Kept
  <2>1. CASE u.port[p].state = "Linkup" /\ ~port[p].link
    <3> DEFINE v == LoseDevice(u, p, error)
    <3>1. v \in StateType /\ Step(u, v, p) /\ PortSound(v.port[p])
      BY <2>1, <1>5, LoseStep DEF PortSound
    <3>2. Becomes(v)
      BY <1>5, <2>1
    <3> HIDE DEF v
    <3>3. Step(Now, v, p)
      BY <1>5, <3>1, StepTrans
    <3> QED
      BY <3>1, <3>2, <3>3, CallKeeps
  <2>2. CASE ~(u.port[p].state = "Linkup" /\ ~port[p].link)
    BY <1>5, <2>2, CallKeeps
  <2> QED
    BY <2>1, <2>2
<1>6. CASE Becomes(dpmResetState(s, p))
  BY <1>3, <1>6, ResetStep, StepTrans, CallKeeps
<1>7. CASE \E error \in BOOLEAN : Becomes(Ends(t, error))
  <2> HIDE DEF Ends
  <2> QED
    BY <1>4, <1>5, <1>7
<1>8. ASSUME NEW within30 \in BOOLEAN, NEW error \in BOOLEAN,
             Becomes(Ends(dtePowerOutOfControl(t, p, within30), error))
      PROVE  Kept
  <2> DEFINE u == dtePowerOutOfControl(t, p, within30)
  <2>1. u \in StateType /\ Step(t, u, p) /\ PortSound(u.port[p])
    BY <1>4, ControlStep
  <2>2. Step(Now, u, p)
    BY <1>4, <2>1, StepTrans
  <2>3. Becomes(Ends(u, error))
    BY <1>8
  <2> HIDE DEF u, Ends
  <2> QED
    BY <1>5, <2>1, <2>2, <2>3
<1> QED
  BY <1>2, <1>6, <1>7, <1>8

\* A review in Linkup of an unknown device.
LEMMA LinkupUnknownKeeps ==
  ASSUME IInv, NEW p \in Ports, LinkupUnknown(p)
  PROVE  Kept
<1> DEFINE a == Asserting(Now, port[p].mode)
           s == runNonDpmReview(a, p)
           b == Asserting(s, port[p].power = 0)
           q == [b.port[p] EXCEPT !.class = "Null"]
           t == BackToDetecting(With(b, p, q), p)
<1>1. /\ Now \in StateType /\ Now.port = port /\ port[p] \in PortType
      /\ PortSound(port[p]) /\ port[p].state = "Linkup" /\ port[p].class = "Unknown"
  BY NowTyped DEF LinkupUnknown, ReviewIn
<1>2. Becomes(s) \/ Becomes(t)
  BY DEF LinkupUnknown, With
<1>3. /\ s \in StateType /\ Step(Now, s, p) /\ PortSound(s.port[p])
      /\ s.port[p] \in PortType
      /\ s.port[p].watch /\ s.port[p].mode /\ ~s.port[p].dte
  <2>1. a \in StateType /\ Step(Now, a, p) /\ a.port = port
    BY <1>1, AssertStep
  <2> HIDE DEF a
  <2>2. /\ s \in StateType /\ Step(a, s, p) /\ Vital(s.port[p]) = Vital(port[p])
        /\ s.port[p] \in PortType
    BY <2>1, ReportStep DEF StateType
  <2>3. PortSound(s.port[p])
    BY <1>1, <2>2, VitalSound
  <2>4. s.port[p].watch /\ s.port[p].mode /\ ~s.port[p].dte
    BY <1>1, <2>2, PowerAssumption DEF Vital, PortSound
  <2>5. Step(Now, s, p)
    BY <2>1, <2>2, StepTrans
  <2> QED
    BY <2>2, <2>3, <2>4, <2>5
<1> HIDE DEF s
<1>4. CASE Becomes(s)
  BY <1>3, <1>4, CallKeeps
<1>5. CASE Becomes(t)
  <2>1. b \in StateType /\ Step(s, b, p) /\ b.port = s.port
    BY <1>3, AssertStep
  <2> HIDE DEF b
  <2>2. q \in PortType /\ q.power = b.port[p].power /\ q.watch /\ q.mode /\ ~q.dte
    BY <1>3, <2>1 DEF PortType
  <2> HIDE DEF q
  <2> DEFINE u == With(b, p, q)
  <2>3. u \in StateType /\ Step(b, u, p) /\ u.port[p] = q
    BY <2>1, <2>2, WithStep
  <2> HIDE DEF u
  <2> DEFINE v == BackToDetecting(u, p)
  <2>4. v \in StateType /\ Step(u, v, p) /\ PortSound(v.port[p])
    BY <2>2, <2>3, BackStep
  <2>5. Becomes(v)
    BY <1>5 DEF u
  <2> HIDE DEF v
  <2>6. Step(Now, b, p)
    BY <1>3, <2>1, StepTrans
  <2>7. Step(Now, v, p)
    BY <2>3, <2>4, <2>6, StepTrans
  <2> QED
    BY <2>4, <2>5, <2>7, CallKeeps
<1> QED
  BY <1>2, <1>4, <1>5

\* CDP messages, the operator, the link and the passing of time.
LEMMA OtherKeeps ==
  ASSUME IInv, NEW p \in Ports,
         \/ \E w \in Requests : ilpowerPdPowerRequest(p, w) \/ ilpowerPdPowerConsumed(p, w)
         \/ Configure(p) \/ LinkChanges(p) \/ DebounceElapses(p)
  PROVE  Kept
<1>1. Now \in StateType /\ Now.port = port /\ port[p] \in PortType /\ PortSound(port[p])
      /\ port[p].power \in Nat
  BY NowTyped DEF PortType
<1>2. ASSUME NEW w \in Requests,
             ilpowerPdPowerRequest(p, w) \/ ilpowerPdPowerConsumed(p, w)
      PROVE  Kept
  <2>1. w \in Nat
    BY PowerAssumption
  <2>2. PICK t : /\ Becomes(t)
                 /\ t \in StateType /\ Step(Now, t, p) /\ SameBut(port[p], t.port[p])
    <3>1. CASE w < port[p].power
      <4>1. Becomes(deleteDpmPdPower(Now, p, port[p].power - w))
        BY <1>2, <3>1 DEF ilpowerPdPowerRequest, ilpowerPdPowerConsumed
      <4>2. port[p].power - w \in Int
        BY <1>1, <2>1
      <4> QED
        BY <1>1, <4>1, <4>2, DeleteStep
    <3>2. CASE ~(w < port[p].power)
      <4>1. w - port[p].power \in Nat /\ w - port[p].power \in Int
        BY <1>1, <2>1, <3>2
      <4>2. \/ Becomes(newDpmPdPower(Now, p, w - port[p].power))
            \/ Becomes(deleteDpmPdPower(Now, p, w - port[p].power))
        BY <1>2, <3>2 DEF ilpowerPdPowerRequest, ilpowerPdPowerConsumed
      <4>3. CASE Becomes(newDpmPdPower(Now, p, w - port[p].power))
        BY <1>1, <4>1, <4>3, NewStep
      <4>4. CASE Becomes(deleteDpmPdPower(Now, p, w - port[p].power))
        BY <1>1, <4>1, <4>4, DeleteStep
      <4> QED
        BY <4>2, <4>3, <4>4
    <3> QED
      BY <3>1, <3>2
  <2>3. t.port[p] \in PortType
    BY <2>2 DEF StateType
  <2>4. Vital(t.port[p]) = Vital(port[p]) /\ t.port[p].neg = port[p].neg
    BY <1>1, <2>2, <2>3, SameButVital
  <2>5. PortSound(t.port[p])
    BY <1>1, <2>3, <2>4, VitalSound DEF PortSound
  <2> QED
    BY <2>2, <2>5, CallKeeps
<1>3. CASE Configure(p) \/ LinkChanges(p) \/ DebounceElapses(p)
  <2> DEFINE Same(q) == /\ q \in PortType /\ q.power = port[p].power
                        /\ q.neg = port[p].neg /\ Vital(q) = Vital(port[p])
  <2>2. PICK q : Same(q) /\ port' = [port EXCEPT ![p] = q]
    <3>0. port[p].enabled \in BOOLEAN /\ port[p].link \in BOOLEAN
      BY <1>1 DEF PortType
    <3>1. CASE Configure(p) /\ port' = [port EXCEPT ![p].enabled = ~@]
      <4> DEFINE e == ~port[p].enabled
                 q == [port[p] EXCEPT !.enabled = e]
      <4>1. e \in BOOLEAN /\ port' = [port EXCEPT ![p] = q]
        BY <3>1
      <4> HIDE DEF e
      <4>2. Same(q)
        BY <1>1, <4>1 DEF PortType, Vital
      <4> QED
        BY <4>1, <4>2
    <3>2. CASE Configure(p) /\ port' = [port EXCEPT ![p].admin =
                                          IF @ = "auto" THEN "off" ELSE "auto"]
      <4> DEFINE a == IF port[p].admin = "auto" THEN "off" ELSE "auto"
                 q == [port[p] EXCEPT !.admin = a]
      <4>1. a \in {"auto", "off"} /\ port' = [port EXCEPT ![p] = q]
        BY <3>2
      <4> HIDE DEF a
      <4>2. Same(q)
        BY <1>1, <4>1 DEF PortType, Vital
      <4> QED
        BY <4>1, <4>2
    <3>3. CASE LinkChanges(p)
      <4> DEFINE e == ~port[p].link
                 q == [port[p] EXCEPT !.link = e]
      <4>1. e \in BOOLEAN /\ port' = [port EXCEPT ![p] = q]
        BY <3>3 DEF LinkChanges
      <4> HIDE DEF e
      <4>2. Same(q)
        BY <1>1, <4>1 DEF PortType, Vital
      <4> QED
        BY <4>1, <4>2
    <3>4. CASE DebounceElapses(p)
      <4> DEFINE q == [port[p] EXCEPT !.firstDown = "old"]
      <4>1. Same(q)
        BY <1>1 DEF PortType, Vital
      <4> QED
        BY <3>4, <4>1 DEF DebounceElapses
    <3> QED
      BY <1>3, <3>1, <3>2, <3>3, <3>4 DEF Configure
  <2> DEFINE t == With(Now, p, q)
  <2>3. PortSound(q)
    BY <1>1, <2>2, VitalSound DEF PortSound
  <2>4. port' = [port EXCEPT ![p] = q] /\ sw' = sw /\ halted' = halted /\ ~halted
    BY <1>3, <2>2 DEF Configure, LinkChanges, DebounceElapses
  <2>5. t \in StateType /\ Step(Now, t, p) /\ t.port[p] = q
    BY <1>1, <2>2, WithStep
  <2>6. Becomes(t)
    BY <2>4 DEF Becomes, With, Now
  <2> HIDE DEF t
  <2> QED
    BY <2>3, <2>5, <2>6, CallKeeps
<1> QED
  BY <1>2, <1>3

\* The operator changes the total: the ports that are shed stay sound, and what
\* is left is within the new total or the call's last assertion fails.
LEMMA TotalKeeps ==
  ASSUME IInv, NEW t \in Totals, totalInlinePowerAvailable(t)
  PROVE  IInv'
<1> DEFINE x == [Now EXCEPT !.sw.total = t]
           s == Asserting(x, sw.usage <= sw.total)
           r == ShedAll(s)
           v == Asserting(r, r.sw.usage <= t)
<1>0. PICK p : p \in Ports
  BY SizeAssumption DEF Ports
<1>1. Now \in StateType /\ Now.port = port /\ Now.sw = sw /\ sw \in PoolType
  BY DEF IInv, Now, StateType
<1>2. Becomes(v)
  BY DEF totalInlinePowerAvailable, ShedAll
<1>3. x \in StateType /\ x.port = port /\ x.sw = [sw EXCEPT !.total = t]
  <2>1. [sw EXCEPT !.total = t] \in PoolType
    BY <1>1 DEF PoolType
  <2> QED
    BY <1>1, <2>1 DEF StateType
<1>4. x.sw.total = t /\ x.sw.usage = sw.usage
  BY <1>1, <1>3 DEF PoolType
<1> HIDE DEF x
<1>5. s \in StateType /\ s.port = port /\ s.sw = x.sw
  BY <1>0, <1>3, AssertStep
<1> HIDE DEF s
<1>6. ShedFrom(s, r)
  BY <1>5, ShedLoop
<1> HIDE DEF r
<1>7. Balanced(s)
  BY <1>4, <1>5 DEF Balanced, IInv
<1>8. r \in StateType /\ Balanced(r) /\ r.sw.total = t
  BY <1>4, <1>5, <1>6, <1>7 DEF ShedFrom
<1>9. ASSUME NEW q \in Ports
      PROVE  PortSound(r.port[q])
  <2>1. port[q] \in PortType /\ r.port[q] \in PortType /\ SameBut(port[q], r.port[q])
    BY <1>1, <1>5, <1>6, <1>8 DEF ShedFrom, StateType
  <2>2. PortSound(port[q])
    BY DEF IInv
  <2>3. Vital(r.port[q]) = Vital(port[q]) /\ r.port[q].neg = port[q].neg
    BY <2>1, SameButVital
  <2>4. port[q].state = "Detecting" => r.port[q].neg = "detect"
    BY <2>2, <2>3 DEF PortSound
  <2> QED
    BY <2>1, <2>2, <2>3, <2>4, VitalSound
<1>10. /\ v \in StateType /\ v.port = r.port /\ v.sw = r.sw
       /\ v.halted <=> (r.halted \/ ~(r.sw.usage <= t))
  BY <1>0, <1>8, AssertStep
<1> HIDE DEF v
<1>11. CASE v.halted
  <2>1. halted' = TRUE /\ port' = port /\ sw' = sw
    BY <1>2, <1>10, <1>11 DEF Becomes, StateType
  <2> QED
    BY <2>1 DEF IInv, Now, StateType
<1>12. CASE ~v.halted
  <2>1. halted' = FALSE /\ port' = v.port /\ sw' = v.sw
    BY <1>2, <1>10, <1>12 DEF Becomes, StateType
  <2>2. Now' = v
    BY <2>1, <1>10, <1>12 DEF Now, StateType
  <2>3. sw'.usage = Held(port') /\ sw'.usage <= sw'.total
    BY <2>1, <1>8, <1>10, <1>12 DEF Balanced
  <2> QED
    BY <1>9, <1>10, <2>1, <2>2, <2>3 DEF IInv
<1> QED
  BY <1>11, <1>12

\* Time passes for the pool, and steps that change nothing.
LEMMA CycleKeeps ==
  ASSUME IInv, CycleElapses \/ UNCHANGED vars
  PROVE  Kept
<1>1. CASE UNCHANGED vars
  BY <1>1 DEF Kept, IInv, Now, vars
<1>2. CASE CycleElapses
  <2>1. Now \in StateType /\ sw \in PoolType
    BY DEF IInv, Now, StateType
  <2>2. /\ port' = port /\ halted' = halted /\ sw' \in PoolType
        /\ sw'.usage = sw.usage /\ sw'.total = sw.total
    BY <1>2, <2>1 DEF CycleElapses, PoolType
  <2>3. Now' \in StateType
    BY <2>1, <2>2 DEF Now, StateType
  <2> QED
    BY <2>2, <2>3 DEF Kept, IInv
<1> QED
  BY <1>1, <1>2

\* At the start no port holds power.
LEMMA InitInvariant ==
  ASSUME Init
  PROVE  IInv
<1>1. port \in [Ports -> PortType] /\ \A p \in Ports : PortSound(port[p])
  BY PowerAssumption, SizeAssumption DEF Init, PortType, PortSound
<1>2. sw \in PoolType /\ sw.usage = 0 /\ sw.total \in Nat /\ halted \in BOOLEAN
  <2>1. PICK t \in Totals : sw = [usage |-> 0, total |-> t, applied |-> 0, lastOn |-> "never"]
    BY DEF Init
  <2>2. t \in Nat /\ 0 \in 0..MaxApplied /\ halted = FALSE
    BY PowerAssumption, SizeAssumption DEF Init
  <2>3. /\ sw \in [usage : Int, total : Totals, applied : 0..MaxApplied,
                   lastOn : {"never", "recent", "old"}]
        /\ sw.usage = 0 /\ sw.applied = 0 /\ sw.total = t
    BY <2>1, <2>2
  <2> QED
    BY <2>2, <2>3 DEF PoolType
<1>3. Held(port) = 0
  <2>0. NPorts \in Nat /\ Ports = 1..NPorts
    BY SizeAssumption DEF Ports
  <2>1. PICK g : Sums(port, g) /\ Held(port) = g[NPorts]
    BY <1>1, HeldIsSum
  <2>2. \A p \in Ports : port[p].power = 0
    BY DEF Init
  <2> DEFINE T == {n \in 0..NPorts : g[n] = 0}
  <2>3. 0 \in T /\ \A n \in 1..NPorts : n - 1 \in T => n \in T
    <3>1. 0 \in T
      BY <2>0, <2>1 DEF Sums
    <3>2. ASSUME NEW n \in 1..NPorts, n - 1 \in T
          PROVE  n \in T
      <4>1. g[n] = g[n - 1] + port[n].power /\ g[n - 1] = 0
        BY <2>0, <2>1, <3>2 DEF Sums
      <4> QED
        BY <2>0, <2>2, <4>1
    <3> QED
      BY <3>1, <3>2
  <2> HIDE DEF T
  <2>4. 0..NPorts \subseteq T
    BY <2>0, <2>3, IntervalInduction
  <2> QED
    BY <2>0, <2>1, <2>4 DEF T
<1> QED
  BY <1>1, <1>2, <1>3 DEF IInv, Now, StateType

\* The invariant is inductive.
LEMMA NextKeeps ==
  ASSUME IInv, [Next]_vars
  PROVE  IInv'
<1>1. CASE \E p \in Ports : ReviewFinds(p)
  BY <1>1, FindsKeeps DEF Kept
<1>2. CASE \E p \in Ports : ReviewMoves(p)
  BY <1>2, PoweredOffKeeps, OffKeeps, WaitDeniedKeeps, WaitPoweredKeeps,
     WaitUnknownKeeps, LinkupDeviceKeeps, LinkupUnknownKeeps DEF ReviewMoves, Kept
<1>3. CASE \E p \in Ports :
             \/ \E w \in Requests : ilpowerPdPowerRequest(p, w) \/ ilpowerPdPowerConsumed(p, w)
             \/ Configure(p) \/ LinkChanges(p) \/ DebounceElapses(p)
  BY <1>3, OtherKeeps DEF Kept
<1>4. CASE \E t \in Totals : totalInlinePowerAvailable(t)
  BY <1>4, TotalKeeps
<1>5. CASE CycleElapses \/ UNCHANGED vars
  BY <1>5, CycleKeeps DEF Kept
<1> QED
  BY <1>1, <1>2, <1>3, <1>4, <1>5 DEF Next

\* IInv holds in every state the switch reaches.
THEOREM Invariant == Spec => []IInv
<1>1. Init => IInv
  BY InitInvariant
<1>2. IInv /\ [Next]_vars => IInv'
  BY NextKeeps
<1> QED
  BY <1>1, <1>2, PTL DEF Spec

\* PoolSound: the usage the pool of the switch keeps is the power its ports
\* hold, and never more than the configured total, until an assertion stops the
\* process.
THEOREM PoolIsSound == Spec => []PoolSound
<1>1. IInv => PoolSound
  BY DEF IInv, PoolSound, PoolMatchesPorts, NeverOvercommitted
<1> QED
  BY <1>1, Invariant, PTL

\* PoweredOnlySafely: DTE power is on only at a port that waits for or has
\* linked up a classified device, with the device's loss armed to cut power in
\* hardware and the PHY in discovery mode.
THEOREM PowerIsSafe == Spec => []PoweredOnlySafely
<1>1. IInv => PoweredOnlySafely
  BY DEF IInv, PoweredOnlySafely, PortSound
<1> QED
  BY <1>1, Invariant, PTL

\* DetectionSound: a port in Detecting has its PHY discovering, a port beyond it
\* has a class, and every way out of waiting for an unknown device restores the
\* restart of negotiation.
THEOREM DetectionIsSound == Spec => []DetectionSound
<1>1. ASSUME IInv
      PROVE  DetectionSound
  <2>1. port \in [Ports -> PortType] /\ sw \in PoolType /\ halted \in BOOLEAN
    BY <1>1 DEF IInv, Now, StateType
  <2>2. sw.usage \in Nat
    <3>1. Held(port) \in Nat
      <4>1. PICK p : p \in Ports
        BY SizeAssumption DEF Ports
      <4> QED
        BY <2>1, <4>1, HeldChanges
    <3> QED
      BY <1>1, <3>1 DEF IInv
  <2>3. TypeOK
    BY <2>1, <2>2 DEF TypeOK, PoolType
  <2> QED
    BY <1>1, <2>3 DEF IInv, PortSound, DetectionSound, DetectionRuns, RestartRestored
<1> QED
  BY <1>1, Invariant, PTL

\* The total changes only in totalInlinePowerAvailable, which sheds in order.
LEMMA TotalSheds ==
  ASSUME IInv, NEW t \in Totals, totalInlinePowerAvailable(t), ~halted'
  PROVE  \A p \in Ports : Lost(p) =>
           /\ \A q \in 1..p-1 : port'[q].power = 0
           /\ (\A q \in p+1..NPorts : ~Lost(q))
                => sw'.usage + port[p].power > sw'.total
<1> DEFINE x == [Now EXCEPT !.sw.total = t]
           s == Asserting(x, sw.usage <= sw.total)
           r == ShedAll(s)
           v == Asserting(r, r.sw.usage <= t)
<1>0. PICK p : p \in Ports
  BY SizeAssumption DEF Ports
<1>1. Now \in StateType /\ Now.port = port /\ Now.sw = sw /\ sw \in PoolType
  BY DEF IInv, Now, StateType
<1>2. Becomes(v)
  BY DEF totalInlinePowerAvailable, ShedAll
<1>3. x \in StateType /\ x.port = port /\ x.sw = [sw EXCEPT !.total = t]
  <2>1. [sw EXCEPT !.total = t] \in PoolType
    BY <1>1 DEF PoolType
  <2> QED
    BY <1>1, <2>1 DEF StateType
<1>4. x.sw.usage = sw.usage
  BY <1>1, <1>3 DEF PoolType
<1> HIDE DEF x
<1>5. s \in StateType /\ s.port = port /\ s.sw = x.sw
  BY <1>0, <1>3, AssertStep
<1> HIDE DEF s
<1>6. Balanced(s)
  BY <1>4, <1>5 DEF Balanced, IInv
<1>7. r \in StateType /\ InOrder(s, r, NPorts)
  BY <1>5, <1>6, ShedLoop, ShedInOrder DEF ShedFrom
<1> HIDE DEF r
<1>8. /\ v.port = r.port /\ v.sw = r.sw /\ v \in StateType
      /\ v.halted <=> (r.halted \/ ~(r.sw.usage <= t))
  BY <1>0, <1>7, AssertStep
<1>9. ~r.halted /\ port' = r.port /\ sw' = r.sw
  BY <1>2, <1>8 DEF Becomes, StateType
<1>10. Ports = 1..NPorts
  BY DEF Ports
<1>11. \A q : Lost(q) <=> Gone(s, r, q)
  BY <1>5, <1>9 DEF Lost, Gone
<1> QED
  BY <1>5, <1>7, <1>9, <1>10, <1>11 DEF InOrder

\* ShedsNoMoreThanNeeded: when the total shrinks, ports lose power in port order,
\* and the last one that does was needed to get within the total.
THEOREM ShedsInOrder == Spec => ShedsNoMoreThanNeeded
<1>1. ASSUME IInv, [Next]_vars, sw'.total # sw.total
      PROVE  \E t \in Totals : totalInlinePowerAvailable(t)
  <2>1. SUFFICES ASSUME ~ \E t \in Totals : totalInlinePowerAvailable(t)
                 PROVE  Kept
    BY <1>1 DEF Kept
  <2>2. CASE \E p \in Ports : ReviewFinds(p)
    BY <1>1, <2>2, FindsKeeps
  <2>3. CASE \E p \in Ports : ReviewMoves(p)
    BY <1>1, <2>3, PoweredOffKeeps, OffKeeps, WaitDeniedKeeps, WaitPoweredKeeps,
       WaitUnknownKeeps, LinkupDeviceKeeps, LinkupUnknownKeeps DEF ReviewMoves
  <2>4. CASE \E p \in Ports :
               \/ \E w \in Requests :
                    ilpowerPdPowerRequest(p, w) \/ ilpowerPdPowerConsumed(p, w)
               \/ Configure(p) \/ LinkChanges(p) \/ DebounceElapses(p)
    BY <1>1, <2>4, OtherKeeps
  <2>5. CASE CycleElapses \/ UNCHANGED vars
    BY <1>1, <2>5, CycleKeeps
  <2> QED
    BY <1>1, <2>1, <2>2, <2>3, <2>4, <2>5 DEF Next
<1>2. ASSUME IInv, [Next]_vars, sw'.total # sw.total, ~halted'
      PROVE  \A p \in Ports : Lost(p) =>
               /\ \A q \in 1..p-1 : port'[q].power = 0
               /\ (\A q \in p+1..NPorts : ~Lost(q))
                    => sw'.usage + port[p].power > sw'.total
  BY <1>1, <1>2, TotalSheds
<1>3. IInv /\ [Next]_vars =>
        [sw'.total # sw.total /\ ~halted' =>
           \A p \in Ports : Lost(p) =>
             /\ \A q \in 1..p-1 : port'[q].power = 0
             /\ (\A q \in p+1..NPorts : ~Lost(q))
                  => sw'.usage + port[p].power > sw'.total]_vars
  BY <1>2
<1> QED
  BY <1>3, Invariant, PTL DEF Spec, ShedsNoMoreThanNeeded
=============================================================================
