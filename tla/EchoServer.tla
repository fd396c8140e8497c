------------------------------ MODULE EchoServer ----------------------------
(***************************************************************************)
(* The buffered echo server on libevent (libevent_echosrv_buffered.c): one *)
(* event loop, and for each connection a buffered event whose callbacks    *)
(* echo what was read and take the connection down.  Descriptors are       *)
(* numbers the kernel gives out again; data is counted byte by byte.       *)
(***************************************************************************)
EXTENDS Integers, Sequences, FiniteSets

CONSTANTS
  EchoClients,   \* clients, each of which connects once
  MaxFd,         \* the highest descriptor (SOMAXCONN and the process limit)
  MaxBytes       \* bound: bytes a client sends

\* "none" is nobody's name.
ASSUME EchoAssumption == MaxFd \in Nat /\ "none" \notin EchoClients

VARIABLES
  peers,     \* client -> its state, bytes sent, bytes in the kernel, bytes got back
  clients,   \* descriptor -> client structure: peer, input and output buffer
  listening
echoVars == <<peers, clients, listening>>

NoClient == [peer |-> "none", input |-> <<>>, output |-> <<>>]
Fds == 1..MaxFd
UsedFds == {f \in Fds : clients[f] # NoClient}

-----------------------------------------------------------------------------
(* The callbacks, run one at a time by event_dispatch.                     *)

\* The lowest free descriptor, or accept fails and the connection is reset.
on_accept(c) ==
  /\ listening /\ peers[c].state = "connecting"
  /\ IF UsedFds = Fds
     THEN /\ peers' = [peers EXCEPT ![c].state = "closed"]
          /\ UNCHANGED clients
     ELSE LET fd == CHOOSE f \in Fds \ UsedFds : \A g \in Fds \ UsedFds : f <= g
          IN  /\ clients' = [clients EXCEPT ![fd] = [NoClient EXCEPT !.peer = c]]
              /\ peers' = [peers EXCEPT ![c].state = "open"]
  /\ UNCHANGED listening

buffered_on_read_Keeps(fd) == [clients[fd] EXCEPT !.output = @ \o clients[fd].input]

\* libevent reads what has arrived, and the callback writes the input buffer to
\* the output buffer, which drains it.
buffered_on_read(fd) == [clients[fd] EXCEPT !.output = @ \o clients[fd].input, !.input = <<>>]
ReadEvent(fd) ==
  /\ fd \in UsedFds /\ clients[fd].input = <<>> /\ peers[clients[fd].peer].wire # <<>>
  /\ LET c == clients[fd].peer
     IN  \E n \in 1..Len(peers[c].wire) :
           /\ clients' = [clients EXCEPT ![fd].input = @ \o SubSeq(peers[c].wire, 1, n)]
           /\ peers' = [peers EXCEPT ![c].wire = SubSeq(@, n + 1, Len(@))]
  /\ UNCHANGED listening
ReadCallback(fd) ==
  /\ fd \in UsedFds /\ clients[fd].input # <<>>
  /\ clients' = [clients EXCEPT ![fd] = buffered_on_read(fd)]
  /\ UNCHANGED <<peers, listening>>

\* libevent writes as much as the socket takes.
WriteEvent(fd) ==
  /\ fd \in UsedFds /\ clients[fd].output # <<>>
  /\ LET c == clients[fd].peer
     IN  \E n \in 1..Len(clients[fd].output) :
           /\ peers' = [peers EXCEPT ![c].got = @ \o SubSeq(clients[fd].output, 1, n)]
           /\ clients' = [clients EXCEPT ![fd].output = SubSeq(@, n + 1, Len(@))]
  /\ UNCHANGED listening

\* End of file or an error: buffers freed, descriptor closed, structure freed.
buffered_on_error(fd) ==
  /\ fd \in UsedFds
  /\ LET c == clients[fd].peer
     IN  /\ \/ peers[c].state = "eof" /\ peers[c].wire = <<>> /\ clients[fd].input = <<>>
            \/ peers[c].state = "reset"
         /\ peers' = [peers EXCEPT ![c].state = "closed"]
  /\ clients' = [clients EXCEPT ![fd] = NoClient]
  /\ UNCHANGED listening

-----------------------------------------------------------------------------
(* main sets up the listening socket, or ends; the clients.                *)

Connects(c) ==
  /\ listening /\ peers[c].state = "none"
  /\ peers' = [peers EXCEPT ![c].state = "connecting"]
  /\ UNCHANGED <<clients, listening>>
Sends(c) ==
  /\ peers[c].state \in {"connecting", "open"} /\ Len(peers[c].sent) < MaxBytes
  /\ LET b == <<c, Len(peers[c].sent) + 1>>
     IN  peers' = [peers EXCEPT ![c].sent = Append(@, b), ![c].wire = Append(@, b)]
  /\ UNCHANGED <<clients, listening>>
HangsUp(c) ==
  /\ peers[c].state = "open"
  /\ \E s \in {"eof", "reset"} : peers' = [peers EXCEPT ![c].state = s]
  /\ UNCHANGED <<clients, listening>>

EchoRest ==
  /\ peers = [c \in EchoClients |-> [state |-> "none", sent |-> <<>>, wire |-> <<>>, got |-> <<>>]]
  /\ clients = [f \in Fds |-> NoClient]
EchoIdle == listening = FALSE /\ EchoRest
main == listening = TRUE            \* socket, bind and listen succeeded
EchoInit == main /\ EchoRest
EchoNext ==
  \/ \E c \in EchoClients : Connects(c) \/ Sends(c) \/ HangsUp(c) \/ on_accept(c)
  \/ \E f \in Fds : ReadEvent(f) \/ ReadCallback(f) \/ WriteEvent(f) \/ buffered_on_error(f)
EchoSpec == EchoInit /\ [][EchoNext]_echoVars

-----------------------------------------------------------------------------
\* A client gets back its own bytes, in order and once, whichever descriptors
\* were used before: until its connection is taken down what came back, what
\* waits in the two buffers and what has not been read make up what it sent,
\* and afterwards what came back is a prefix of it.  Every connection that is
\* up has exactly one descriptor.
EchoExact ==
  \A c \in EchoClients :
    LET mine == {f \in UsedFds : clients[f].peer = c}
    IN  /\ Cardinality(mine) = IF peers[c].state \in {"open", "eof", "reset"} THEN 1 ELSE 0
        /\ \A f \in mine : peers[c].got \o clients[f].output \o clients[f].input \o peers[c].wire = peers[c].sent
        /\ \E n \in 0..Len(peers[c].sent) : peers[c].got = SubSeq(peers[c].sent, 1, n)
=============================================================================
