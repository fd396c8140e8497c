-------------------------------- MODULE Pmsft -------------------------------
(***************************************************************************)
(* The multicast filter test program mcast/pmsft.c: commands, typed or     *)
(* from files, on one socket.  Outside it are the kernel's source filters  *)
(* (one membership per group) and interface flags.  A command is a record  *)
(* of what sscanf and inet_addr made of the line; a line they refuse       *)
(* prints -1 and changes nothing.                                          *)
(***************************************************************************)
EXTENDS Integers, Sequences, FiniteSets

CONSTANTS
  Groups, Sources,
  McAddrBits,    \* 32, the bits of a source address
  MAX_ADDRS,     \* sources of one filter command
  MaxCmds        \* bound: commands

\* Addresses are unsigned numbers, and half the range is where the sign of a
\* difference flips.
ASSUME SourcesAssumption == IsFiniteSet(Sources) /\ Sources \subseteq 0..2 ^ McAddrBits - 1
ASSUME AddrBitsAssumption ==
  2 ^ (McAddrBits - 1) \in Nat \ {0} /\ 2 ^ McAddrBits = 2 * 2 ^ (McAddrBits - 1)

VARIABLES
  filter,   \* group -> member, mode and sources
  flags,    \* the interface's flags
  reply,    \* the last command and what it printed
  input     \* "stdin", "file" or "closed", and the commands so far
pmsftVars == <<filter, flags, reply, input>>

None == [member |-> FALSE, mode |-> "include", src |-> {}]

-----------------------------------------------------------------------------
(* The kernel: each call returns an error and the new filter.              *)

Result(err, g) == [err |-> err, g |-> g]
KernelGroup(opt, g) ==
  CASE opt = "join" -> IF g.member THEN Result("EADDRINUSE", g) ELSE Result("ok", [member |-> TRUE, mode |-> "exclude", src |-> {}])
    [] opt = "leave" -> IF g.member THEN Result("ok", None) ELSE Result("EADDRNOTAVAIL", g)
\* The source calls are for one mode each.
KernelSource(opt, g, s) ==
  CASE opt = "join_source" ->
         IF g.member /\ g.mode = "exclude" THEN Result("EINVAL", g)
         ELSE IF s \in g.src THEN Result("EADDRNOTAVAIL", g)
         ELSE Result("ok", [member |-> TRUE, mode |-> "include", src |-> g.src \cup {s}])
    [] opt = "leave_source" ->
         IF ~g.member \/ g.mode = "exclude" THEN Result("EINVAL", g)
         ELSE IF s \notin g.src THEN Result("EADDRNOTAVAIL", g)
         ELSE Result("ok", IF g.src = {s} THEN None ELSE [g EXCEPT !.src = @ \ {s}])
    [] opt \in {"block", "unblock"} ->
         IF ~g.member \/ g.mode = "include" THEN Result("EINVAL", g)
         ELSE IF (s \in g.src) = (opt = "block") THEN Result("EADDRNOTAVAIL", g)
         ELSE Result("ok", [g EXCEPT !.src = IF opt = "block" THEN @ \cup {s} ELSE @ \ {s}])
KernelSetFilter(mode, srcs, g) ==
  Result("ok", IF mode = "include" /\ srcs = {} THEN None ELSE [member |-> TRUE, mode |-> mode, src |-> srcs])
Allowed(g, s) == g.member /\ (s \in g.src) = (g.mode = "include")

-----------------------------------------------------------------------------
(* process_cmd.                                                            *)

error_2_name(err) == IF err = "ok" THEN "ENOERR"
                     ELSE IF err \in {"EINVAL", "ENOENT", "ENOMEM", "EADDRNOTAVAIL"} THEN err ELSE "UNKNOWN"
Answer(cmd, r, g) ==
  /\ reply' = [cmd |-> cmd, said |-> error_2_name(r.err), was |-> filter[g], g |-> g]
  /\ filter' = [filter EXCEPT ![g] = r.g]
  /\ UNCHANGED flags

\* j and l.
JoinOrLeave(c, g) == Answer([op |-> c], KernelGroup(IF c = "j" THEN "join" ELSE "leave", filter[g]), g)

\* i and e: at most MAX_ADDRS sources, read from the lines that follow; one bad
\* line gives the command up before the kernel is asked.
SetFilter(c, g, srcs) ==
  /\ Cardinality(srcs) <= MAX_ADDRS
  /\ \/ Answer([op |-> c, src |-> srcs], KernelSetFilter(IF c = "i" THEN "include" ELSE "exclude", srcs, filter[g]), g)
     \/ /\ srcs # {} /\ reply' = [cmd |-> [op |-> c, src |-> srcs], said |-> "-1", was |-> filter[g], g |-> g]
        /\ UNCHANGED <<filter, flags>>

SourceOpt_AnyMode(c, mode) == IF c = "t" THEN "join_source" ELSE "leave_source"

\* t and b: the call that fits the mode the filter is in; a group without
\* membership can only be allowed a source.
SourceOpt(c, mode) ==
  IF mode = "exclude" THEN (IF c = "t" THEN "unblock" ELSE "block")
  ELSE (IF c = "t" THEN "join_source" ELSE "leave_source")
AllowOrBlock(c, g, s) ==
  IF ~filter[g].member /\ c = "b"
  THEN Answer([op |-> c, src |-> {s}], Result("EADDRNOTAVAIL", filter[g]), g)
  ELSE Answer([op |-> c, src |-> {s}],
              KernelSource(SourceOpt(c, IF filter[g].member THEN filter[g].mode ELSE "include"), filter[g], s), g)

\* g prints the mode, and the sources when there are fewer than asked for, as
\* qsort leaves them: sorted when the comparison, a difference cut to an int,
\* orders them at all.
comp_sas(a, b) == ((a - b + 2 ^ (McAddrBits - 1)) % 2 ^ McAddrBits) - 2 ^ (McAddrBits - 1)
Listings(src, n) ==
  LET k == Cardinality(src)
      orders == {q \in [1..k -> src] : \A i, j \in 1..k : q[i] = q[j] => i = j}
      sorted == {q \in orders : \A i, j \in 1..k : i < j => comp_sas(q[i], q[j]) < 0}
  IN  IF n <= k THEN {<<>>} ELSE IF sorted # {} THEN sorted ELSE orders
ShowFilter(g, n) ==
  /\ \E list \in IF filter[g].member THEN Listings(filter[g].src, n) ELSE {<<>>} :
       reply' = [cmd |-> [op |-> "g", n |-> n], was |-> filter[g], g |-> g, list |-> list,
                 said |-> IF filter[g].member THEN filter[g].mode ELSE "EADDRNOTAVAIL"]
  /\ UNCHANGED <<filter, flags>>

\* m and p: the test of the command letter is an assignment, so both set or
\* clear the same flag.
SetFlag(c, on) ==
  /\ flags' = IF on THEN flags \cup {"allmulti"} ELSE flags \ {"allmulti"}
  /\ reply' = [cmd |-> [op |-> c, on |-> on], said |-> "ENOERR", was |-> flags, g |-> "none"]
  /\ UNCHANGED filter
\* a and d, ?, s: nothing of the filter changes.
OtherCommand == UNCHANGED <<filter, flags, reply>>

process_cmd ==
  \/ \E g \in Groups : \/ \E c \in {"j", "l"} : JoinOrLeave(c, g)
                       \/ \E c \in {"i", "e"}, srcs \in SUBSET Sources : SetFilter(c, g, srcs)
                       \/ \E c \in {"t", "b"}, s \in Sources : AllowOrBlock(c, g, s)
                       \/ \E n \in 0..(MAX_ADDRS + 1) : ShowFilter(g, n)
  \/ \E c \in {"m", "p"}, on \in BOOLEAN : SetFlag(c, on)
  \/ OtherCommand

-----------------------------------------------------------------------------
(* main and process_file.                                                  *)

Command ==
  /\ input.from # "closed" /\ input.n < MaxCmds
  /\ process_cmd
  /\ input' = [input EXCEPT !.n = @ + 1]
\* f opens a file, whose end goes back to what was typed.
process_file ==
  /\ \/ input.from = "stdin" /\ input.n < MaxCmds /\ input' = [input EXCEPT !.from = "file", !.n = @ + 1]
     \/ input.from = "file" /\ input' = [input EXCEPT !.from = "stdin"]
  /\ UNCHANGED <<filter, flags, reply>>
\* q closes the socket, which leaves every group, and ends the program.
Quit ==
  /\ input.from # "closed"
  /\ input' = [input EXCEPT !.from = "closed"]
  /\ filter' = [g \in Groups |-> None]
  /\ reply' = [cmd |-> [op |-> "q"], said |-> "", was |-> None, g |-> "none"]
  /\ UNCHANGED flags

PmsftRest ==
  /\ filter = [g \in Groups |-> None] /\ flags = {}
  /\ reply = [cmd |-> [op |-> "none"], said |-> "", was |-> None, g |-> "none"]
PmsftIdle == PmsftRest /\ input = [from |-> "closed", n |-> 0]
PmsftInit == PmsftRest /\ input = [from |-> "stdin", n |-> 0]
PmsftNext == Command \/ process_file \/ Quit
PmsftSpec == PmsftInit /\ [][PmsftNext]_pmsftVars

-----------------------------------------------------------------------------
\* Whatever mode earlier commands left a group in, allowing or blocking a
\* source is never refused because of the mode; when it succeeds exactly that
\* source's traffic is allowed or blocked and no other's changes, and when it
\* fails the source already was, or had nothing to be blocked from.  A filter
\* given up half way changes nothing, and a listing has each source once, in
\* order when no two addresses are half the address range apart.
FilterFollows ==
  LET c == reply.cmd.op
      g == filter[reply.g]
  IN  /\ c \in {"t", "b"} =>
           /\ reply.said # "EINVAL"
           /\ \A s \in reply.cmd.src : Allowed(g, s) = (c = "t")
           /\ \A s \in Sources \ reply.cmd.src : Allowed(g, s) = Allowed(reply.was, s)
           /\ reply.said # "ENOERR" => g = reply.was
      /\ c \in {"i", "e"} =>
           IF reply.said = "-1" THEN g = reply.was ELSE \A s \in Sources : Allowed(g, s) = ((s \in reply.cmd.src) = (c = "i"))
      /\ c = "g" /\ reply.list # <<>> =>
           /\ {reply.list[i] : i \in DOMAIN reply.list} = g.src /\ Len(reply.list) = Cardinality(g.src)
           /\ (\A s, t \in g.src : s - t < 2 ^ (McAddrBits - 1)) => \A i \in 2..Len(reply.list) : reply.list[i - 1] < reply.list[i]
=============================================================================
