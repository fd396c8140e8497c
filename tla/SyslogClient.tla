---------------------------- MODULE SyslogClient ----------------------------
(***************************************************************************)
(* The syslog client (syslog/syslog.c): threads that call syslog, openlog, *)
(* closelog and setlogmask, the connection they share under syslog_lock,   *)
(* the SIGPIPE handler that is installed while a message is sent, and a    *)
(* log daemon that stops, comes back, and may change its kind of socket.   *)
(*                                                                         *)
(* A message is its number, its priority and facility; its text is left    *)
(* out.  SIGPIPE may also be another thread's, whose write elsewhere broke *)
(* while the handler was installed.                                        *)
(***************************************************************************)
EXTENDS Integers, Sequences, FiniteSets

CONSTANTS
  Threads,
  Priorities, Facilities,   \* "none" is no facility
  MaxMsgs,                  \* bound: calls of syslog
  MaxFaults                 \* bound: stops of the daemon and stray signals

\* "free" says that no thread holds the lock.
ASSUME ThreadsAssumption == "free" \notin Threads

VARIABLES
  log,     \* the static variables: Type, File, connected, Stat, Tag, Facility, Mask
  slock,   \* the thread that holds syslog_lock, or "free"
  sigpipe, \* the process's handler: "user" or "syslog"
  sthr,    \* thread -> pc and the message it sends
  sfds,    \* open sockets and the daemon's life they are connected to
  daemon,  \* its socket type or "down", and which life this is
  sout     \* messages received by the daemon, sent to the console, lost; faults
syslogVars == <<log, slock, sigpipe, sthr, sfds, daemon, sout>>

NoFd == -1
NoMsg == [id |-> 0, pri |-> "none", fac |-> "none"]
LOG_ERR == "err"

-----------------------------------------------------------------------------
(* closelog_internal and openlog_internal, on the log's variables and the  *)
(* process's sockets.  The result of the latter has both.                  *)

closelog_internal(s) ==
  [fds |-> [f \in DOMAIN s.fds \ {s.log.File} |-> s.fds[f]],
   log |-> [s.log EXCEPT !.File = NoFd, !.connected = FALSE]]

NewFd(fds) == CHOOSE f \in 0..Cardinality(DOMAIN fds) : f \notin DOMAIN fds
SetLog(s, tag, stat, fac) ==
  [s EXCEPT !.log.Tag = IF tag # "null" THEN tag ELSE @, !.log.Stat = stat,
            !.log.Facility = IF fac # "none" THEN fac ELSE @]
\* A socket is made with LOG_NDELAY only; a connection that fails closes it.
Opened(s) ==
  IF s.log.File = NoFd /\ "ndelay" \in s.log.Stat
  THEN LET f == NewFd(s.fds)
       IN  [fds |-> [x \in DOMAIN s.fds \cup {f} |-> IF x = f THEN 0 ELSE s.fds[x]], log |-> [s.log EXCEPT !.File = f]]
  ELSE s
Connected(s) ==
  IF s.log.File = NoFd \/ s.log.connected THEN s
  ELSE IF daemon.type = s.log.Type
       THEN [fds |-> [s.fds EXCEPT ![s.log.File] = daemon.life], log |-> [s.log EXCEPT !.connected = TRUE]]
       ELSE [fds |-> [f \in DOMAIN s.fds \ {s.log.File} |-> s.fds[f]], log |-> [s.log EXCEPT !.File = NoFd]]

NextType_NoRetry(s, tried) == s

\* A datagram socket refused as the wrong type is tried again as a stream, once
\* and for all: nothing sets the type back.
NextType(s, tried) ==
  IF tried.log.File = NoFd /\ s.log.File # NoFd /\ s.log.Type = "dgram" /\ daemon.type = "stream"
  THEN [tried EXCEPT !.log.Type = "stream"] ELSE tried
openlog_internal(s, tag, stat, fac) ==
  LET first == Opened(SetLog(s, tag, stat, fac))
      once == NextType(first, Connected(first))
  IN  IF once.log.Type # first.log.Type THEN Connected(Opened(once)) ELSE once

State == [fds |-> sfds, log |-> log]
SyslogIs(s) == sfds' = s.fds /\ log' = s.log

-----------------------------------------------------------------------------
(* vsyslog.                                                                *)

\* Before the lock: the mask, the default facility and the tag.
vsyslog(t) ==
  /\ sthr[t].pc \in {"idle", "again"} /\ sout.calls < MaxMsgs
  /\ \E p \in Priorities, f \in Facilities :
       IF p \in log.Mask
       THEN /\ sthr' = [sthr EXCEPT ![t] = [pc |-> "lock", then |-> "idle", msg |->
                          [id |-> sout.calls + 1, pri |-> p, fac |-> IF f = "none" THEN log.Facility ELSE f]]]
            /\ log' = [log EXCEPT !.Tag = IF @ = "null" THEN "progname" ELSE @]
       ELSE sthr' = [sthr EXCEPT ![t].pc = "idle"] /\ UNCHANGED log
  /\ sout' = [sout EXCEPT !.calls = @ + 1]
  /\ UNCHANGED <<slock, sigpipe, sfds, daemon>>
\* A priority with unknown bits first logs a complaint, with known bits, and then
\* its message.
vsyslog_unknown(t) ==
  /\ sthr[t].pc = "idle" /\ sout.calls + 1 < MaxMsgs
  /\ IF LOG_ERR \in log.Mask
     THEN sthr' = [sthr EXCEPT ![t] = [pc |-> "lock", then |-> "again",
                                       msg |-> [id |-> sout.calls + 1, pri |-> LOG_ERR, fac |-> "auth"]]]
     ELSE sthr' = [sthr EXCEPT ![t].pc = "again"]
  /\ log' = [log EXCEPT !.Tag = IF @ = "null" /\ LOG_ERR \in log.Mask THEN "progname" ELSE @]
  /\ sout' = [sout EXCEPT !.calls = @ + 1]
  /\ UNCHANGED <<slock, sigpipe, sfds, daemon>>

EnterRegion(t) ==
  /\ sthr[t].pc = "lock" /\ slock = "free"
  /\ slock' = t /\ sigpipe' = "syslog"
  /\ sthr' = [sthr EXCEPT ![t].pc = "open"]
  /\ UNCHANGED <<log, sfds, daemon, sout>>
GetConnected(t) ==
  /\ sthr[t].pc = "open"
  /\ IF log.connected THEN UNCHANGED <<log, sfds>>
     ELSE SyslogIs(openlog_internal(State, log.Tag, log.Stat \cup {"ndelay"}, "none"))
  /\ sthr' = [sthr EXCEPT ![t].pc = "send"]
  /\ UNCHANGED <<slock, sigpipe, daemon, sout>>
\* A failed send, with or without SIGPIPE, closes the log; the message goes to
\* the console when that was asked for and is not sent again.
Send(t) ==
  /\ sthr[t].pc = "send"
  /\ LET ok == log.File # NoFd /\ sfds[log.File] = daemon.life /\ daemon.type = log.Type
         where == IF ok THEN "received" ELSE IF "cons" \in log.Stat THEN "console" ELSE "lost"
     IN  /\ IF ok THEN UNCHANGED <<log, sfds>> ELSE SyslogIs(closelog_internal(State))
         /\ sout' = [sout EXCEPT ![where] = Append(@, sthr[t].msg)]
  /\ sthr' = [sthr EXCEPT ![t].pc = "leave"]
  /\ UNCHANGED <<slock, sigpipe, daemon>>
LeaveRegion_KeepsHandler(t) ==
  /\ sthr[t].pc = "leave"
  /\ slock' = "free"
  /\ sthr' = [sthr EXCEPT ![t] = [pc |-> sthr[t].then, then |-> "idle", msg |-> NoMsg]]
  /\ UNCHANGED <<log, sigpipe, sfds, daemon, sout>>
LeaveRegion(t) ==
  /\ sthr[t].pc = "leave"
  /\ slock' = "free" /\ sigpipe' = "user"
  /\ sthr' = [sthr EXCEPT ![t] = [pc |-> sthr[t].then, then |-> "idle", msg |-> NoMsg]]
  /\ UNCHANGED <<log, sfds, daemon, sout>>

-----------------------------------------------------------------------------
(* The other calls, under the lock but for setlogmask.                     *)

openlog(t) ==
  /\ sthr[t].pc = "idle" /\ slock = "free"
  /\ \E stat \in {{}, {"ndelay", "cons"}}, fac \in Facilities : SyslogIs(openlog_internal(State, "tag", stat, fac))
  /\ UNCHANGED <<slock, sigpipe, sthr, daemon, sout>>
closelog(t) ==
  /\ sthr[t].pc = "idle" /\ slock = "free"
  /\ SyslogIs(closelog_internal(State))
  /\ UNCHANGED <<slock, sigpipe, sthr, daemon, sout>>
setlogmask(t) ==
  /\ sthr[t].pc = "idle"
  /\ \E m \in {Priorities, {LOG_ERR}} : log' = [log EXCEPT !.Mask = m]
  /\ UNCHANGED <<slock, sigpipe, sthr, sfds, daemon, sout>>
\* Another thread's broken pipe while the handler is installed.
sigpipe_handler ==
  /\ sigpipe = "syslog" /\ sout.faults < MaxFaults
  /\ SyslogIs(closelog_internal(State))
  /\ sout' = [sout EXCEPT !.faults = @ + 1]
  /\ UNCHANGED <<slock, sigpipe, sthr, daemon>>

\* The daemon restarts, perhaps with the other kind of socket.
DaemonChanges ==
  /\ sout.faults < MaxFaults
  /\ \E type \in {"dgram", "stream", "down"} \ {daemon.type} : daemon' = [type |-> type, life |-> daemon.life + 1]
  /\ sout' = [sout EXCEPT !.faults = @ + 1]
  /\ UNCHANGED <<log, slock, sigpipe, sthr, sfds>>

SyslogRest(pc) ==
  /\ log = [Type |-> "dgram", File |-> NoFd, connected |-> FALSE, Stat |-> {}, Tag |-> "null",
            Facility |-> "user", Mask |-> Priorities]
  /\ slock = "free" /\ sigpipe = "user" /\ sfds = [f \in {} |-> 0]
  /\ sthr = [t \in Threads |-> [pc |-> pc, then |-> "idle", msg |-> NoMsg]]
  /\ sout = [calls |-> 0, received |-> <<>>, console |-> <<>>, lost |-> <<>>, faults |-> IF pc = "off" THEN MaxFaults ELSE 0]
SyslogIdle == SyslogRest("off") /\ daemon = [type |-> "down", life |-> 1]
SyslogInit == SyslogRest("idle") /\ \E type \in {"dgram", "stream"} : daemon = [type |-> type, life |-> 1]
SyslogNext ==
  \/ \E t \in Threads : vsyslog(t) \/ vsyslog_unknown(t) \/ EnterRegion(t) \/ GetConnected(t) \/ Send(t)
                        \/ LeaveRegion(t) \/ openlog(t) \/ closelog(t) \/ setlogmask(t)
  \/ sigpipe_handler \/ DaemonChanges
SyslogSpec == SyslogInit /\ [][SyslogNext]_syslogVars

-----------------------------------------------------------------------------
\* Between messages the user's SIGPIPE handler is in place and the client has
\* at most one socket, the one in LogFile, connected when connected says so;
\* failures, retries and closes from the handler leave none behind.
ConnectionKept ==
  /\ slock = "free" <=> sigpipe = "user"
  /\ slock # "free" <=> \E t \in Threads : sthr[t].pc \in {"open", "send", "leave"}
  /\ DOMAIN sfds = {log.File} \ {NoFd}
  /\ log.connected <=> log.File # NoFd /\ sfds[log.File] > 0
\* With a daemon that stays, of either kind, and no stray signal, no message
\* is lost and messages arrive once; each call's message ends up in one place;
\* and without a change to a stream daemon the client keeps to datagrams.
MessagesAccounted ==
  /\ sout.faults = 0 => sout.lost = <<>> /\ sout.console = <<>>
  /\ LET all == sout.received \o sout.console \o sout.lost
     IN  \A m, n \in DOMAIN all : all[m].id = all[n].id => m = n
  /\ log.Type = "stream" => daemon.type = "stream" \/ sout.faults > 0
=============================================================================
