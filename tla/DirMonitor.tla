---------------------------- MODULE DirMonitor ----------------------------
(***************************************************************************)
(* dir_monitor for inotify: monitors on one io_service, each with a thread *)
(* that reads the kernel's notifications into a deque of events, and one   *)
(* service thread that runs all asynchronous monitor operations, one after *)
(* the other, each blocking on its monitor's deque.  The user thread adds  *)
(* and removes directories, waits for events itself, posts operations,     *)
(* destroys monitors and finally the service.                              *)
(*                                                                         *)
(* A section under one of the mutexes is one step.  Waiting on events_cond_*)
(* and being notified are modelled; so is the window between               *)
(* inotify_add_watch and the insertion into watch_descriptors_.  The       *)
(* kernel, io_service::stop and thread joins are external.                 *)
(***************************************************************************)
EXTENDS Naturals, Sequences, SequencesExt

CONSTANTS
  Monitors, Dirs,
  NoDir,          \* the empty dirname of an unknown watch descriptor
  MaxChanges,     \* bound on changes the file system reports
  MaxOps,         \* bound on asynchronous operations
  MaxAdds,        \* bound on add_directory calls per monitor
  UserRemoves,    \* the user also removes directories
  ChangesWhileAdding  \* files change while add_directory is running

ASSUME DirMonitorAssumption ==
  /\ NoDir \notin Dirs
  /\ MaxChanges \in Nat /\ MaxOps \in Nat /\ MaxAdds \in Nat
  /\ UserRemoves \in BOOLEAN /\ ChangesWhileAdding \in BOOLEAN

VARIABLES
  watch,    \* kernel: watch[m] is a set of <<wd, dir>>
  lastwd,   \* kernel: last watch descriptor handed out
  kq,       \* kernel: notifications not yet read
  changes,  \* changes made so far
  made,     \* notifications made so far, per monitor
  names,    \* watch_descriptors_
  pending,  \* pending_read_buffer_
  reader,   \* the inotify thread: "idle" (read posted), "parse", "exit"
  stopped,  \* inotify_io_service_.stop() was called
  events,   \* events_
  run,      \* run_
  taken,    \* number of the last notification taken from the deque
  user,     \* what the user thread is in the middle of
  pop,      \* who is inside popfront_event, and how far
  opq,      \* operations queued on async_monitor_io_service_
  worker,   \* operation the service thread is running, 0 if none
  done,     \* outcome of each operation posted
  service   \* "up", "stopping" or "down"

kernel == <<watch, lastwd, kq, changes, made>>
thread == <<pending, reader, stopped>>
queue == <<events, run, taken, pop>>
ops == <<opq, worker, done, service>>
vars == <<kernel, names, thread, queue, user, ops>>

Idle == [at |-> "idle"]
Out == [st |-> "out"]
Live(m) == ~stopped[m] /\ run[m]

\* A notification is sizeof(inotify_event) bytes plus a padded file name; the
\* notification that a watch is gone (IN_IGNORED) has no name.  "known" is
\* history: add_directory had entered the descriptor when it was made.
Notification(m, w, named) ==
  [id |-> made[m] + 1, wd |-> w, named |-> named,
   known |-> \E p \in names[m] : p[1] = w]

Init ==
  /\ watch = [m \in Monitors |-> {}] /\ lastwd = [m \in Monitors |-> 0]
  /\ kq = [m \in Monitors |-> << >>] /\ changes = 0
  /\ made = [m \in Monitors |-> 0]
  /\ names = [m \in Monitors |-> {}]
  /\ pending = [m \in Monitors |-> << >>]
  /\ reader = [m \in Monitors |-> "idle"]
  /\ stopped = [m \in Monitors |-> FALSE]
  /\ events = [m \in Monitors |-> << >>]
  /\ run = [m \in Monitors |-> TRUE]
  /\ taken = [m \in Monitors |-> 0]
  /\ user = Idle
  /\ pop = [t \in {"user", "worker"} |-> Out]
  /\ opq = << >> /\ worker = 0 /\ done = << >> /\ service = "up"

-----------------------------------------------------------------------------
(* The file system.                                                        *)

Adding(d) == user.at = "add" /\ user.dir = d

Change(d) ==
  /\ changes < MaxChanges
  /\ Adding(d) => ChangesWhileAdding
  /\ changes' = changes + 1
  /\ LET hit == {m \in Monitors : \E p \in watch[m] : p[2] = d}
         wd(m) == (CHOOSE p \in watch[m] : p[2] = d)[1]
     IN  /\ kq' = [m \in Monitors |->
                     IF m \in hit THEN Append(kq[m], Notification(m, wd(m), TRUE))
                                  ELSE kq[m]]
         /\ made' = [m \in Monitors |-> IF m \in hit THEN made[m] + 1 ELSE made[m]]
  /\ UNCHANGED <<watch, lastwd, names, thread, queue, user, ops>>

-----------------------------------------------------------------------------
(* add_directory and remove_directory.                                     *)

\* inotify_add_watch returns the directory's descriptor, a new one if it has
\* none.
AddWatch(m, d) ==
  /\ user = Idle /\ Live(m) /\ lastwd[m] < MaxAdds
  /\ IF \E p \in watch[m] : p[2] = d
     THEN /\ user' = [at |-> "add", m |-> m, dir |-> d,
                      wd |-> (CHOOSE p \in watch[m] : p[2] = d)[1]]
          /\ UNCHANGED <<watch, lastwd>>
     ELSE /\ lastwd' = [lastwd EXCEPT ![m] = @ + 1]
          /\ watch' = [watch EXCEPT ![m] = @ \cup {<<lastwd[m] + 1, d>>}]
          /\ user' = [at |-> "add", m |-> m, dir |-> d, wd |-> lastwd[m] + 1]
  /\ UNCHANGED <<kq, changes, made, names, thread, queue, ops>>

\* The bimap takes the pair unless either side is in it already.
AddName ==
  /\ user.at = "add"
  /\ names' = [names EXCEPT ![user.m] =
                 IF \E p \in @ : p[1] = user.wd \/ p[2] = user.dir
                 THEN @ ELSE @ \cup {<<user.wd, user.dir>>}]
  /\ user' = Idle
  /\ UNCHANGED <<kernel, thread, queue, ops>>

remove_directory_KeepsWatch(m, d) ==
  /\ user = Idle /\ Live(m) /\ UserRemoves
  /\ \E p \in names[m] : p[2] = d /\ names' = [names EXCEPT ![m] = @ \ {p}]
  /\ UNCHANGED <<kernel, thread, queue, user, ops>>
remove_directory(m, d) ==
  /\ user = Idle /\ Live(m) /\ UserRemoves
  /\ \E p \in names[m] :
       /\ p[2] = d
       /\ names' = [names EXCEPT ![m] = @ \ {p}]
       /\ watch' = [watch EXCEPT ![m] = @ \ {p}]
       /\ kq' = [kq EXCEPT ![m] = Append(@, Notification(m, p[1], FALSE))]
       /\ made' = [made EXCEPT ![m] = @ + 1]
  /\ UNCHANGED <<lastwd, changes, thread, queue, user, ops>>

-----------------------------------------------------------------------------
(* The inotify thread: begin_read, end_read, pushback_event.               *)

Wake(m) ==
  pop' = [t \in DOMAIN pop |->
            IF pop[t].st = "wait" /\ pop[t].m = m THEN [pop[t] EXCEPT !.st = "check"]
                                                  ELSE pop[t]]

get_dirname(m, wd) ==
  IF \E p \in names[m] : p[1] = wd
  THEN (CHOOSE p \in names[m] : p[1] = wd)[2]
  ELSE NoDir

pushback_NoWake(m, ev) ==
  IF run[m]
  THEN events' = [events EXCEPT ![m] = Append(@, ev)] /\ pop' = pop
  ELSE UNCHANGED <<events, pop>>
pushback_event(m, ev) ==
  IF run[m]
  THEN events' = [events EXCEPT ![m] = Append(@, ev)] /\ Wake(m)
  ELSE UNCHANGED <<events, pop>>

Read(m) ==
  /\ reader[m] = "idle" /\ ~stopped[m] /\ kq[m] # << >>
  /\ pending' = [pending EXCEPT ![m] = @ \o kq[m]]
  /\ kq' = [kq EXCEPT ![m] = << >>]
  /\ reader' = [reader EXCEPT ![m] = "parse"]
  /\ UNCHANGED <<watch, lastwd, changes, made, names, stopped, queue, user, ops>>

\* The loop goes on while more than sizeof(inotify_event) bytes are buffered:
\* a lone notification without a name has to wait for the next read.
MoreThanHeader_Count(buf) == Len(buf) > 1
MoreThanHeader(buf) == Len(buf) > 1 \/ (Len(buf) = 1 /\ buf[1].named)

ParseOne(m) ==
  /\ reader[m] = "parse" /\ MoreThanHeader(pending[m])
  /\ LET n == Head(pending[m])
     IN  pushback_event(m, [note |-> n, dir |-> get_dirname(m, n.wd)])
  /\ pending' = [pending EXCEPT ![m] = Tail(@)]
  /\ UNCHANGED <<kernel, names, reader, stopped, run, taken, user, ops>>

BeginRead(m) ==
  /\ reader[m] = "parse" /\ ~MoreThanHeader(pending[m])
  /\ reader' = [reader EXCEPT ![m] = "idle"]
  /\ UNCHANGED <<kernel, names, pending, stopped, queue, user, ops>>

\* io_service::run returns between handlers once the io_service is stopped.
ReaderExits(m) ==
  /\ reader[m] = "idle" /\ stopped[m]
  /\ reader' = [reader EXCEPT ![m] = "exit"]
  /\ UNCHANGED <<kernel, names, pending, stopped, queue, user, ops>>

-----------------------------------------------------------------------------
(* popfront_event, called by the user's monitor() and by the worker.       *)

\* How a thread leaves popfront_event: monitor() returns, an operation posts
\* its handler.
Leave(t, outcome) ==
  /\ pop' = [pop EXCEPT ![t] = Out]
  /\ IF t = "user"
     THEN user' = Idle /\ UNCHANGED ops
     ELSE /\ done' = [done EXCEPT ![worker] = outcome]
          /\ worker' = 0
          /\ UNCHANGED <<user, opq, service>>

PopWait(t) ==
  /\ pop[t].st = "check" /\ run[pop[t].m] /\ events[pop[t].m] = << >>
  /\ pop' = [pop EXCEPT ![t].st = "wait"]
  /\ UNCHANGED <<kernel, names, thread, events, run, taken, user, ops>>

PopTake_Last(t) ==
  /\ pop[t].st = "check" /\ events[pop[t].m] # << >>
  /\ LET m == pop[t].m
     IN  /\ events' = [events EXCEPT ![m] = Front(@)]
         /\ taken' = [taken EXCEPT ![m] = Last(events[m]).note.id]
  /\ Leave(t, "event")
  /\ UNCHANGED <<kernel, names, thread, run>>
PopTake(t) ==
  /\ pop[t].st = "check" /\ events[pop[t].m] # << >>
  /\ LET m == pop[t].m
     IN  /\ events' = [events EXCEPT ![m] = Tail(@)]
         /\ taken' = [taken EXCEPT ![m] = Head(events[m]).note.id]
  /\ Leave(t, "event")
  /\ UNCHANGED <<kernel, names, thread, run>>

PopAbort(t) ==
  /\ pop[t].st = "check" /\ ~run[pop[t].m] /\ events[pop[t].m] = << >>
  /\ Leave(t, "aborted")
  /\ UNCHANGED <<kernel, names, thread, events, run, taken>>

\* dm.monitor(): the user thread blocks in popfront_event itself.
monitor(m) ==
  /\ user = Idle /\ Live(m)
  /\ user' = [at |-> "monitor"]
  /\ pop' = [pop EXCEPT !["user"] = [st |-> "check", m |-> m]]
  /\ UNCHANGED <<kernel, names, thread, events, run, taken, ops>>

-----------------------------------------------------------------------------
(* The service: async_monitor and the thread that runs the operations.     *)

async_monitor(m) ==
  /\ user = Idle /\ Live(m) /\ Len(done) < MaxOps
  /\ done' = Append(done, "queued")
  /\ opq' = Append(opq, [op |-> Len(done) + 1, m |-> m])
  /\ UNCHANGED <<kernel, names, thread, queue, user, worker, service>>

\* The worker takes the next operation.  impl_.lock() succeeds for a destroyed
\* monitor too: its outstanding read holds a shared_ptr to it from inside its
\* own io_service.
RunOperation ==
  /\ worker = 0 /\ opq # << >> /\ service = "up"
  /\ worker' = Head(opq).op
  /\ opq' = Tail(opq)
  /\ pop' = [pop EXCEPT !["worker"] = [st |-> "check", m |-> Head(opq).m]]
  /\ UNCHANGED <<kernel, names, thread, events, run, taken, user, done, service>>

-----------------------------------------------------------------------------
(* Destruction of a monitor, then of the service.                          *)

DestroyStops(m) ==
  /\ user = Idle /\ Live(m)
  /\ stopped' = [stopped EXCEPT ![m] = TRUE]
  /\ user' = [at |-> "join", m |-> m]
  /\ UNCHANGED <<kernel, names, pending, reader, queue, ops>>

DestroyEnds_Quietly ==
  /\ user.at = "join" /\ reader[user.m] = "exit"
  /\ run' = [run EXCEPT ![user.m] = FALSE]
  /\ user' = Idle
  /\ UNCHANGED <<kernel, names, thread, events, taken, pop, ops>>
DestroyEnds ==
  /\ user.at = "join" /\ reader[user.m] = "exit"
  /\ run' = [run EXCEPT ![user.m] = FALSE]
  /\ Wake(user.m)
  /\ user' = Idle
  /\ UNCHANGED <<kernel, names, thread, events, taken, ops>>

\* ~basic_dir_monitor_service: stop() drops the queued operations, ...
ServiceStops ==
  /\ user = Idle /\ service = "up" /\ \A m \in Monitors : ~run[m]
  /\ service' = "stopping"
  /\ opq' = << >>
  /\ done' = [i \in DOMAIN done |->
                IF \E k \in DOMAIN opq : opq[k].op = i THEN "dropped" ELSE done[i]]
  /\ user' = [at |-> "service"]
  /\ UNCHANGED <<kernel, names, thread, queue, worker>>

\* ... and the thread is joined when the operation it runs returns.
ServiceJoined ==
  /\ service = "stopping" /\ worker = 0
  /\ service' = "down"
  /\ user' = Idle
  /\ UNCHANGED <<kernel, names, thread, queue, opq, worker, done>>

-----------------------------------------------------------------------------
ReaderStep(m) == Read(m) \/ ParseOne(m) \/ BeginRead(m) \/ ReaderExits(m)
PopStep(t) == PopWait(t) \/ PopTake(t) \/ PopAbort(t)
UserContinues == AddName \/ DestroyEnds \/ ServiceJoined \/ PopStep("user")
UserCalls ==
  \/ \E m \in Monitors :
       \/ \E d \in Dirs : AddWatch(m, d) \/ remove_directory(m, d)
       \/ monitor(m) \/ async_monitor(m) \/ DestroyStops(m)
  \/ ServiceStops

Next ==
  \/ \E d \in Dirs : Change(d)
  \/ \E m \in Monitors : ReaderStep(m)
  \/ PopStep("worker") \/ RunOperation
  \/ UserContinues \/ UserCalls

Spec == Init /\ [][Next]_vars

\* Threads that can run do run; a call the user has begun goes on.
FairSpec ==
  /\ Spec
  /\ \A m \in Monitors : WF_vars(ReaderStep(m))
  /\ WF_vars(PopStep("worker")) /\ WF_vars(RunOperation)
  /\ WF_vars(UserContinues)

-----------------------------------------------------------------------------
TypeOK ==
  /\ \A m \in Monitors :
       /\ watch[m] \subseteq (1..MaxAdds) \X Dirs
       /\ names[m] \subseteq (1..MaxAdds) \X Dirs
       /\ \A ev \in ToSet(events[m]) : ev.dir \in Dirs \cup {NoDir}
       /\ reader[m] \in {"idle", "parse", "exit"}
       /\ stopped[m] \in BOOLEAN /\ run[m] \in BOOLEAN
  /\ user.at \in {"idle", "add", "monitor", "join", "service"}
  /\ \A t \in DOMAIN pop : pop[t].st \in {"out", "check", "wait"}
  /\ service \in {"up", "stopping", "down"}
  /\ worker \in 0..MaxOps
  /\ ToSet(done) \subseteq {"queued", "event", "aborted", "dropped"}

\* Notifications reach the callers of a live monitor in the order the kernel
\* made them, each exactly once: those in the deque, in the read buffer and in
\* the kernel are precisely the ones not yet taken.
InFlight(m) ==
  [i \in 1..Len(events[m]) |-> events[m][i].note] \o pending[m] \o kq[m]
NothingLostOrReordered ==
  \A m \in Monitors :
    Live(m) => /\ Len(InFlight(m)) = made[m] - taken[m]
               /\ \A i \in 1..Len(InFlight(m)) : InFlight(m)[i].id = taken[m] + i

\* The notifications are accounted for, and the threads, queues and watches stay
\* what their types say.
EventsAccounted == TypeOK /\ NothingLostOrReordered

\* The tests check ev.dirname against the watched directory
\* (dir_monitor/test/sync.cpp:25): an event about a file names its directory.
FileEventsNamed ==
  \A m \in Monitors : \A ev \in ToSet(events[m]) : ev.note.named => ev.dir \in Dirs

\* What does hold when directories are added and removed all the time: an event
\* made after add_directory entered its watch, whose watch is still there,
\* carries the name of the directory that watch is on, and no other.
WatchedEventsNamed ==
  \A m \in Monitors : \A ev \in ToSet(events[m]) : \A p \in watch[m] :
    ev.note.known /\ p[1] = ev.note.wd => ev.dir = p[2]

\* Nobody sleeps on a deque that holds an event, or on a monitor that was
\* destroyed: no wake-up is lost.
NoSleeperForgotten ==
  \A t \in DOMAIN pop :
    pop[t].st = "wait" => run[pop[t].m] /\ events[pop[t].m] = << >>

\* "When dm and io_service go out of scope they should be destroyed properly
\* without a thread being blocked" (dir_monitor/test/async.cpp:177): a
\* destruction that has begun ends, and so does the service's.
DestructionEnds ==
  /\ \A m \in Monitors : stopped[m] ~> ~run[m]
  /\ service = "stopping" ~> service = "down"

\* A file change seen by a live monitor comes out of its deque's other end as
\* an event, or the monitor is destroyed: none stays in the read buffer.
FileEventsArrive ==
  \A m \in Monitors :
    (\E n \in ToSet(kq[m] \o pending[m]) : n.named)
      ~> (stopped[m] \/ ~\E n \in ToSet(kq[m] \o pending[m]) : n.named)

\* Once every monitor is destroyed each posted operation gets its handler
\* posted, with an event or aborted, unless the service drops it.
OperationsEnd ==
  (\A m \in Monitors : ~run[m]) ~> (\A i \in DOMAIN done : done[i] # "queued")
=============================================================================
