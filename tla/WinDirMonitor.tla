---------------------------- MODULE WinDirMonitor ---------------------------
(***************************************************************************)
(* The Windows half of the directory monitor (dir_monitor/src/windows):    *)
(* one monitor object, the work thread that serves the completion port,    *)
(* the thread that runs asynchronous operations, and the user's thread,    *)
(* which also destroys the object and the service.                         *)
(*                                                                         *)
(* A completion key is made for each handle and named like it.  The kernel *)
(* keeps a handle's changes until a read is pending, and completes a read  *)
(* with no bytes when the handle is closed or its changes overflow the     *)
(* buffer of the read.                                                     *)
(***************************************************************************)
EXTENDS Integers, Sequences, FiniteSets, SequencesExt

CONSTANTS
  WinDirs,       \* directory names
  MaxHandles,    \* bound: calls of add_directory
  MaxChanges,    \* bound: changes of a directory
  MaxOps,        \* bound: asynchronous operations
  BufChanges     \* changes that fit the buffer of a key

ASSUME HandlesAssumption == MaxHandles \in Nat

VARIABLES
  wimpl,   \* the object: refs (who holds it), run, events, dirs (name -> handle)
  wkeys,   \* key -> "none", "reading", "queued", "work", "deleted"
  wopen,   \* open handles
  wbuf,    \* changes the kernel holds for a handle, or a key's buffer
  wport,   \* the completion port
  wwork,   \* the work thread
  wasync,  \* queued operations and the operation the thread runs
  wsvc,    \* the service: run_ and what its destructor has done
  wlog     \* all changes pushed, and what the operations delivered
winVars == <<wimpl, wkeys, wopen, wbuf, wport, wwork, wasync, wsvc, wlog>>

WHandles == 1..MaxHandles
WNull == 0                       \* the null completion key
Unused == {h \in WHandles : wkeys[h] = "none" /\ h \notin wopen}
Free(i) == i.refs = {}           \* the object is destroyed with its last reference
\* Closing a handle completes its pending read with no bytes.
CloseHandles(hs) ==
  LET ended == {h \in hs : wkeys[h] = "reading"}
  IN  /\ wopen' = wopen \ hs
      /\ wport' = wport \o SetToSeq({[key |-> h, changes |-> <<>>] : h \in ended})
      /\ wkeys' = [h \in WHandles |-> IF h \in ended THEN "queued" ELSE wkeys[h]]
\* Giving up the reference of r; the last one destroys the object and with it
\* its handles.
Release(i, r) ==
  /\ wimpl' = [i EXCEPT !.refs = @ \ {r}]
  /\ IF i.refs = {r} THEN CloseHandles({i.dirs[d] : d \in DOMAIN i.dirs}) ELSE UNCHANGED <<wopen, wport, wkeys>>

-----------------------------------------------------------------------------
(* The object: dir_monitor_impl.                                           *)

pushback_event_Always(i, ev) == [i EXCEPT !.events = Append(@, ev)]
pushback_event(i, ev) == IF i.run THEN [i EXCEPT !.events = Append(@, ev)] ELSE i
CanPop(i) == ~i.run \/ i.events # <<>>
Popped(i) == IF i.events # <<>> THEN Head(i.events) ELSE <<>>       \* <<>>: aborted
popfront_event(i) == IF i.events # <<>> THEN [i EXCEPT !.events = Tail(@)] ELSE i

-----------------------------------------------------------------------------
(* Calls of the user's thread.                                             *)

UserHolds == "user" \in wimpl.refs
\* The name must be a directory and its handle open.  When the first read is
\* refused the key is deleted and the handle stays open; a name that is already
\* in the map keeps its handle and the new one is closed.
add_directory(d) ==
  /\ UserHolds /\ Unused # {}
  /\ LET h == CHOOSE x \in Unused : \A y \in Unused : x <= y
     IN  \/ /\ wkeys' = [wkeys EXCEPT ![h] = "deleted"]
            /\ wopen' = wopen \cup {h}
            /\ UNCHANGED <<wimpl, wport>>
         \/ /\ d \in DOMAIN wimpl.dirs
            /\ wkeys' = [wkeys EXCEPT ![h] = "queued"]
            /\ wport' = Append(wport, [key |-> h, changes |-> <<>>])
            /\ UNCHANGED <<wimpl, wopen>>
         \/ /\ d \notin DOMAIN wimpl.dirs
            /\ wkeys' = [wkeys EXCEPT ![h] = "reading"]
            /\ wopen' = wopen \cup {h}
            /\ wimpl' = [wimpl EXCEPT !.dirs = [x \in DOMAIN @ \cup {d} |-> IF x = d THEN h ELSE @[x]]]
            /\ UNCHANGED wport
  /\ UNCHANGED <<wbuf, wwork, wasync, wsvc, wlog>>

remove_directory(d) ==
  /\ UserHolds /\ d \in DOMAIN wimpl.dirs
  /\ CloseHandles({wimpl.dirs[d]})
  /\ wimpl' = [wimpl EXCEPT !.dirs = [x \in DOMAIN @ \ {d} |-> @[x]]]
  /\ UNCHANGED <<wbuf, wwork, wasync, wsvc, wlog>>

\* The synchronous call waits in the user's thread, so the object stays.
monitor ==
  /\ UserHolds /\ wimpl.events # <<>>
  /\ wimpl' = popfront_event(wimpl)
  /\ wlog' = [wlog EXCEPT !.got = Append(@, Popped(wimpl))]
  /\ UNCHANGED <<wkeys, wopen, wbuf, wport, wwork, wasync, wsvc>>

async_monitor ==
  /\ UserHolds /\ wasync.asked < MaxOps
  /\ wasync' = [wasync EXCEPT !.asked = @ + 1, !.queue = @ + 1]
  /\ UNCHANGED <<wimpl, wkeys, wopen, wbuf, wport, wwork, wsvc, wlog>>

destroy ==
  /\ UserHolds
  /\ Release([wimpl EXCEPT !.run = FALSE], "user")
  /\ UNCHANGED <<wbuf, wwork, wasync, wsvc, wlog>>

\* The service's destructor: stop and join the operations' thread, which
\* discards queued operations, then stop and join the work thread.
StopAsync ==
  /\ ~UserHolds /\ wsvc.stage = "up"
  /\ wsvc' = [wsvc EXCEPT !.stage = "join_async"]
  /\ wasync' = [wasync EXCEPT !.queue = 0]
  /\ UNCHANGED <<wimpl, wkeys, wopen, wbuf, wport, wwork, wlog>>
stop_work_thread ==
  /\ wsvc.stage = "join_async" /\ wasync.pc = "idle"
  /\ wsvc' = [stage |-> "join_work", run |-> FALSE]
  /\ wport' = Append(wport, [key |-> WNull, changes |-> <<>>])
  /\ UNCHANGED <<wimpl, wkeys, wopen, wbuf, wwork, wasync, wlog>>
Joined ==
  /\ wsvc.stage = "join_work" /\ wwork.pc = "ended"
  /\ wsvc' = [wsvc EXCEPT !.stage = "gone"]
  /\ UNCHANGED <<wimpl, wkeys, wopen, wbuf, wport, wwork, wasync, wlog>>

-----------------------------------------------------------------------------
(* monitor_operation, run by the operations' thread.                       *)

AsyncStart ==
  /\ wsvc.stage = "up" /\ wasync.pc = "idle" /\ wasync.queue > 0
  /\ wasync' = [wasync EXCEPT !.queue = @ - 1, !.pc = IF Free(wimpl) THEN "post" ELSE "pop"]
  /\ wimpl' = IF Free(wimpl) THEN wimpl ELSE [wimpl EXCEPT !.refs = @ \cup {"async"}]
  /\ UNCHANGED <<wkeys, wopen, wbuf, wport, wwork, wsvc, wlog>>
AsyncPop ==
  /\ wasync.pc = "pop" /\ CanPop(wimpl)
  /\ wasync' = [wasync EXCEPT !.pc = "post", !.ev = Popped(wimpl)]
  /\ wimpl' = popfront_event(wimpl)
  /\ UNCHANGED <<wkeys, wopen, wbuf, wport, wwork, wsvc, wlog>>
AsyncPost ==
  /\ wasync.pc = "post"
  /\ wasync' = [wasync EXCEPT !.pc = "idle", !.ev = <<>>]
  /\ wlog' = [wlog EXCEPT !.got = IF wasync.ev = <<>> THEN @ ELSE Append(@, wasync.ev)]
  /\ Release(wimpl, "async")
  /\ UNCHANGED <<wbuf, wwork, wsvc>>

-----------------------------------------------------------------------------
(* work_thread.                                                            *)

\* An empty completion deletes its key; the null key only wakes the thread.
WorkGet ==
  /\ wwork.pc = "loop" /\ wsvc.run /\ wport # <<>>
  /\ wport' = Tail(wport)
  /\ LET c == Head(wport)
         drop == c.key # WNull /\ (c.changes = <<>> \/ Free(wimpl))
     IN  /\ wkeys' = IF c.key = WNull THEN wkeys ELSE [wkeys EXCEPT ![c.key] = IF drop THEN "deleted" ELSE "work"]
         /\ wwork' = IF c.key = WNull \/ drop THEN wwork ELSE [pc |-> "push", key |-> c.key, changes |-> c.changes]
         /\ wimpl' = IF c.key = WNull \/ drop THEN wimpl ELSE [wimpl EXCEPT !.refs = @ \cup {"work"}]
  /\ UNCHANGED <<wopen, wbuf, wasync, wsvc, wlog>>
\* One entry of the buffer at a time, each under the object's mutex.
WorkPush ==
  /\ wwork.pc = "push"
  /\ wimpl' = pushback_event(wimpl, Head(wwork.changes))
  /\ wlog' = [wlog EXCEPT !.pushed = IF wimpl.run THEN Append(@, Head(wwork.changes)) ELSE @]
  /\ wwork' = [wwork EXCEPT !.changes = Tail(@), !.pc = IF Len(wwork.changes) = 1 THEN "rearm" ELSE "push"]
  /\ UNCHANGED <<wkeys, wopen, wbuf, wport, wasync, wsvc>>

WorkRearm_KeepsKey ==
  /\ wwork.pc = "rearm"
  /\ wkeys' = [wkeys EXCEPT ![wwork.key] = "reading"]
  /\ wwork' = [pc |-> IF wwork.key \in wopen THEN "release" ELSE "thrown", key |-> WNull, changes |-> <<>>]
  /\ UNCHANGED <<wimpl, wopen, wbuf, wport, wasync, wsvc, wlog>>

\* The next read fails when the handle was closed meanwhile: the key is
\* deleted and the exception ends the thread.
WorkRearm ==
  /\ wwork.pc = "rearm"
  /\ wkeys' = [wkeys EXCEPT ![wwork.key] = IF wwork.key \in wopen THEN "reading" ELSE "deleted"]
  /\ wwork' = [pc |-> IF wwork.key \in wopen THEN "release" ELSE "thrown", key |-> WNull, changes |-> <<>>]
  /\ UNCHANGED <<wimpl, wopen, wbuf, wport, wasync, wsvc, wlog>>
WorkRelease ==
  /\ wwork.pc = "release"
  /\ wwork' = [wwork EXCEPT !.pc = "loop"]
  /\ Release(wimpl, "work")
  /\ UNCHANGED <<wbuf, wasync, wsvc, wlog>>
WorkEnd ==
  /\ wwork.pc = "loop" /\ ~wsvc.run
  /\ wwork' = [wwork EXCEPT !.pc = "ended"]
  /\ UNCHANGED <<wimpl, wkeys, wopen, wbuf, wport, wasync, wsvc, wlog>>

-----------------------------------------------------------------------------
(* The kernel.                                                             *)

Change(h) ==
  /\ h \in wopen /\ wlog.changes < MaxChanges
  /\ wbuf' = [wbuf EXCEPT ![h] = Append(@, <<h, wlog.changes + 1>>)]
  /\ wlog' = [wlog EXCEPT !.changes = @ + 1]
  /\ UNCHANGED <<wimpl, wkeys, wopen, wport, wwork, wasync, wsvc>>
Complete(h) ==
  /\ h \in wopen /\ wkeys[h] = "reading" /\ wbuf[h] # <<>>
  /\ wkeys' = [wkeys EXCEPT ![h] = "queued"]
  /\ wport' = Append(wport, [key |-> h, changes |-> IF Len(wbuf[h]) <= BufChanges THEN wbuf[h] ELSE <<>>])
  /\ wlog' = [wlog EXCEPT !.overflowed = IF Len(wbuf[h]) <= BufChanges THEN @ ELSE @ \cup {h}]
  /\ wbuf' = [wbuf EXCEPT ![h] = <<>>]
  /\ UNCHANGED <<wimpl, wopen, wwork, wasync, wsvc>>

WinStart ==
  /\ wkeys = [h \in WHandles |-> "none"] /\ wopen = {} /\ wbuf = [h \in WHandles |-> <<>>] /\ wport = <<>>
  /\ wwork = [pc |-> "loop", key |-> WNull, changes |-> <<>>]
  /\ wasync = [asked |-> 0, queue |-> 0, pc |-> "idle", ev |-> <<>>]
  /\ wlog = [changes |-> 0, pushed |-> <<>>, got |-> <<>>, overflowed |-> {}]
WinIdle == wsvc = [stage |-> "gone", run |-> FALSE] /\ wimpl = [refs |-> {}, run |-> FALSE, events |-> <<>>, dirs |-> <<>>] /\ WinStart
WinInit == wsvc = [stage |-> "up", run |-> TRUE] /\ wimpl = [refs |-> {"user"}, run |-> TRUE, events |-> <<>>, dirs |-> <<>>] /\ WinStart
WinNext ==
  /\ wwork.pc # "thrown" /\ wsvc.stage # "gone"
  /\ \/ \E d \in WinDirs : add_directory(d) \/ remove_directory(d)
     \/ monitor \/ async_monitor \/ destroy \/ StopAsync \/ stop_work_thread \/ Joined
     \/ AsyncStart \/ AsyncPop \/ AsyncPost
     \/ WorkGet \/ WorkPush \/ WorkRearm \/ WorkRelease \/ WorkEnd
     \/ \E h \in WHandles : Change(h) \/ Complete(h)
WinSpec == WinInit /\ [][WinNext]_winVars

-----------------------------------------------------------------------------
\* A completion key is in one place: with a pending read, in the port, in the
\* work thread's hands, or deleted and then nowhere, so it is neither freed
\* twice nor used after it was freed.  The port never names a key whose read
\* is still pending.  A read is pending only on an open handle, and a watched
\* directory has a read pending or on its way unless its changes overflowed
\* the buffer, after which it is not watched any more although its handle is.
KeysAccounted ==
  LET ported(h) == {n \in DOMAIN wport : wport[n].key = h}
  IN  \A h \in WHandles :
        /\ Cardinality(ported(h)) = IF wkeys[h] = "queued" THEN 1 ELSE 0
        /\ wkeys[h] = "work" <=> wwork.key = h
        /\ wkeys[h] = "reading" => h \in wopen
        /\ wkeys[h] = "deleted" /\ (\E d \in DOMAIN wimpl.dirs : wimpl.dirs[d] = h) /\ ~Free(wimpl) /\ wwork.pc # "thrown"
             => h \in wlog.overflowed
\* What operations and calls delivered, what an operation holds and what the
\* object still holds are the changes pushed, once each and in order per
\* directory; and the object outlives everyone who holds it: the thread that
\* waits in popfront_event always ends when the object is destroyed.
WinEventsInOrder ==
  /\ LET held == IF wasync.ev = <<>> THEN <<>> ELSE <<wasync.ev>>
     IN  ToSet(wlog.got) \cup ToSet(held) \cup ToSet(wimpl.events) = ToSet(wlog.pushed)
         /\ Len(wlog.got) + Len(held) + Len(wimpl.events) = Len(wlog.pushed)
         /\ \E n \in 0..Len(wlog.pushed) : wimpl.events = SubSeq(wlog.pushed, n + 1, Len(wlog.pushed))
  /\ \A m, n \in DOMAIN wlog.pushed :
       m < n /\ wlog.pushed[m][1] = wlog.pushed[n][1] => wlog.pushed[m][2] < wlog.pushed[n][2]
  /\ wasync.pc = "pop" => "async" \in wimpl.refs
  /\ Free(wimpl) => ~wimpl.run /\ wopen \cap {wimpl.dirs[d] : d \in DOMAIN wimpl.dirs} = {}
=============================================================================
