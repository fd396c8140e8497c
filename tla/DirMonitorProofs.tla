-------------------------- MODULE DirMonitorProofs --------------------------
(***************************************************************************)
(* What holds of the directory monitor for any monitors, directories and   *)
(* numbers of changes, operations and watches: notifications keep their    *)
(* order and are delivered once, an event carries the name of the          *)
(* directory that is watched, and no thread sleeps on a deque that has an  *)
(* event or on a monitor that is gone.                                     *)
(***************************************************************************)
EXTENDS DirMonitor, SequenceTheorems, TLAPS

Notes == [id : Nat, wd : Nat, named : BOOLEAN, known : BOOLEAN]
Events == [note : Notes, dir : Dirs \cup {NoDir}]
Pairs == (1..MaxAdds) \X Dirs
Outcomes == {"queued", "event", "aborted", "dropped"}
Sleepers == {"user", "worker"}
UserType ==
  {Idle} \cup [at : {"add"}, m : Monitors, dir : Dirs, wd : 1..MaxAdds]
  \cup [at : {"monitor"}] \cup [at : {"join"}, m : Monitors] \cup [at : {"service"}]

KernelOK ==
  /\ watch \in [Monitors -> SUBSET Pairs] /\ names \in [Monitors -> SUBSET Pairs]
  /\ lastwd \in [Monitors -> 0..MaxAdds]
  /\ kq \in [Monitors -> Seq(Notes)] /\ made \in [Monitors -> Nat]
ThreadOK ==
  /\ pending \in [Monitors -> Seq(Notes)]
  /\ reader \in [Monitors -> {"idle", "parse", "exit"}]
  /\ stopped \in [Monitors -> BOOLEAN]
QueueOK ==
  /\ events \in [Monitors -> Seq(Events)] /\ run \in [Monitors -> BOOLEAN]
  /\ taken \in [Monitors -> Nat]
  /\ pop \in [Sleepers -> {Out} \cup [st : {"check", "wait"}, m : Monitors]]
OpsOK ==
  /\ done \in Seq(Outcomes) /\ Len(done) <= MaxOps
  /\ worker \in 0..Len(done) /\ (pop["worker"] # Out => worker # 0)
  /\ opq \in Seq([op : 1..Len(done), m : Monitors])
  /\ service \in {"up", "stopping", "down"}
Typed == KernelOK /\ ThreadOK /\ QueueOK /\ user \in UserType /\ OpsOK

\* Types: the watches, the names and the kernel's queues.
LEMMA KernelStep ==
  ASSUME Typed, [Next]_vars
  PROVE  KernelOK'
<1> USE DirMonitorAssumption DEF Typed, KernelOK
<1>1. CASE UNCHANGED <<kernel, names>>
  BY <1>1 DEF kernel
<1>2. ASSUME NEW m \in Monitors, NEW w \in Nat, NEW b \in BOOLEAN
      PROVE  Notification(m, w, b) \in Notes
  BY DEF Notification, Notes
<1>3. ASSUME NEW d \in Dirs, Change(d)
      PROVE  KernelOK'
  <2> DEFINE hit == {m \in Monitors : \E p \in watch[m] : p[2] = d}
             wd(m) == (CHOOSE p \in watch[m] : p[2] = d)[1]
  <2>1. ASSUME NEW m \in hit
        PROVE  Notification(m, wd(m), TRUE) \in Notes
    <3>1. wd(m) \in Nat
      BY DEF Pairs
    <3> QED
      BY <1>2, <3>1
  <2>2. kq' = [m \in Monitors |-> IF m \in hit THEN Append(kq[m], Notification(m, wd(m), TRUE))
                                  ELSE kq[m]]
    BY <1>3 DEF Change
  <2>3. made' \in [Monitors -> Nat]
    BY <1>3 DEF Change
  <2> HIDE DEF wd, hit
  <2>4. ASSUME NEW m \in Monitors
        PROVE  (IF m \in hit THEN Append(kq[m], Notification(m, wd(m), TRUE)) ELSE kq[m])
                 \in Seq(Notes)
    <3>1. kq[m] \in Seq(Notes)
      OBVIOUS
    <3>2. CASE m \in hit
      BY <2>1, <3>1, <3>2, AppendProperties
    <3> QED
      BY <3>1, <3>2
  <2>5. kq' \in [Monitors -> Seq(Notes)]
    BY <2>2, <2>4
  <2> QED
    BY <1>3, <2>3, <2>5 DEF Change
<1>4. ASSUME NEW m \in Monitors, NEW d \in Dirs, AddWatch(m, d)
      PROVE  KernelOK'
  <2>1. CASE UNCHANGED <<watch, lastwd>>
    BY <1>4, <2>1 DEF AddWatch
  <2>2. CASE ~UNCHANGED <<watch, lastwd>>
    <3>1. lastwd[m] + 1 \in 0..MaxAdds /\ <<lastwd[m] + 1, d>> \in Pairs
      BY <1>4 DEF AddWatch, Pairs
    <3>2. /\ lastwd' = [lastwd EXCEPT ![m] = @ + 1]
          /\ watch' = [watch EXCEPT ![m] = @ \cup {<<lastwd[m] + 1, d>>}]
      BY <1>4, <2>2 DEF AddWatch
    <3>3. lastwd' \in [Monitors -> 0..MaxAdds] /\ watch' \in [Monitors -> SUBSET Pairs]
      BY <3>1, <3>2
    <3> QED
      BY <1>4, <3>3 DEF AddWatch
  <2> QED
    BY <2>1, <2>2
<1>5. CASE AddName
  <2>1. user \in [at : {"add"}, m : Monitors, dir : Dirs, wd : 1..MaxAdds]
    BY <1>5 DEF AddName, UserType, Idle
  <2>2. <<user.wd, user.dir>> \in Pairs /\ user.m \in Monitors
    BY <2>1 DEF Pairs
  <2> QED
    BY <1>5, <2>2 DEF AddName, kernel
<1>6. ASSUME NEW m \in Monitors, NEW d \in Dirs, remove_directory(m, d)
      PROVE  KernelOK'
  <2>1. PICK p \in names[m] :
          /\ names' = [names EXCEPT ![m] = @ \ {p}]
          /\ watch' = [watch EXCEPT ![m] = @ \ {p}]
          /\ kq' = [kq EXCEPT ![m] = Append(@, Notification(m, p[1], FALSE))]
          /\ made' = [made EXCEPT ![m] = @ + 1]
    BY <1>6 DEF remove_directory
  <2>2. p[1] \in Nat
    BY DEF Pairs
  <2>3. Notification(m, p[1], FALSE) \in Notes
    BY <1>2, <2>2
  <2>4. /\ names' \in [Monitors -> SUBSET Pairs] /\ watch' \in [Monitors -> SUBSET Pairs]
        /\ made' \in [Monitors -> Nat]
    BY <2>1
  <2>5. Append(kq[m], Notification(m, p[1], FALSE)) \in Seq(Notes)
    <3>1. kq[m] \in Seq(Notes)
      OBVIOUS
    <3> QED
      BY <2>3, <3>1, AppendProperties
  <2>6. kq' \in [Monitors -> Seq(Notes)]
    BY <2>1, <2>5
  <2> QED
    BY <1>6, <2>4, <2>6 DEF remove_directory
<1>7. ASSUME NEW m \in Monitors, Read(m)
      PROVE  KernelOK'
  BY <1>7 DEF Read
<1> QED
  BY <1>1, <1>3, <1>4, <1>5, <1>6, <1>7 DEF Next, vars, ReaderStep, PopStep, UserContinues,
     UserCalls, ParseOne, BeginRead, ReaderExits, PopWait, PopTake, PopAbort, RunOperation,
     DestroyEnds, ServiceJoined, monitor, async_monitor, DestroyStops, ServiceStops

\* Types: the read buffers and the threads that fill them.
LEMMA ThreadStep ==
  ASSUME Typed, [Next]_vars
  PROVE  ThreadOK'
<1> USE DEF Typed, ThreadOK
<1>1. CASE UNCHANGED thread
  BY <1>1 DEF thread
<1>2. ASSUME NEW m \in Monitors, ReaderStep(m)
      PROVE  ThreadOK'
  <2>1. CASE Read(m)
    BY <2>1 DEF Read, KernelOK
  <2>2. CASE ParseOne(m)
    <3>1. pending[m] # << >>
      BY <2>2 DEF ParseOne, MoreThanHeader
    <3>2. Tail(pending[m]) \in Seq(Notes)
      BY <3>1
    <3> QED
      BY <2>2, <3>2 DEF ParseOne
  <2>3. CASE BeginRead(m) \/ ReaderExits(m)
    BY <2>3 DEF BeginRead, ReaderExits
  <2> QED
    BY <1>2, <2>1, <2>2, <2>3 DEF ReaderStep
<1>3. ASSUME NEW m \in Monitors, DestroyStops(m)
      PROVE  ThreadOK'
  BY <1>3 DEF DestroyStops
<1> QED
  BY <1>1, <1>2, <1>3 DEF Next, vars, PopStep, UserContinues, UserCalls, Change, AddWatch,
     AddName, remove_directory, PopWait, PopTake, PopAbort, RunOperation,
     DestroyEnds, ServiceJoined, monitor, async_monitor, ServiceStops

\* Types: what the user thread is in the middle of.
LEMMA UserStep ==
  ASSUME Typed, [Next]_vars
  PROVE  user' \in UserType
<1> USE DEF Typed, UserType, Idle
<1>1. CASE UNCHANGED user
  BY <1>1
<1>2. ASSUME NEW m \in Monitors, NEW d \in Dirs, AddWatch(m, d)
      PROVE  user' \in UserType
  BY <1>2, DirMonitorAssumption DEF AddWatch, KernelOK, Pairs
<1>3. CASE AddName \/ DestroyEnds \/ ServiceJoined \/ ServiceStops
  BY <1>3 DEF AddName, DestroyEnds, ServiceJoined, ServiceStops
<1>4. ASSUME NEW m \in Monitors, monitor(m) \/ DestroyStops(m)
      PROVE  user' \in UserType
  BY <1>4 DEF monitor, DestroyStops
<1>5. ASSUME NEW t, PopStep(t)
      PROVE  user' \in UserType
  BY <1>5 DEF PopStep, PopWait, PopTake, PopAbort, Leave
<1> QED
  BY <1>1, <1>2, <1>3, <1>4, <1>5 DEF Next, vars, UserContinues, UserCalls, Change, ReaderStep,
     Read, ParseOne, BeginRead, ReaderExits,
     remove_directory, RunOperation, async_monitor

\* Types: the deques and the threads inside popfront_event.
LEMMA QueueStep ==
  ASSUME Typed, [Next]_vars
  PROVE  QueueOK'
<1> USE DEF Typed, QueueOK
<1>0. /\ "user" \in Sleepers /\ "worker" \in Sleepers /\ DOMAIN pop = Sleepers
  BY DEF Sleepers
<1>1. CASE UNCHANGED queue
  BY <1>1 DEF queue
<1>2. ASSUME NEW m \in Monitors
      PROVE  Wake(m) => pop' \in [Sleepers -> {Out} \cup [st : {"check", "wait"}, m : Monitors]]
  <2>1. ASSUME NEW t \in Sleepers
        PROVE  (IF pop[t].st = "wait" /\ pop[t].m = m THEN [pop[t] EXCEPT !.st = "check"]
                ELSE pop[t]) \in {Out} \cup [st : {"check", "wait"}, m : Monitors]
    BY DEF Out
  <2> QED
    BY <1>0, <2>1 DEF Wake
<1>3. ASSUME NEW m \in Monitors, ParseOne(m)
      PROVE  QueueOK'
  <2> DEFINE n == Head(pending[m])
             ev == [note |-> n, dir |-> get_dirname(m, n.wd)]
  <2>1. pending[m] # << >> /\ pending[m] \in Seq(Notes)
    BY <1>3 DEF ParseOne, MoreThanHeader, ThreadOK
  <2>2. n \in Notes
    BY <2>1
  <2>3. get_dirname(m, n.wd) \in Dirs \cup {NoDir}
    <3>1. CASE \E p \in names[m] : p[1] = n.wd
      <4>1. PICK q \in names[m] : q = CHOOSE p \in names[m] : p[1] = n.wd
        BY <3>1
      <4>2. q[2] \in Dirs
        BY DEF KernelOK, Pairs
      <4> QED
        BY <3>1, <4>1, <4>2 DEF get_dirname
    <3> QED
      BY <3>1 DEF get_dirname
  <2>4. ev \in Events
    BY <2>2, <2>3 DEF Events
  <2>5. pushback_event(m, ev) /\ UNCHANGED <<run, taken>>
    BY <1>3 DEF ParseOne
  <2> HIDE DEF ev
  <2>6. events' \in [Monitors -> Seq(Events)]
    <3>1. events[m] \in Seq(Events)
      OBVIOUS
    <3>2. Append(events[m], ev) \in Seq(Events)
      BY <2>4, <3>1, AppendProperties
    <3> QED
      BY <2>5, <3>2 DEF pushback_event
  <2>7. pop' \in [Sleepers -> {Out} \cup [st : {"check", "wait"}, m : Monitors]]
    BY <1>2, <2>5 DEF pushback_event
  <2> QED
    BY <2>5, <2>6, <2>7
<1>4. ASSUME NEW t \in Sleepers, PopStep(t)
      PROVE  QueueOK'
  <2>1. CASE PopWait(t)
    <3>1. [pop[t] EXCEPT !.st = "wait"] \in [st : {"check", "wait"}, m : Monitors]
      BY <2>1 DEF PopWait, Out
    <3> QED
      BY <2>1, <3>1 DEF PopWait
  <2>2. CASE PopTake(t)
    <3> DEFINE m == pop[t].m
    <3>1. m \in Monitors /\ events[m] \in Seq(Events) /\ events[m] # << >>
      BY <2>2 DEF PopTake, Out
    <3>2. Tail(events[m]) \in Seq(Events) /\ Head(events[m]) \in Events
      BY <3>1
    <3>3. Head(events[m]).note.id \in Nat
      BY <3>2 DEF Events, Notes
    <3> QED
      BY <2>2, <3>1, <3>2, <3>3 DEF PopTake, Leave
  <2>3. CASE PopAbort(t)
    BY <2>3 DEF PopAbort, Leave
  <2> QED
    BY <1>4, <2>1, <2>2, <2>3 DEF PopStep
<1>5. ASSUME NEW m \in Monitors, monitor(m)
      PROVE  QueueOK'
  <2>1. [st |-> "check", m |-> m] \in [st : {"check", "wait"}, m : Monitors]
    OBVIOUS
  <2> QED
    BY <1>0, <1>5, <2>1 DEF monitor
<1>6. CASE RunOperation
  <2>1. Head(opq) \in [op : 1..Len(done), m : Monitors]
    BY <1>6, HeadTailProperties DEF RunOperation, OpsOK
  <2>2. [st |-> "check", m |-> Head(opq).m] \in [st : {"check", "wait"}, m : Monitors]
    BY <2>1
  <2> QED
    BY <1>0, <1>6, <2>2 DEF RunOperation
<1>7. CASE DestroyEnds
  <2>1. user.m \in Monitors
    BY <1>7 DEF DestroyEnds, UserType, Idle
  <2> QED
    BY <1>2, <1>7, <2>1 DEF DestroyEnds
<1> QED
  BY <1>0, <1>1, <1>3, <1>4, <1>5, <1>6, <1>7 DEF Next, vars, UserContinues, UserCalls, Change,
     ReaderStep, Read, BeginRead, ReaderExits, AddWatch, AddName, remove_directory,
     ServiceJoined, async_monitor, DestroyStops, ServiceStops

\* Types: an operation queued or running is one that was posted.
LEMMA OpsStep ==
  ASSUME Typed, [Next]_vars
  PROVE  OpsOK'
<1> USE DEF Typed, OpsOK, Outcomes
<1>0. /\ pop["user"] \in {Out} \cup [st : {"check", "wait"}, m : Monitors]
      /\ pop["worker"] \in {Out} \cup [st : {"check", "wait"}, m : Monitors]
      /\ DOMAIN pop = {"user", "worker"}
  BY DEF QueueOK, Sleepers
<1>1. CASE UNCHANGED ops /\ (pop'["worker"] # Out => pop["worker"] # Out)
  BY <1>1 DEF ops
<1>2. ASSUME NEW m, Wake(m)
      PROVE  pop'["worker"] # Out => pop["worker"] # Out
  BY <1>0, <1>2 DEF Wake, Out
<1>3. ASSUME NEW m \in Monitors, ParseOne(m)
      PROVE  OpsOK'
  <2>1. UNCHANGED ops /\ (Wake(m) \/ pop' = pop)
    BY <1>3 DEF ParseOne, pushback_event
  <2> QED
    BY <1>1, <1>2, <2>1
<1>4. CASE DestroyEnds
  <2>1. UNCHANGED ops /\ Wake(user.m)
    BY <1>4 DEF DestroyEnds
  <2> QED
    BY <1>1, <1>2, <2>1
<1>5. CASE PopStep("user") \/ PopWait("worker")
  <2>1. UNCHANGED ops
    BY <1>5 DEF PopStep, PopWait, PopTake, PopAbort, Leave
  <2>2. pop'["worker"] # Out => pop["worker"] # Out
    BY <1>0, <1>5 DEF PopStep, PopWait, PopTake, PopAbort, Leave, Out, QueueOK
  <2> QED
    BY <1>1, <2>1, <2>2
<1>6. CASE PopTake("worker") \/ PopAbort("worker")
  <2>1. pop["worker"] # Out
    BY <1>6 DEF PopTake, PopAbort, Out
  <2>2. worker \in 1..Len(done)
    BY <2>1
  <2>3. PICK o \in Outcomes : Leave("worker", o)
    BY <1>6 DEF PopTake, PopAbort
  <2>4. /\ done' = [done EXCEPT ![worker] = o] /\ worker' = 0
        /\ UNCHANGED <<opq, service>> /\ pop' = [pop EXCEPT !["worker"] = Out]
    BY <2>3 DEF Leave
  <2>5. done' \in Seq(Outcomes) /\ Len(done') = Len(done)
    BY <2>2, <2>4, ExceptSeq
  <2>6. pop'["worker"] = Out
    BY <1>0, <2>4
  <2> QED
    BY <2>4, <2>5, <2>6
<1>7. ASSUME NEW m \in Monitors, async_monitor(m)
      PROVE  OpsOK'
  <2>1. /\ done' = Append(done, "queued") /\ Len(done) < MaxOps
        /\ opq' = Append(opq, [op |-> Len(done) + 1, m |-> m])
        /\ UNCHANGED <<worker, service, pop>>
    BY <1>7 DEF async_monitor, queue
  <2>2. done' \in Seq(Outcomes) /\ Len(done') = Len(done) + 1
    BY <2>1
  <2>3. [op |-> Len(done) + 1, m |-> m] \in [op : 1..Len(done'), m : Monitors]
    BY <2>2
  <2>4. opq \in Seq([op : 1..Len(done'), m : Monitors])
    <3>1. [op : 1..Len(done), m : Monitors] \subseteq [op : 1..Len(done'), m : Monitors]
      BY <2>2
    <3> QED
      BY <3>1, SeqMonotonic
  <2>5. opq' \in Seq([op : 1..Len(done'), m : Monitors])
    BY <2>1, <2>3, <2>4
  <2> QED
    BY <2>1, <2>2, <2>5, DirMonitorAssumption
<1>8. CASE RunOperation
  <2>1. Head(opq) \in [op : 1..Len(done), m : Monitors]
        /\ Tail(opq) \in Seq([op : 1..Len(done), m : Monitors])
    BY <1>8, HeadTailProperties DEF RunOperation
  <2>2. worker' \in 1..Len(done) /\ opq' = Tail(opq) /\ UNCHANGED <<done, service>>
    BY <1>8, <2>1 DEF RunOperation
  <2> QED
    BY <2>1, <2>2
<1>9. CASE ServiceStops
  <2>1. /\ done' = [i \in DOMAIN done |->
                     IF \E k \in DOMAIN opq : opq[k].op = i THEN "dropped" ELSE done[i]]
        /\ opq' = << >> /\ service' = "stopping" /\ UNCHANGED <<worker, pop>>
    BY <1>9 DEF ServiceStops, queue
  <2>2. done' \in [1..Len(done) -> Outcomes]
    BY <2>1
  <2>3. done' \in Seq(Outcomes) /\ Len(done') = Len(done)
    <3>1. done' \in Seq(Outcomes)
      BY <2>2, SeqDef
    <3>2. Len(done') \in Nat /\ DOMAIN done' = 1..Len(done')
      BY <3>1, LenProperties
    <3>3. DOMAIN done' = 1..Len(done)
      BY <2>2
    <3> QED
      BY <3>1, <3>2, <3>3
  <2> QED
    BY <2>1, <2>3
<1>10. CASE ServiceJoined
  BY <1>10 DEF ServiceJoined, queue
<1>11. ASSUME NEW m \in Monitors, monitor(m)
       PROVE  OpsOK'
  <2>1. UNCHANGED ops /\ pop'["worker"] = pop["worker"]
    BY <1>0, <1>11 DEF monitor, QueueOK
  <2> QED
    BY <1>1, <2>1
<1>12. CASE UNCHANGED <<ops, pop>>
  BY <1>1, <1>12
<1> QED
  BY <1>3, <1>4, <1>5, <1>6, <1>7, <1>8, <1>9, <1>10, <1>11, <1>12 DEF Next, vars, queue,
     UserContinues, UserCalls, Change, ReaderStep, Read, BeginRead, ReaderExits, AddWatch,
     AddName, remove_directory, DestroyStops, PopStep

\* Every step keeps the types.
LEMMA TypedStep ==
  ASSUME Typed, [Next]_vars
  PROVE  Typed'
BY KernelStep, ThreadStep, QueueStep, UserStep, OpsStep DEF Typed

-----------------------------------------------------------------------------
(* Watches and names.                                                      *)

Watched ==
  /\ \A m \in Monitors :
       /\ names[m] \subseteq watch[m]
       /\ \A p, q \in watch[m] : p[1] = q[1] => p = q
       /\ \A p \in watch[m] : p[1] <= lastwd[m]
  /\ user.at = "add" => <<user.wd, user.dir>> \in watch[user.m]

\* Every step keeps watches and names paired, each descriptor handed out once.
LEMMA WatchedStep ==
  ASSUME Typed, Watched, [Next]_vars
  PROVE  Watched'
<1> USE DirMonitorAssumption DEF Watched, Typed, KernelOK
<1>1. CASE UNCHANGED <<watch, lastwd, names>> /\ (user'.at = "add" => user' = user)
  BY <1>1
<1>2. ASSUME NEW m \in Monitors, NEW d \in Dirs, AddWatch(m, d)
      PROVE  Watched'
  <2>1. CASE \E p \in watch[m] : p[2] = d
    <3>1. PICK p \in watch[m] : p = CHOOSE x \in watch[m] : x[2] = d
      BY <2>1
    <3>2. p[2] = d /\ p \in Pairs
      BY <2>1, <3>1
    <3>3. p = <<p[1], d>>
      BY <3>2 DEF Pairs
    <3>4. user' = [at |-> "add", m |-> m, dir |-> d, wd |-> p[1]]
          /\ UNCHANGED <<watch, lastwd, names>>
      BY <1>2, <2>1, <3>1 DEF AddWatch
    <3> QED
      BY <3>3, <3>4
  <2>2. CASE ~\E p \in watch[m] : p[2] = d
    <3> DEFINE w == lastwd[m] + 1
    <3>1. /\ lastwd' = [lastwd EXCEPT ![m] = w]
          /\ watch' = [watch EXCEPT ![m] = @ \cup {<<w, d>>}]
          /\ user' = [at |-> "add", m |-> m, dir |-> d, wd |-> w]
          /\ names' = names
      BY <1>2, <2>2 DEF AddWatch
    <3>2. w \in Nat /\ \A p \in watch[m] : p[1] \in Nat /\ p[1] < w
      BY DEF Pairs
    <3> HIDE DEF w
    <3>3. \A k \in Monitors : IF k = m THEN watch'[k] = watch[m] \cup {<<w, d>>} /\ lastwd'[k] = w
                                       ELSE watch'[k] = watch[k] /\ lastwd'[k] = lastwd[k]
      BY <3>1
    <3>4. ASSUME NEW p \in watch'[m], NEW q \in watch'[m], p[1] = q[1]
          PROVE  p = q
      <4>1. watch'[m] = watch[m] \cup {<<w, d>>} /\ <<w, d>>[1] = w
        BY <3>3
      <4>2. \A r \in watch[m] : r[1] # w
        BY <3>2
      <4> QED
        BY <3>4, <4>1, <4>2
    <3>5. ASSUME NEW p \in watch'[m]
          PROVE  p[1] <= lastwd'[m]
      <4>1. lastwd'[m] = w /\ watch'[m] = watch[m] \cup {<<w, d>>}
        BY <3>3
      <4>2. CASE p \in watch[m]
        BY <3>2, <4>1, <4>2
      <4>3. CASE p = <<w, d>>
        BY <3>2, <4>1, <4>3
      <4> QED
        BY <4>1, <4>2, <4>3
    <3>6. \A k \in Monitors : k # m => /\ watch'[k] = watch[k] /\ lastwd'[k] = lastwd[k]
                                      /\ names'[k] = names[k]
      BY <3>1, <3>3
    <3>7. names'[m] \subseteq watch'[m]
      BY <3>1, <3>3
    <3>8. user'.at = "add" => <<user'.wd, user'.dir>> \in watch'[user'.m]
      BY <3>1, <3>3
    <3> QED
      BY <3>4, <3>5, <3>6, <3>7, <3>8
  <2> QED
    BY <2>1, <2>2
<1>3. CASE AddName
  <2>1. user \in [at : {"add"}, m : Monitors, dir : Dirs, wd : 1..MaxAdds]
    BY <1>3 DEF AddName, UserType, Idle
  <2>2. <<user.wd, user.dir>> \in watch[user.m] /\ user.m \in Monitors
    BY <2>1
  <2>3. \A m \in Monitors : names'[m] \subseteq watch[m]
    BY <1>3, <2>2 DEF AddName
  <2> QED
    BY <1>3, <2>3 DEF AddName, kernel, Idle
<1>4. ASSUME NEW m \in Monitors, NEW d \in Dirs, remove_directory(m, d)
      PROVE  Watched'
  <2>1. PICK p \in names[m] :
          /\ names' = [names EXCEPT ![m] = @ \ {p}]
          /\ watch' = [watch EXCEPT ![m] = @ \ {p}]
    BY <1>4 DEF remove_directory
  <2>2. lastwd' = lastwd /\ user' = user /\ user.at # "add"
    BY <1>4 DEF remove_directory, Idle
  <2>3. \A k \in Monitors : names'[k] \subseteq watch'[k] /\ watch'[k] \subseteq watch[k]
    BY <2>1
  <2> QED
    BY <2>2, <2>3
<1>5. ASSUME NEW t, PopStep(t)
      PROVE  Watched'
  <2>1. UNCHANGED kernel /\ UNCHANGED names /\ (user' = user \/ user' = Idle)
    BY <1>5 DEF PopStep, PopWait, PopTake, PopAbort, Leave
  <2> QED
    BY <1>1, <2>1 DEF kernel, Idle
<1>6. ASSUME NEW m \in Monitors, monitor(m) \/ DestroyStops(m)
      PROVE  Watched'
  BY <1>1, <1>6 DEF monitor, DestroyStops, kernel
<1>7. CASE DestroyEnds \/ ServiceStops \/ ServiceJoined
  BY <1>1, <1>7 DEF DestroyEnds, ServiceStops, ServiceJoined, kernel, Idle
<1>8. CASE UNCHANGED <<watch, lastwd, names, user>>
  BY <1>1, <1>8
<1> QED
  BY <1>2, <1>3, <1>4, <1>5, <1>6, <1>7, <1>8 DEF Next, vars, kernel, UserContinues, UserCalls,
     Change, ReaderStep, Read, ParseOne, BeginRead, ReaderExits, RunOperation, async_monitor

-----------------------------------------------------------------------------
(* The way of a notification: from the kernel into the read buffer, into   *)
(* the deque, and out of it.                                               *)

\* A notification not yet parsed: if add_directory had entered its watch when it
\* was made, it will find the name there, unless the watch is gone.
Fits(m, n) ==
  n.wd <= lastwd[m] /\ (n.known => \A p \in watch[m] : p[1] = n.wd => p \in names[m])
Named(m, ev) ==
  /\ ev.note.wd <= lastwd[m]
  /\ ev.note.known => \A p \in watch[m] : p[1] = ev.note.wd => ev.dir = p[2]

Waits(m) == UNCHANGED <<kq[m], pending[m], events[m], made[m], taken[m]>>
Comes(m) ==
  /\ \E n \in Notes : /\ kq'[m] = Append(kq[m], n) /\ n.id = made[m] + 1
                      /\ Fits(m, n)'
  /\ made'[m] = made[m] + 1
  /\ UNCHANGED <<pending[m], events[m], taken[m]>>
IsRead(m) ==
  /\ pending'[m] = pending[m] \o kq[m] /\ kq'[m] = << >>
  /\ UNCHANGED <<events[m], made[m], taken[m]>>
IsParsed(m) ==
  /\ pending[m] # << >> /\ pending'[m] = Tail(pending[m])
  /\ LET n == Head(pending[m])
     IN  \/ events'[m] = Append(events[m], [note |-> n, dir |-> get_dirname(m, n.wd)])
         \/ ~run[m] /\ events'[m] = events[m]
  /\ UNCHANGED <<kq[m], made[m], taken[m], watch[m], names[m], lastwd[m]>>
IsTaken(m) ==
  /\ events[m] # << >> /\ events'[m] = Tail(events[m])
  /\ taken'[m] = Head(events[m]).note.id
  /\ UNCHANGED <<kq[m], pending[m], made[m]>>

\* Every step moves the notifications of a monitor on in one of these ways.
LEMMA Flow ==
  ASSUME Typed, Watched, [Next]_vars, NEW m \in Monitors
  PROVE  Waits(m) \/ Comes(m) \/ IsRead(m) \/ IsParsed(m) \/ IsTaken(m)
<1> USE DirMonitorAssumption DEF Typed, KernelOK, ThreadOK, QueueOK
<1>1. CASE UNCHANGED <<kq, pending, events, made, taken>>
  BY <1>1 DEF Waits
<1>2. ASSUME NEW d \in Dirs, Change(d)
      PROVE  Waits(m) \/ Comes(m)
  <2>1. CASE ~\E p \in watch[m] : p[2] = d
    <3>1. kq'[m] = kq[m] /\ made'[m] = made[m]
      BY <1>2, <2>1 DEF Change
    <3> QED
      BY <1>2, <3>1 DEF Change, Waits, thread, queue
  <2>2. CASE \E p \in watch[m] : p[2] = d
    <3>1. PICK p \in watch[m] : p = CHOOSE x \in watch[m] : x[2] = d
      BY <2>2
    <3>2. kq'[m] = Append(kq[m], Notification(m, p[1], TRUE)) /\ made'[m] = made[m] + 1
      BY <1>2, <2>2, <3>1 DEF Change
    <3>3. p[1] \in Nat /\ p[1] <= lastwd[m]
      BY DEF Watched, Pairs
    <3>4. PICK n \in Notes : /\ n = Notification(m, p[1], TRUE)
                             /\ n.id = made[m] + 1 /\ n.wd = p[1]
                             /\ n.known <=> \E q \in names[m] : q[1] = p[1]
      <4> DEFINE k == Notification(m, p[1], TRUE)
      <4>1. k \in Notes
        BY <3>3 DEF Notification, Notes
      <4>2. k.id = made[m] + 1 /\ k.wd = p[1] /\ (k.known <=> \E q \in names[m] : q[1] = p[1])
        BY DEF Notification
      <4> HIDE DEF k
      <4> QED
        BY <4>1, <4>2 DEF k
    <3>5. n.known => \A q \in watch[m] : q[1] = n.wd => q \in names[m]
      BY <3>4 DEF Watched
    <3>6. Fits(m, n)'
      BY <1>2, <3>3, <3>4, <3>5 DEF Change, Fits
    <3> QED
      BY <1>2, <3>2, <3>4, <3>6 DEF Change, Comes, thread, queue
  <2> QED
    BY <2>1, <2>2
<1>3. ASSUME NEW k \in Monitors, NEW d \in Dirs, remove_directory(k, d)
      PROVE  Waits(m) \/ Comes(m)
  <2>1. PICK p \in names[k] :
          /\ names' = [names EXCEPT ![k] = @ \ {p}]
          /\ watch' = [watch EXCEPT ![k] = @ \ {p}]
          /\ kq' = [kq EXCEPT ![k] = Append(@, Notification(k, p[1], FALSE))]
          /\ made' = [made EXCEPT ![k] = @ + 1]
          /\ lastwd' = lastwd
    BY <1>3 DEF remove_directory
  <2>2. UNCHANGED <<pending, events, taken>>
    BY <1>3 DEF remove_directory, thread, queue
  <2>3. CASE k # m
    BY <2>1, <2>2, <2>3 DEF Waits
  <2>4. CASE k = m
    <3>1. p \in watch[m] /\ p[1] \in Nat /\ p[1] <= lastwd[m]
      BY <2>4 DEF Watched, Pairs
    <3>2. PICK n \in Notes : /\ n = Notification(m, p[1], FALSE)
                             /\ n.id = made[m] + 1 /\ n.wd = p[1]
      <4> DEFINE note == Notification(m, p[1], FALSE)
      <4>1. note \in Notes
        BY <3>1 DEF Notification, Notes
      <4>2. note.id = made[m] + 1 /\ note.wd = p[1] /\ (note.known <=> \E q \in names[m] : q[1] = p[1])
        BY DEF Notification
      <4> HIDE DEF note
      <4> QED
        BY <4>1, <4>2 DEF note
    <3>3. kq'[m] = Append(kq[m], n) /\ made'[m] = made[m] + 1
      BY <2>1, <2>4, <3>2
    <3>4. \A q \in watch'[m] : q \in watch[m] /\ q # p
      BY <2>1, <2>4
    <3>5. \A q \in watch'[m] : q[1] # n.wd
      BY <3>1, <3>2, <3>4 DEF Watched
    <3>6. Fits(m, n)'
      BY <2>1, <3>1, <3>2, <3>5 DEF Fits
    <3> QED
      BY <2>2, <3>2, <3>3, <3>6 DEF Comes
  <2> QED
    BY <2>3, <2>4
<1>4. ASSUME NEW k \in Monitors, Read(k)
      PROVE  Waits(m) \/ IsRead(m)
  BY <1>4 DEF Read, Waits, IsRead, queue
<1>5. ASSUME NEW k \in Monitors, ParseOne(k)
      PROVE  Waits(m) \/ IsParsed(m)
  <2>1. CASE k # m
    BY <1>5, <2>1 DEF ParseOne, pushback_event, kernel, Waits
  <2>2. CASE k = m
    <3>1. pending[m] # << >> /\ pending'[m] = Tail(pending[m])
      BY <1>5, <2>2 DEF ParseOne, MoreThanHeader
    <3>2. LET n == Head(pending[m])
          IN  \/ events'[m] = Append(events[m], [note |-> n, dir |-> get_dirname(m, n.wd)])
              \/ ~run[m] /\ events'[m] = events[m]
      BY <1>5, <2>2 DEF ParseOne, pushback_event
    <3> QED
      BY <1>5, <2>2, <3>1, <3>2 DEF ParseOne, kernel, IsParsed
  <2> QED
    BY <2>1, <2>2
<1>6. ASSUME NEW t \in Sleepers, PopStep(t)
      PROVE  Waits(m) \/ IsTaken(m)
  <2>1. CASE PopTake(t)
    <3>1. pop[t].m \in Monitors
      BY <2>1 DEF PopTake, Out
    <3>2. CASE pop[t].m = m
      BY <2>1, <3>1, <3>2 DEF PopTake, IsTaken, kernel, thread
    <3>3. CASE pop[t].m # m
      BY <2>1, <3>1, <3>3 DEF PopTake, Waits, kernel, thread
    <3> QED
      BY <3>2, <3>3
  <2>2. CASE PopWait(t) \/ PopAbort(t)
    BY <2>2 DEF PopWait, PopAbort, Waits, kernel, thread
  <2> QED
    BY <1>6, <2>1, <2>2 DEF PopStep
<1>7. "user" \in Sleepers /\ "worker" \in Sleepers
  BY DEF Sleepers
<1> QED
  BY <1>1, <1>2, <1>3, <1>4, <1>5, <1>6, <1>7 DEF Next, vars, kernel, thread, queue,
     UserContinues, UserCalls, ReaderStep, BeginRead, ReaderExits, AddWatch, AddName,
     RunOperation, DestroyEnds, ServiceJoined, monitor, async_monitor, DestroyStops, ServiceStops

-----------------------------------------------------------------------------
(* Order: notifications are numbered as made, from the next to be taken.   *)

InOrder(m) ==
  /\ made[m] = taken[m] + Len(events[m]) + Len(pending[m]) + Len(kq[m])
  /\ \A i \in 1..Len(events[m]) : events[m][i].note.id = taken[m] + i
  /\ \A i \in 1..Len(pending[m]) : pending[m][i].id = taken[m] + Len(events[m]) + i
  /\ \A i \in 1..Len(kq[m]) : kq[m][i].id = taken[m] + Len(events[m]) + Len(pending[m]) + i
Ordered == \A m \in Monitors : Live(m) => InOrder(m)

\* A monitor that is not live never is again.
LEMMA LiveBefore ==
  ASSUME Typed, [Next]_vars, NEW m \in Monitors, Live(m)'
  PROVE  Live(m)
<1> USE DEF Typed, ThreadOK, QueueOK, Live
<1>1. CASE UNCHANGED <<stopped, run>>
  BY <1>1
<1>2. ASSUME NEW k \in Monitors, DestroyStops(k)
      PROVE  Live(m)
  BY <1>2 DEF DestroyStops, queue
<1>3. CASE DestroyEnds
  BY <1>3 DEF DestroyEnds, thread
<1> QED
  BY <1>1, <1>2, <1>3 DEF Next, vars, thread, queue, UserContinues, UserCalls, Change,
     ReaderStep, Read, ParseOne, BeginRead, ReaderExits, AddWatch, AddName, remove_directory,
     PopStep, PopWait, PopTake, PopAbort, RunOperation, ServiceJoined, monitor, async_monitor,
     ServiceStops

\* Every step keeps a live monitor's notifications numbered without gap or swap.
LEMMA OrderedStep ==
  ASSUME Typed, Watched, Ordered, [Next]_vars
  PROVE  Ordered'
<1> SUFFICES ASSUME NEW m \in Monitors, Live(m)'
             PROVE  InOrder(m)'
  BY DEF Ordered
<1>0. /\ kq[m] \in Seq(Notes) /\ pending[m] \in Seq(Notes) /\ events[m] \in Seq(Events)
      /\ made[m] \in Nat /\ taken[m] \in Nat /\ run[m]
  BY LiveBefore DEF Typed, KernelOK, ThreadOK, QueueOK, Live
<1>1. InOrder(m)
  BY LiveBefore DEF Ordered
<1>2. CASE Waits(m)
  BY <1>1, <1>2 DEF Waits, InOrder
<1> DEFINE a == Len(events[m])
           b == Len(pending[m])
           c == Len(kq[m])
           t == taken[m]
<1>3. /\ a \in Nat /\ b \in Nat /\ c \in Nat /\ t \in Nat /\ made[m] = t + a + b + c
      /\ \A i \in 1..a : events[m][i].note.id = t + i
      /\ \A i \in 1..b : pending[m][i].id = t + a + i
      /\ \A i \in 1..c : kq[m][i].id = t + a + b + i
  <2>1. a \in Nat /\ b \in Nat /\ c \in Nat /\ t \in Nat
    BY <1>0
  <2> QED
    BY <2>1, <1>1 DEF InOrder
<1>4. CASE Comes(m)
  <2>1. PICK n \in Notes : kq'[m] = Append(kq[m], n) /\ n.id = made[m] + 1
    BY <1>4 DEF Comes
  <2>2. /\ Len(kq'[m]) = c + 1 /\ kq'[m][c + 1] = n
        /\ \A i \in 1..c : kq'[m][i] = kq[m][i]
    BY <1>0, <2>1, AppendProperties
  <2>3. /\ made'[m] = made[m] + 1
        /\ UNCHANGED <<pending[m], events[m], taken[m]>>
    BY <1>4 DEF Comes
  <2> HIDE DEF a, b, c, t
  <2>4. ASSUME NEW i \in 1..(c + 1)
        PROVE  kq'[m][i].id = t + a + b + i
    <3>1. n.id = t + a + b + (c + 1)
      BY <1>3, <2>1
    <3>2. CASE i = c + 1
      BY <2>2, <3>1, <3>2
    <3>3. CASE i # c + 1
      <4>1. i \in 1..c
        BY <1>3, <3>3
      <4> QED
        BY <1>3, <2>2, <4>1
    <3> QED
      BY <3>2, <3>3
  <2>5. made'[m] = t + a + b + (c + 1)
    BY <1>3, <2>3
  <2> QED
    BY <1>3, <2>2, <2>3, <2>4, <2>5 DEF InOrder, a, b, c, t
<1>5. CASE IsRead(m)
  <2> DEFINE q == pending[m] \o kq[m]
  <2>1. /\ Len(q) = b + c
        /\ \A i \in 1..(b + c) : q[i] = IF i <= b THEN pending[m][i] ELSE kq[m][i - b]
    BY <1>0, ConcatProperties
  <2>2. /\ pending'[m] = q /\ kq'[m] = << >> /\ Len(<< >>) = 0
        /\ UNCHANGED <<events[m], made[m], taken[m]>>
    BY <1>5 DEF IsRead
  <2> HIDE DEF a, b, c, t, q
  <2>3. ASSUME NEW i \in 1..(b + c)
        PROVE  q[i].id = t + a + i
    <3>1. CASE i <= b
      BY <1>3, <2>1, <3>1
    <3>2. CASE ~(i <= b)
      <4>1. i - b \in 1..c /\ t + a + b + (i - b) = t + a + i
        BY <1>3, <3>2
      <4>2. kq[m][i - b].id = t + a + b + (i - b)
        BY <1>3, <4>1
      <4> QED
        BY <2>1, <3>2, <4>1, <4>2
    <3> QED
      BY <3>1, <3>2
  <2>4. made[m] = t + a + (b + c) + 0
    BY <1>3
  <2> QED
    BY <1>3, <2>1, <2>2, <2>3, <2>4 DEF InOrder, a, t
<1>6. CASE IsParsed(m)
  <2> DEFINE n == Head(pending[m])
             ev == [note |-> n, dir |-> get_dirname(m, n.wd)]
  <2>1. /\ pending[m] # << >> /\ n = pending[m][1] /\ Len(pending'[m]) = b - 1
        /\ \A i \in 1..Len(pending'[m]) : pending'[m][i] = pending[m][i + 1]
    BY <1>0, <1>6, HeadTailProperties DEF IsParsed
  <2>2. events'[m] = Append(events[m], ev)
    BY <1>0, <1>6 DEF IsParsed
  <2>3. ev.note = n
    OBVIOUS
  <2> HIDE DEF n, ev
  <2>4. /\ Len(events'[m]) = a + 1 /\ events'[m][a + 1] = ev
        /\ \A i \in 1..a : events'[m][i] = events[m][i]
    BY <1>0, <2>2
  <2>5. UNCHANGED <<kq[m], made[m], taken[m]>>
    BY <1>6 DEF IsParsed
  <2>6. b \in Nat \ {0}
    BY <1>0, <2>1
  <2> HIDE DEF a, b, c, t
  <2>7. n.id = t + (a + 1)
    <3>1. 1 \in 1..b
      BY <1>3, <2>6
    <3> QED
      BY <1>3, <2>1, <3>1
  <2>8. ASSUME NEW i \in 1..(a + 1)
        PROVE  events'[m][i].note.id = t + i
    <3>1. CASE i = a + 1
      BY <2>3, <2>4, <2>7, <3>1
    <3>2. CASE i # a + 1
      <4>1. i \in 1..a
        BY <1>3, <3>2
      <4> QED
        BY <1>3, <2>4, <4>1
    <3> QED
      BY <3>1, <3>2
  <2>9. ASSUME NEW i \in 1..(b - 1)
        PROVE  pending'[m][i].id = t + (a + 1) + i
    <3>1. i + 1 \in 1..b /\ t + a + (i + 1) = t + (a + 1) + i
      BY <1>3, <2>6
    <3>2. pending'[m][i] = pending[m][i + 1]
      BY <2>1
    <3> QED
      BY <1>3, <3>1, <3>2
  <2>10. \A i \in 1..c : kq'[m][i].id = t + (a + 1) + (b - 1) + i
    BY <1>3, <2>5
  <2>11. made'[m] = t + (a + 1) + (b - 1) + c
    BY <1>3, <2>5
  <2> QED
    BY <2>1, <2>4, <2>5, <2>8, <2>9, <2>10, <2>11 DEF InOrder, c, t
<1>7. CASE IsTaken(m)
  <2>1. /\ events[m] # << >> /\ Len(events'[m]) = a - 1
        /\ \A i \in 1..Len(events'[m]) : events'[m][i] = events[m][i + 1]
        /\ Head(events[m]) = events[m][1]
    BY <1>0, <1>7, HeadTailProperties DEF IsTaken
  <2>2. a \in Nat \ {0}
    BY <1>0, <2>1
  <2>3. taken'[m] = Head(events[m]).note.id /\ UNCHANGED <<kq[m], pending[m], made[m]>>
    BY <1>7 DEF IsTaken
  <2> HIDE DEF a, b, c, t
  <2>4. taken'[m] = t + 1
    <3>1. 1 \in 1..a
      BY <1>3, <2>2
    <3> QED
      BY <1>3, <2>1, <2>3, <3>1
  <2>5. ASSUME NEW i \in 1..(a - 1)
        PROVE  events'[m][i].note.id = (t + 1) + i
    <3>1. i + 1 \in 1..a /\ t + (i + 1) = (t + 1) + i
      BY <1>3, <2>2
    <3>2. events'[m][i] = events[m][i + 1]
      BY <2>1
    <3> QED
      BY <1>3, <3>1, <3>2
  <2>6. /\ \A i \in 1..b : pending'[m][i].id = (t + 1) + (a - 1) + i
        /\ \A i \in 1..c : kq'[m][i].id = (t + 1) + (a - 1) + b + i
        /\ made'[m] = (t + 1) + (a - 1) + b + c
    BY <1>3, <2>3
  <2> QED
    BY <2>1, <2>3, <2>4, <2>5, <2>6 DEF InOrder, b, c
<1> QED
  BY <1>2, <1>4, <1>5, <1>6, <1>7, Flow

-----------------------------------------------------------------------------
(* Names: notifications and events keep to their watch.                    *)

FitNotes(m) == {n \in Notes : Fits(m, n)}
NamedEvents(m) == {ev \in Events : Named(m, ev)}
NamesKept ==
  \A m \in Monitors :
    /\ kq[m] \in Seq(FitNotes(m)) /\ pending[m] \in Seq(FitNotes(m))
    /\ events[m] \in Seq(NamedEvents(m))

\* What fits, or is named right, does so after any step: new watches get new
\* descriptors, and a name goes together with its watch.
LEMMA FitsKept ==
  ASSUME Typed, Watched, [Next]_vars, NEW m \in Monitors
  PROVE  FitNotes(m) \subseteq FitNotes(m)' /\ NamedEvents(m) \subseteq NamedEvents(m)'
<1> USE DirMonitorAssumption DEF Typed, KernelOK, FitNotes, NamedEvents
<1>1. CASE UNCHANGED <<watch, lastwd>> /\ names[m] \subseteq names'[m]
  BY <1>1 DEF Fits, Named
<1>2. ASSUME NEW k \in Monitors, NEW d \in Dirs, AddWatch(k, d)
      PROVE  /\ lastwd'[m] \in Nat /\ lastwd[m] <= lastwd'[m] /\ names'[m] = names[m]
             /\ \A p \in watch'[m] : p \in watch[m] \/ p[1] > lastwd[m]
  <2>0. lastwd[m] \in Nat
    OBVIOUS
  <2>1. CASE UNCHANGED <<watch, lastwd>>
    BY <1>2, <2>0, <2>1 DEF AddWatch
  <2>2. CASE /\ lastwd' = [lastwd EXCEPT ![k] = @ + 1]
             /\ watch' = [watch EXCEPT ![k] = @ \cup {<<lastwd[k] + 1, d>>}]
    <3>1. CASE k = m
      <4>1. lastwd'[m] = lastwd[m] + 1 /\ watch'[m] = watch[m] \cup {<<lastwd[m] + 1, d>>}
        BY <2>2, <3>1
      <4> QED
        BY <1>2, <2>0, <4>1 DEF AddWatch
    <3>2. CASE k # m
      BY <1>2, <2>0, <2>2, <3>2 DEF AddWatch
    <3> QED
      BY <3>1, <3>2
  <2> QED
    BY <1>2, <2>1, <2>2 DEF AddWatch
<1>3. ASSUME NEW k \in Monitors, NEW d \in Dirs, remove_directory(k, d)
      PROVE  /\ lastwd'[m] \in Nat /\ lastwd[m] <= lastwd'[m]
             /\ \A p \in watch'[m] : p \in watch[m] /\ (p \in names[m] => p \in names'[m])
  BY <1>3 DEF remove_directory
<1>4. CASE /\ lastwd'[m] \in Nat /\ lastwd[m] <= lastwd'[m]
           /\ \A p \in watch'[m] : \/ p[1] > lastwd[m]
                                   \/ p \in watch[m] /\ (p \in names[m] => p \in names'[m])
  <2>1. \A p \in watch'[m] : p[1] \in Nat
    BY KernelStep DEF Pairs
  <2>2. ASSUME NEW n \in Notes, Fits(m, n)
        PROVE  Fits(m, n)'
    <3>1. n.wd \in Nat /\ lastwd[m] \in Nat
      BY DEF Notes
    <3> QED
      BY <1>4, <2>1, <2>2, <3>1 DEF Fits
  <2>3. ASSUME NEW ev \in Events, Named(m, ev)
        PROVE  Named(m, ev)'
    <3>1. ev.note.wd \in Nat /\ lastwd[m] \in Nat
      BY DEF Events, Notes
    <3> QED
      BY <1>4, <2>1, <2>3, <3>1 DEF Named
  <2> QED
    BY <2>2, <2>3
<1>5. CASE AddName
  <2>1. UNCHANGED <<watch, lastwd>> /\ names[m] \subseteq names'[m]
    BY <1>5 DEF AddName, kernel
  <2> QED
    BY <1>1, <2>1
<1> QED
  BY <1>1, <1>2, <1>3, <1>4, <1>5 DEF Next, vars, kernel, UserContinues, UserCalls,
     Change, ReaderStep, Read, ParseOne, BeginRead, ReaderExits, RunOperation, async_monitor,
     PopStep, PopWait, PopTake, PopAbort, monitor, DestroyStops, DestroyEnds, ServiceStops,
     ServiceJoined

\* Every step keeps notes and events true to the directory still watched.
LEMMA NamesStep ==
  ASSUME Typed, Watched, NamesKept, [Next]_vars
  PROVE  NamesKept'
<1> SUFFICES ASSUME NEW m \in Monitors
             PROVE  /\ kq'[m] \in Seq(FitNotes(m)') /\ pending'[m] \in Seq(FitNotes(m)')
                    /\ events'[m] \in Seq(NamedEvents(m)')
  BY DEF NamesKept
<1>1. /\ kq[m] \in Seq(FitNotes(m)') /\ pending[m] \in Seq(FitNotes(m)')
      /\ events[m] \in Seq(NamedEvents(m)')
  BY FitsKept, SeqMonotonic DEF NamesKept
<1>2. CASE Waits(m)
  BY <1>1, <1>2 DEF Waits
<1>3. CASE Comes(m)
  <2>1. PICK n \in Notes : kq'[m] = Append(kq[m], n) /\ Fits(m, n)'
    BY <1>3 DEF Comes
  <2>2. n \in FitNotes(m)'
    BY <2>1 DEF FitNotes
  <2>3. kq'[m] \in Seq(FitNotes(m)')
    BY <1>1, <2>1, <2>2, AppendProperties
  <2> QED
    BY <1>1, <1>3, <2>3 DEF Comes
<1>4. CASE IsRead(m)
  <2>1. pending[m] \o kq[m] \in Seq(FitNotes(m)')
    BY <1>1, ConcatProperties
  <2>2. << >> \in Seq(FitNotes(m)')
    OBVIOUS
  <2> QED
    BY <1>1, <1>4, <2>1, <2>2 DEF IsRead
<1>5. CASE IsParsed(m)
  <2>1. pending[m] # << >> /\ pending[m] \in Seq(FitNotes(m))
    BY <1>5 DEF IsParsed, NamesKept
  <2>2. PICK n : n = Head(pending[m]) /\ n \in FitNotes(m)
    BY <2>1, HeadTailProperties
  <2>3. PICK d : d = get_dirname(m, n.wd)
    OBVIOUS
  <2>4. PICK ev : ev = [note |-> n, dir |-> d]
    OBVIOUS
  <2>5. n \in Notes /\ Fits(m, n)
    BY <2>2 DEF FitNotes
  <2>6. ev \in Events
    <3>1. d \in Dirs \cup {NoDir}
      <4>1. CASE \E p \in names[m] : p[1] = n.wd
        <5>1. PICK q \in names[m] : d = q[2]
          BY <2>3, <4>1 DEF get_dirname
        <5> QED
          BY <5>1 DEF Typed, KernelOK, Pairs
      <4> QED
        BY <2>3, <4>1 DEF get_dirname
    <3> QED
      BY <2>4, <2>5, <3>1 DEF Events
  <2>7. Named(m, ev)'
    <3>1. UNCHANGED <<watch[m], names[m], lastwd[m]>> /\ ev.note = n /\ ev.dir = d
      BY <1>5, <2>4 DEF IsParsed
    <3>2. ASSUME n.known, NEW p \in watch[m], p[1] = n.wd
          PROVE  d = p[2]
      <4>1. p \in names[m]
        BY <2>5, <3>2 DEF Fits
      <4>2. PICK q \in names[m] : q[1] = n.wd /\ d = q[2]
        BY <2>3, <3>2, <4>1 DEF get_dirname
      <4>3. q \in watch[m] /\ q[1] = p[1]
        BY <3>2, <4>2 DEF Watched
      <4>4. q = p
        BY <4>3 DEF Watched
      <4> QED
        BY <4>2, <4>4
    <3>3. n.wd <= lastwd[m]
      BY <2>5 DEF Fits
    <3> QED
      BY <3>1, <3>2, <3>3 DEF Named
  <2>8. ev \in NamedEvents(m)'
    BY <2>6, <2>7 DEF NamedEvents
  <2>9. events'[m] \in Seq(NamedEvents(m)')
    BY <1>1, <1>5, <2>2, <2>3, <2>4, <2>8, AppendProperties DEF IsParsed
  <2>10. pending'[m] \in Seq(FitNotes(m)')
    BY <1>1, <1>5, <2>1, HeadTailProperties DEF IsParsed
  <2> QED
    BY <1>1, <1>5, <2>9, <2>10 DEF IsParsed
<1>6. CASE IsTaken(m)
  <2>1. Tail(events[m]) \in Seq(NamedEvents(m)')
    BY <1>1, <1>6, HeadTailProperties DEF IsTaken
  <2> QED
    BY <1>1, <1>6, <2>1 DEF IsTaken
<1> QED
  BY <1>2, <1>3, <1>4, <1>5, <1>6, Flow

-----------------------------------------------------------------------------
(* Waking.                                                                 *)

\* No step leaves a thread asleep on a deque with an event or a dead monitor.
LEMMA SleepersStep ==
  ASSUME Typed, NoSleeperForgotten, [Next]_vars
  PROVE  NoSleeperForgotten'
<1> USE DEF Typed, QueueOK, NoSleeperForgotten
<1>0. /\ DOMAIN pop = Sleepers /\ "user" \in Sleepers /\ "worker" \in Sleepers
      /\ Out.st = "out"
  BY DEF Out, Sleepers
<1>1. CASE UNCHANGED <<events, run, pop>>
  BY <1>1
<1>2. ASSUME NEW m \in Monitors, Wake(m), \A k \in Monitors \ {m} : UNCHANGED <<events[k], run[k]>>
      PROVE  NoSleeperForgotten'
  <2>1. ASSUME NEW t \in Sleepers, pop'[t].st = "wait"
        PROVE  pop'[t] = pop[t] /\ pop[t].m # m /\ pop[t].m \in Monitors
    BY <1>0, <1>2, <2>1 DEF Wake, Out
  <2>2. DOMAIN pop' = Sleepers
    BY <1>0, <1>2 DEF Wake
  <2> QED
    BY <1>0, <1>2, <2>1, <2>2
<1>3. ASSUME NEW m \in Monitors, ParseOne(m)
      PROVE  NoSleeperForgotten'
  <2>1. CASE run[m]
    <3>1. Wake(m) /\ run' = run /\ \A k \in Monitors \ {m} : events'[k] = events[k]
      BY <1>3, <2>1 DEF ParseOne, pushback_event
    <3> QED
      BY <1>2, <3>1
  <2>2. CASE ~run[m]
    BY <1>3, <2>2 DEF ParseOne, pushback_event
  <2> QED
    BY <2>1, <2>2
<1>4. CASE DestroyEnds
  <2>1. user.m \in Monitors
    BY <1>4 DEF DestroyEnds, UserType, Idle
  <2>2. Wake(user.m) /\ events' = events /\ \A k \in Monitors \ {user.m} : run'[k] = run[k]
    BY <1>4, <2>1 DEF DestroyEnds
  <2> QED
    BY <1>2, <2>1, <2>2
<1>5. ASSUME NEW t \in Sleepers, PopStep(t)
      PROVE  NoSleeperForgotten'
  <2>1. CASE PopWait(t)
    <3>1. [pop[t] EXCEPT !.st = "wait"].m = pop[t].m
      BY <2>1 DEF PopWait, Out
    <3> QED
      BY <1>0, <2>1, <3>1 DEF PopWait
  <2>2. CASE PopTake(t)
    <3> DEFINE m == pop[t].m
    <3>1. m \in Monitors /\ events[m] # << >> /\ run' = run
          /\ events' = [events EXCEPT ![m] = Tail(@)] /\ pop' = [pop EXCEPT ![t] = Out]
      BY <2>2 DEF PopTake, Leave, Out
    <3>2. ASSUME NEW r \in Sleepers, pop'[r].st = "wait"
          PROVE  pop'[r] = pop[r] /\ pop[r].m \in Monitors /\ pop[r].m # m
      BY <1>0, <3>1, <3>2 DEF Out
    <3> QED
      BY <1>0, <3>1, <3>2
  <2>3. CASE PopAbort(t)
    BY <1>0, <2>3 DEF PopAbort, Leave
  <2> QED
    BY <1>5, <2>1, <2>2, <2>3 DEF PopStep
<1>6. CASE RunOperation
  BY <1>0, <1>6 DEF RunOperation
<1>7. ASSUME NEW m \in Monitors, monitor(m)
      PROVE  NoSleeperForgotten'
  BY <1>0, <1>7 DEF monitor
<1> QED
  BY <1>0, <1>1, <1>3, <1>4, <1>5, <1>6, <1>7 DEF Next, vars, queue, UserContinues, UserCalls,
     Change, ReaderStep, Read, BeginRead, ReaderExits, AddWatch, AddName, remove_directory,
     ServiceJoined, async_monitor, DestroyStops, ServiceStops

-----------------------------------------------------------------------------
(* The invariant.                                                          *)

IInv == Typed /\ Watched /\ Ordered /\ NamesKept /\ NoSleeperForgotten

\* Where everything starts: nothing watched, nothing queued, nobody asleep.
LEMMA InitInvariant ==
  ASSUME Init
  PROVE  IInv
<1> USE DirMonitorAssumption DEF Init
<1>1. \A S : << >> \in Seq(S) /\ Len(<< >>) = 0
  OBVIOUS
<1>2. KernelOK /\ ThreadOK
  BY <1>1 DEF KernelOK, ThreadOK
<1>3. QueueOK
  BY <1>1 DEF QueueOK, Sleepers
<1>4. OpsOK
  BY <1>1 DEF OpsOK, Out
<1>5. user \in UserType
  BY DEF UserType
<1>6. Watched
  BY DEF Watched, Idle
<1>7. Ordered
  BY <1>1 DEF Ordered, InOrder
<1>8. NamesKept
  BY <1>1 DEF NamesKept
<1>9. NoSleeperForgotten
  BY DEF NoSleeperForgotten, Out
<1> QED
  BY <1>2, <1>3, <1>4, <1>5, <1>6, <1>7, <1>8, <1>9 DEF IInv, Typed

\* IInv holds in every state the program reaches.
THEOREM Invariant == Spec => []IInv
<1>1. Init => IInv
  BY InitInvariant
<1>2. IInv /\ [Next]_vars => IInv'
  BY TypedStep, WatchedStep, OrderedStep, NamesStep, SleepersStep DEF IInv
<1> QED
  BY <1>1, <1>2, PTL DEF Spec

\* NoSleeperForgotten: popfront_event and its notifiers lose no wake-up, whether
\* an event arrives or the monitor is destroyed while a thread waits.
THEOREM NoWakeupLost == Spec => []NoSleeperForgotten
<1>1. IInv => NoSleeperForgotten
  BY DEF IInv
<1> QED
  BY <1>1, Invariant, PTL

\* WatchedEventsNamed: an event made after add_directory entered its watch, and
\* whose watch is still there, has the name of the watched directory, however
\* directories are added and removed.
THEOREM EventsNamed == Spec => []WatchedEventsNamed
<1>1. ASSUME IInv
      PROVE  WatchedEventsNamed
  <2> SUFFICES ASSUME NEW m \in Monitors, NEW ev \in ToSet(events[m]), NEW p \in watch[m],
                      ev.note.known, p[1] = ev.note.wd
               PROVE  ev.dir = p[2]
    BY DEF WatchedEventsNamed
  <2>1. events[m] \in Seq(NamedEvents(m))
    BY <1>1 DEF IInv, NamesKept
  <2>2. ev \in NamedEvents(m)
    BY <2>1 DEF ToSet
  <2> QED
    BY <2>2 DEF NamedEvents, Named
<1> QED
  BY <1>1, Invariant, PTL

\* EventsAccounted: the notifications of a live monitor are in the kernel, the
\* read buffer and the deque exactly once, in the order they were made.
THEOREM EventsInOrder == Spec => []EventsAccounted
<1>1. ASSUME IInv
      PROVE  TypeOK
  <2> USE <1>1 DEF IInv, Typed
  <2>1. ASSUME NEW m \in Monitors
        PROVE  /\ watch[m] \subseteq Pairs /\ names[m] \subseteq Pairs
               /\ \A ev \in ToSet(events[m]) : ev.dir \in Dirs \cup {NoDir}
               /\ reader[m] \in {"idle", "parse", "exit"}
               /\ stopped[m] \in BOOLEAN /\ run[m] \in BOOLEAN
    <3>1. events[m] \in Seq(Events)
      BY DEF QueueOK
    <3>2. \A ev \in ToSet(events[m]) : ev \in Events
      BY <3>1 DEF ToSet
    <3> QED
      BY <3>2 DEF KernelOK, ThreadOK, QueueOK, Events
  <2>2. user.at \in {"idle", "add", "monitor", "join", "service"}
    BY DEF UserType, Idle
  <2>3. \A t \in DOMAIN pop : pop[t].st \in {"out", "check", "wait"}
    BY DEF QueueOK, Out
  <2>4. service \in {"up", "stopping", "down"} /\ worker \in 0..MaxOps
    BY DirMonitorAssumption DEF OpsOK
  <2>5. ToSet(done) \subseteq Outcomes
    BY DEF OpsOK, ToSet
  <2> QED
    BY <2>1, <2>2, <2>3, <2>4, <2>5 DEF TypeOK, Pairs, Outcomes
<1>2. ASSUME IInv
      PROVE  NothingLostOrReordered
  <2> SUFFICES ASSUME NEW m \in Monitors, Live(m)
               PROVE  /\ Len(InFlight(m)) = made[m] - taken[m]
                      /\ \A i \in 1..Len(InFlight(m)) : InFlight(m)[i].id = taken[m] + i
    BY DEF NothingLostOrReordered
  <2> DEFINE a == Len(events[m])
             b == Len(pending[m])
             c == Len(kq[m])
             t == taken[m]
             e == [i \in 1..a |-> events[m][i].note]
  <2>1. /\ kq[m] \in Seq(Notes) /\ pending[m] \in Seq(Notes) /\ events[m] \in Seq(Events)
        /\ t \in Nat /\ InOrder(m)
    BY <1>2 DEF IInv, Typed, KernelOK, ThreadOK, QueueOK, Ordered
  <2>2. /\ a \in Nat /\ b \in Nat /\ c \in Nat /\ t \in Nat /\ made[m] = t + a + b + c
        /\ \A i \in 1..a : events[m][i].note.id = t + i
        /\ \A i \in 1..b : pending[m][i].id = t + a + i
        /\ \A i \in 1..c : kq[m][i].id = t + a + b + i
    BY <2>1 DEF InOrder
  <2>3. e \in Seq(Notes) /\ Len(e) = a
    <3>1. ASSUME NEW i \in 1..a
          PROVE  events[m][i].note \in Notes
      <4>1. events[m][i] \in Events
        BY <2>1
      <4> QED
        BY <4>1 DEF Events
    <3>2. e \in [1..a -> Notes]
      BY <3>1
    <3>3. DOMAIN e = 1..a
      OBVIOUS
    <3> HIDE DEF a, e
    <3>4. e \in Seq(Notes)
      BY <2>2, <3>2, SeqDef
    <3>5. Len(e) \in Nat /\ DOMAIN e = 1..Len(e)
      BY <3>4, LenProperties
    <3> QED
      BY <2>2, <3>3, <3>4, <3>5
  <2>4. \A i \in 1..a : e[i].id = t + i
    BY <2>2
  <2> HIDE DEF a, b, c, t, e
  <2>5. /\ e \o pending[m] \in Seq(Notes) /\ Len(e \o pending[m]) = a + b
        /\ \A i \in 1..(a + b) :
             (e \o pending[m])[i] = IF i <= a THEN e[i] ELSE pending[m][i - a]
    BY <2>1, <2>3, ConcatProperties DEF b
  <2>6. InFlight(m) = (e \o pending[m]) \o kq[m]
    BY DEF InFlight, e, a
  <2>7. /\ Len(InFlight(m)) = a + b + c
        /\ \A i \in 1..(a + b + c) :
             InFlight(m)[i] = IF i <= a + b THEN (e \o pending[m])[i] ELSE kq[m][i - (a + b)]
    <3> DEFINE s == e \o pending[m]
               f == s \o kq[m]
    <3>1. s \in Seq(Notes) /\ Len(s) = a + b
      BY <2>5
    <3> HIDE DEF s
    <3>2. /\ Len(f) = Len(s) + c
          /\ \A i \in 1..(Len(s) + c) : f[i] = IF i <= Len(s) THEN s[i] ELSE kq[m][i - Len(s)]
      BY <2>1, <3>1, ConcatProperties DEF c
    <3>3. InFlight(m) = f
      BY <2>6 DEF s
    <3> HIDE DEF f
    <3>4. /\ Len(f) = a + b + c
          /\ \A i \in 1..(a + b + c) : f[i] = IF i <= a + b THEN s[i] ELSE kq[m][i - (a + b)]
      BY <3>1, <3>2
    <3> QED
      BY <3>3, <3>4 DEF s
  <2>8. ASSUME NEW i \in 1..(a + b + c)
        PROVE  InFlight(m)[i].id = t + i
    <3>1. CASE i <= a
      <4>1. i \in 1..a /\ i \in 1..(a + b) /\ i <= a + b
        BY <2>2, <3>1
      <4> QED
        BY <2>4, <2>5, <2>7, <3>1, <4>1
    <3>2. CASE a < i /\ i <= a + b
      <4>1. i - a \in 1..b /\ t + a + (i - a) = t + i /\ i \in 1..(a + b) /\ ~(i <= a)
        BY <2>2, <3>2
      <4>2. pending[m][i - a].id = t + i
        BY <2>2, <4>1
      <4> QED
        BY <2>5, <2>7, <3>2, <4>1, <4>2
    <3>3. CASE a + b < i
      <4>1. i - (a + b) \in 1..c /\ t + a + b + (i - (a + b)) = t + i /\ ~(i <= a + b)
        BY <2>2, <3>3
      <4>2. kq[m][i - (a + b)].id = t + i
        BY <2>2, <4>1
      <4> QED
        BY <2>7, <4>1, <4>2
    <3> QED
      BY <2>2, <3>1, <3>2, <3>3
  <2> QED
    BY <2>2, <2>7, <2>8 DEF t
<1>3. IInv => EventsAccounted
  BY <1>1, <1>2 DEF EventsAccounted
<1> QED
  BY <1>3, Invariant, PTL
=============================================================================
