---------------------------- MODULE InotifySample ---------------------------
(***************************************************************************)
(* The inotify sample (src/inotify-sample): a program that opens the       *)
(* inotify device, watches a directory and prints its events, and the      *)
(* ring of pointers between reading events and handling them.              *)
(*                                                                         *)
(* An event is its number in the order of the device and its mask, a set   *)
(* of bits; the lengths of names only tell how many events one read can    *)
(* return, which is BufEvents here.                                        *)
(***************************************************************************)
EXTENDS Integers, Sequences, FiniteSets, SequencesExt

CONSTANTS
  Capacity,      \* 128, the elements of the queue
  BufEvents,     \* the most events that fit the buffer of one read
  EventMasks,    \* masks the device reports
  MaxEvents      \* bound: events of the directory

\* A ring of one element would be read outside its array: the front starts at 1.
ASSUME CapacityAssumption == Capacity \in Nat /\ Capacity >= 2
ASSUME BufAssumption == BufEvents \in Nat

VARIABLES
  iq,            \* the queue: array, front, rear, size
  ipc,           \* where the program is
  device,        \* events the device holds
  batches,       \* events of each read, in order
  printed        \* what handle_event printed
inotifyVars == <<iq, ipc, device, batches, printed>>

NoEvent == [id |-> 0, mask |-> {}]

-----------------------------------------------------------------------------
(* event_queue.c                                                           *)

queue_empty(q) == q.size = 0
queue_full(q) == q.size = Capacity
queue_make_empty(q) == [q EXCEPT !.size = 0, !.front = 1, !.rear = 0]
queue_create == queue_make_empty([array |-> [i \in 0..(Capacity - 1) |-> NoEvent], front |-> 0, rear |-> 0, size |-> 0])
next_position(v) == IF v + 1 = Capacity THEN 0 ELSE v + 1
queue_enqueue_NoLimit(d, q) ==
  LET r == next_position(q.rear)
  IN  [q EXCEPT !.size = @ + 1, !.rear = r, !.array[r] = d]
\* A full queue drops the pointer, and the caller is not told.
queue_enqueue(d, q) ==
  IF queue_full(q) THEN q
  ELSE LET r == next_position(q.rear)
       IN  [q EXCEPT !.size = @ + 1, !.rear = r, !.array[r] = d]
queue_front(q) == IF queue_empty(q) THEN NoEvent ELSE q.array[q.front]
queue_dequeue(q) ==
  IF queue_empty(q) THEN q ELSE [q EXCEPT !.size = @ - 1, !.front = next_position(@)]

-----------------------------------------------------------------------------
(* inotify_utils.c                                                         *)

\* The switch compares whole masks: two bits together are only IN_CLOSE, and
\* one of the bits of IN_CLOSE alone is unknown.
IN_CLOSE == {"close_write", "close_nowrite"}
SingleKinds == {"access", "modify", "attrib", "open", "moved_from", "moved_to", "delete_subdir", "delete_file",
                "create_subdir", "create_file", "delete_self", "unmount", "q_overflow", "ignored"}
handle_event(event) ==
  [id |-> event.id,
   said |-> CASE event.mask = IN_CLOSE -> "close"
              [] \E k \in SingleKinds : event.mask = {k} -> CHOOSE k \in SingleKinds : event.mask = {k}
              [] OTHER -> "unknown"]

\* The queue after each turn of the loop, which leaves it empty.
Dequeued(q) ==
  LET after[n \in 0..q.size] == IF n = 0 THEN q ELSE queue_dequeue(after[n - 1])
  IN  after
handle_events ==
  LET after == Dequeued(iq)
  IN  /\ printed' = printed \o [n \in 1..iq.size |-> handle_event(queue_front(after[n - 1]))]
      /\ iq' = after[iq.size]

\* One read returns the events the device holds, as many as fit, and each is
\* put into the queue.
Enqueued(q, batch) ==
  LET after[n \in 0..Len(batch)] == IF n = 0 THEN q ELSE queue_enqueue(batch[n], after[n - 1])
  IN  after[Len(batch)]
read_events ==
  LET n == IF Len(device) < BufEvents THEN Len(device) ELSE BufEvents
      batch == SubSeq(device, 1, n)
  IN  /\ iq' = Enqueued(iq, batch)
      /\ device' = SubSeq(device, n + 1, Len(device))
      /\ batches' = Append(batches, batch)

\* One turn of the loop is a test of the queue, a wait for the device of at
\* most four seconds, and a read when there is something to read.
LoopHandle ==
  /\ ipc = "handle"
  /\ IF queue_empty(iq) THEN UNCHANGED <<iq, printed>> ELSE handle_events
  /\ ipc' = "check"
  /\ UNCHANGED <<device, batches>>
event_check ==
  /\ ipc = "check"
  /\ \/ device # <<>> /\ ipc' = "read"
     \/ ipc' = "handle"                       \* the timeout, or an interrupted select
  /\ UNCHANGED <<iq, device, batches, printed>>
LoopRead ==
  /\ ipc = "read"
  /\ \/ read_events /\ ipc' = "handle" /\ UNCHANGED printed
     \/ ipc' = "broken" /\ UNCHANGED <<iq, device, batches, printed>>   \* read failed
process_inotify_events == LoopHandle \/ event_check \/ LoopRead

\* main: an unopened device ends the program; a failed watch does not.
open_inotify_dev ==
  /\ ipc = "start"
  /\ \/ ipc' = "watch" /\ iq' = queue_create
     \/ ipc' = "ended" /\ UNCHANGED iq
  /\ UNCHANGED <<device, batches, printed>>
watch_dir ==
  /\ ipc = "watch"
  /\ ipc' = "handle"
  /\ UNCHANGED <<iq, device, batches, printed>>
FinishUp ==
  /\ ipc = "broken"
  /\ ipc' = "ended"                           \* queue_destroy, close_inotify_dev
  /\ iq' = queue_make_empty(iq)
  /\ UNCHANGED <<device, batches, printed>>

\* The directory changes while the program runs.
EventsRead(bs) ==
  LET upto[n \in 0..Len(bs)] == IF n = 0 THEN 0 ELSE upto[n - 1] + Len(bs[n])
  IN  upto[Len(bs)]
DeviceReports ==
  /\ ipc \in {"handle", "check", "read"}
  /\ LET seen == EventsRead(batches) + Len(device)
     IN  /\ seen < MaxEvents
         /\ \E m \in EventMasks : device' = Append(device, [id |-> seen + 1, mask |-> m])
  /\ UNCHANGED <<iq, ipc, batches, printed>>

InotifyRest == iq = queue_create /\ device = <<>> /\ batches = <<>> /\ printed = <<>>
InotifyIdle == ipc = "ended" /\ InotifyRest
InotifyInit == ipc = "start" /\ InotifyRest
InotifyNext == process_inotify_events \/ open_inotify_dev \/ watch_dir \/ FinishUp \/ DeviceReports
InotifySpec == InotifyInit /\ [][InotifyNext]_inotifyVars

-----------------------------------------------------------------------------
\* What the queue has room for of each read.
KeptOf(bs) ==
  LET upto[n \in 0..Len(bs)] ==
        IF n = 0 THEN <<>>
        ELSE upto[n - 1] \o SubSeq(bs[n], 1, IF Len(bs[n]) < Capacity THEN Len(bs[n]) ELSE Capacity)
  IN  upto[Len(bs)]

\* Events wait in the queue in the order they were read, wherever the ring
\* stands, and are printed once and in that order; what is lost is, of a read
\* that returned more events than the queue holds, exactly those beyond it,
\* because the queue is always empty when the device is read.
InotifyInOrder ==
  LET kept == KeptOf(batches)
      waiting == [n \in 1..iq.size |-> iq.array[(iq.front + n - 1) % Capacity]]
  IN  /\ Len(printed) + iq.size <= Len(kept)
      /\ printed \o [n \in 1..Len(waiting) |-> handle_event(waiting[n])]
           = [n \in 1..(Len(printed) + iq.size) |-> handle_event(kept[n])]
      /\ ipc \notin {"broken", "ended"} => Len(kept) = Len(printed) + iq.size
      /\ \A n \in DOMAIN printed : printed[n].said \in SingleKinds => \E b \in Range(batches) :
           \E e \in Range(b) : e = [id |-> printed[n].id, mask |-> {printed[n].said}]
=============================================================================
