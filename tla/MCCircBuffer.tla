---------------------------- MODULE MCCircBuffer ----------------------------
(***************************************************************************)
(* Instances of CircBuffer for TLC.  A buffer is either the task's alone,  *)
(* which then uses every call, or shared with the interrupt handler: then  *)
(* the task neither resets it nor peeks at it once a test has passed.      *)
(***************************************************************************)
EXTENDS CircBuffer

VARIABLE shared

MCInit == Init /\ shared \in BOOLEAN

MCNext ==
  \/ ~shared /\ Task /\ UNCHANGED shared
  \/ shared /\ Next /\ at' \in {"idle", "lookup"} /\ UNCHANGED shared
=============================================================================
