--------------------------- MODULE MCInlinePower ---------------------------
(* Instances of InlinePower for TLC, in units of the smallest request. *)
EXTENDS InlinePower
OneClass == {"Cisco"}
OnePower == [c \in OneClass |-> 1]
TwoClasses == {"Cisco", "IEEE"}
TwoPowers == [c \in TwoClasses |-> IF c = "Cisco" THEN 1 ELSE 2]
=============================================================================
