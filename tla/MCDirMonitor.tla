--------------------------- MODULE MCDirMonitor ---------------------------
(* Instances of DirMonitor for TLC.                                        *)
EXTENDS DirMonitor
=============================================================================
