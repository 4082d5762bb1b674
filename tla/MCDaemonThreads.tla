--------------------------- MODULE MCDaemonThreads ---------------------------
(* Instances of DaemonThreads for TLC.                                      *)
EXTENDS DaemonThreads
=============================================================================
