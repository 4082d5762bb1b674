---------------------------- MODULE MCThreadPool ----------------------------
(* Instances of ThreadPool for TLC.  The threads and items are few, as the  *)
(* liveness properties leave no room for symmetry.                          *)
EXTENDS ThreadPool
=============================================================================
