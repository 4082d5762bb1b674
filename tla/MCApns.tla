-------------------------------- MODULE MCApns --------------------------------
(* Instances of Apns for TLC.                                               *)
EXTENDS Apns
=============================================================================
