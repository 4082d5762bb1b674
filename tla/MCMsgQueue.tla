----------------------------- MODULE MCMsgQueue -----------------------------
(* Instances of MsgQueue for TLC.                                           *)
EXTENDS MsgQueue, TLC

Symmetry == Permutations(Ids \ BounceIds) \cup Permutations(BounceIds) \cup Permutations(Copies)
=============================================================================
