---------------------------- MODULE MCLocSyncReq ----------------------------
(* Instances of LocSyncReq for TLC. *)
EXTENDS LocSyncReq, TLC

Sym == Permutations(Caller) \cup Permutations(Ind)
=============================================================================
