---------------------------- MODULE MCSyncLease -----------------------------
(* Instances of SyncLease for TLC: the attempts are interchangeable.       *)
EXTENDS SyncLease, TLC

Attempts == Permutations(Token)
=============================================================================
