------------------------- MODULE MCAccountDeletion --------------------------
(* Instances of AccountDeletion for TLC; the requests of a subject are     *)
(* interchangeable.  The symmetry is used for safety only.                 *)
EXTENDS AccountDeletion, TLC

Requests == Permutations(Request)
=============================================================================
