------------------------ MODULE MCGoogleConnection -------------------------
(* Instance of GoogleConnection for TLC.                                   *)
EXTENDS GoogleConnection
=============================================================================
