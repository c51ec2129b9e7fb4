--------------------------- MODULE MCStagingPower ---------------------------
(* Instance of StagingPower for TLC.                                       *)
EXTENDS StagingPower
=============================================================================
