-------------------------- MODULE MCScheduledPass ---------------------------
(* Instance of ScheduledPass for TLC. Days of 25, 23 and 24 hours are 5, 3  *)
(* and 4 ticks long, Horizon and FullDay in proportion; things happen just  *)
(* before a midnight and just after it. The search budget is entirely       *)
(* protected, the other one but for one unit.                              *)
EXTENDS ScheduledPass

SmallBudget == [b \in Buckets |-> IF b = "SEARCH" THEN 2 ELSE 3]
SmallReserve == [b \in Buckets |-> 2]
=============================================================================
