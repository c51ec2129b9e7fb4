------------------------- MODULE MCCalendarCleanup --------------------------
(* Instance of CalendarCleanup for TLC: two channels of which one may be   *)
(* subscribed at a time; the first has all the broadcasts.                 *)
EXTENDS CalendarCleanup

CONSTANT Main
AllOfMain == [e \in Events |-> Main]
=============================================================================
