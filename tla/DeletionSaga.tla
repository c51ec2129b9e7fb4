---------------------------- MODULE DeletionSaga ----------------------------
(***************************************************************************)
(* What a deletion is for everybody who reads the tombstone: one procedure *)
(* that begins once, keeps the user and the calendar it began with, goes   *)
(* through its steps in their order and never takes one back, however many *)
(* requests work on it.  The row of the user goes in one step with the     *)
(* record that it went.  The operations are those of the in-memory store;  *)
(* AccountDeletion shows that requests, leases, crashes and a user who     *)
(* connects again add up to this.                                          *)
(***************************************************************************)
EXTENDS Naturals

CONSTANTS MaxCalendar, MaxUser

VARIABLES
    tomb,  \* AccountDeletionRequest: status, userId, calendarIdSnapshot, steps done
    owner  \* id of the User row of the subject, 0 for none

NoTomb == [status |-> "none", user |-> 0, calendar |-> 0, steps |-> {}]

Init == tomb = NoTomb /\ owner = 1

(* beginAccountDeletion                                                    *)
Begin ==
    /\ tomb = NoTomb
    /\ \E u \in 1 .. MaxUser, c \in 0 .. MaxCalendar :
          tomb' = [status |-> "REQUESTED", user |-> u, calendar |-> c, steps |-> {}]
    /\ UNCHANGED owner

(* Each step with those before it and the status it leaves.                *)
Steps == {
    [name |-> "calendar", before |-> {}, status |-> "CALENDAR_DELETED"],
    [name |-> "token", before |-> {"calendar"}, status |-> "TOKEN_REVOKED"],
    [name |-> "auth", before |-> {"calendar", "token", "data"}, status |-> "AUTH_DELETED"],
    [name |-> "complete", before |-> {"calendar", "token", "data", "auth"},
     status |-> "COMPLETED"]}

(* markAccountDeletionStep; a step may be recorded again.                  *)
Record(step) ==
    /\ tomb # NoTomb /\ step.before \subseteq tomb.steps
    /\ tomb' = [tomb EXCEPT !.status = step.status, !.steps = @ \cup {step.name}]
    /\ UNCHANGED owner

(* deleteUserData                                                          *)
DeleteUserData ==
    /\ tomb # NoTomb /\ {"calendar", "token"} \subseteq tomb.steps
    /\ tomb' = [tomb EXCEPT !.status = "DATA_DELETED", !.user = 0, !.steps = @ \cup {"data"}]
    /\ owner' \in {owner, 0}

(* markAccountDeletionFailed                                               *)
Fail ==
    /\ tomb # NoTomb
    /\ tomb' = [tomb EXCEPT !.status = "FAILED"]
    /\ UNCHANGED owner

(* ensureUser                                                              *)
EnsureUser ==
    /\ owner = 0 /\ owner' \in 1 .. MaxUser
    /\ UNCHANGED tomb

Next ==
    \/ Begin \/ DeleteUserData \/ Fail \/ EnsureUser
    \/ \E step \in Steps : Record(step)

Spec == Init /\ [][Next]_<<tomb, owner>>
=============================================================================
