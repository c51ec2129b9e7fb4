--------------------------- MODULE AccountDeletion --------------------------
(***************************************************************************)
(* Deletion of one account (deleteAccount in oshi-service.ts): a saga over *)
(* Google Calendar, the Google grant, the rows of the user and the login   *)
(* at Supabase, whose progress is kept in the AccountDeletionRequest row   *)
(* (the tombstone).  Requests for the same subject run under a lease and   *)
(* may be repeated, time out, crash or overlap; beside them the user may   *)
(* connect again (onboard) and the worker may ensure the calendar.         *)
(*                                                                         *)
(* One step is one database transaction or one outside call.  A request    *)
(* that fails is the step Fails, whatever the error is; where an answer    *)
(* gets lost the outside call has its effect and the request fails.        *)
(* SyncLease shows what the lease promises.  The purge of a completed      *)
(* tombstone after 30 days is left out.                                    *)
(***************************************************************************)
EXTENDS Naturals

CONSTANTS
    Request,     \* concurrent DELETE /me requests of the subject
    Nobody,      \* no holder of the lease
    MaxCalendar, \* bound on the calendars ever created for the subject
    MaxUser,     \* bound on the User rows ever created for the subject
    Onboards,    \* does the user connect Google again?
    Syncs,       \* does the worker sync the user's subscriptions?
    UserActs,    \* does the user revoke the grant or delete the calendar?
    Answers404   \* does Google answer 404, not 410, for a deleted calendar?

ASSUME ParametersAssumption ==
    /\ Nobody \notin Request
    /\ MaxCalendar \in Nat \ {0} /\ MaxUser \in Nat \ {0}
    /\ {Onboards, Syncs, UserActs, Answers404} \subseteq BOOLEAN

VARIABLES
    tomb,    \* AccountDeletionRequest: status, userId, calendarIdSnapshot, steps done
    user,    \* User row: id, calendarId, stored credential
    holder,  \* holder of the lease "account-deletion:<subject>"
    req,     \* the requests: what each does and what it read before
    act,     \* onboard and the worker's ensureCalendar
    cals,    \* calendars of the application in the user's Google account
    grant,   \* the OAuth grant at Google is valid
    auth,    \* the Supabase user exists
    pending, \* has the user mappings, and tasks of another calendar than the snapshot's
    made,    \* calendars created so far
    users    \* User rows created so far

vars == <<tomb, user, holder, req, act, cals, grant, auth, pending, made, users>>

Calendar == 0 .. MaxCalendar    \* 0 is null
UserId == 0 .. MaxUser          \* 0 is null, no row
Step == {"calendar", "token", "data", "auth", "complete"}
Status == {"none", "REQUESTED", "CALENDAR_DELETED", "TOKEN_REVOKED", "DATA_DELETED",
           "AUTH_DELETED", "COMPLETED", "FAILED"}
Actor == {"onboard", "sync"}
Tombstone == [status : Status, user : UserId, calendar : Calendar, steps : SUBSET Step]
Place == {"idle", "user", "begin", "acquire", "calendar", "deleteCalendar", "markCalendar",
          "token", "revoke", "markToken", "data", "auth", "deleteAuth", "markAuth",
          "complete", "fail", "release"}
RequestState == [pc : Place, user : UserId, calendar : Calendar, seen : Tombstone]
ActorState == [pc : {"idle", "ensure", "verify", "check", "create", "save", "complete"},
               user : UserId, calendar : Calendar]

NoTomb == [status |-> "none", user |-> 0, calendar |-> 0, steps |-> {}]
Pending == [mapped : BOOLEAN, tasks : BOOLEAN]

NoUser == [id |-> 0, calendar |-> 0, credential |-> FALSE]
NoRequest == [pc |-> "idle", user |-> 0, calendar |-> 0, seen |-> NoTomb]
NoActor == [pc |-> "idle", user |-> 0, calendar |-> 0]
NonePending == [mapped |-> FALSE, tasks |-> FALSE]

TypeOK ==
    /\ tomb \in Tombstone
    /\ user \in [id : UserId, calendar : Calendar, credential : BOOLEAN]
    /\ holder \in Request \cup {Nobody}
    /\ req \in [Request -> RequestState]
    /\ act \in [Actor -> ActorState]
    /\ cals \subseteq 1 .. MaxCalendar
    /\ {grant, auth} \subseteq BOOLEAN /\ pending \in Pending
    /\ made \in Calendar /\ users \in UserId

(* A connected user with the calendar, or one whose onboarding never ended. *)
Init ==
    /\ tomb = NoTomb
    /\ \E made0 \in {0, 1} :
          /\ made = made0
          /\ user = [id |-> 1, calendar |-> made0, credential |-> TRUE]
          /\ cals = 1 .. made0
          /\ pending \in Pending /\ (made0 = 0 => pending = NonePending)
    /\ users = 1
    /\ grant = TRUE /\ auth = TRUE
    /\ holder = Nobody
    /\ req = [d \in Request |-> NoRequest]
    /\ act = [a \in Actor |-> NoActor]

outside == <<cals, grant, auth>>
beside == <<act, made, users>>
actors == <<beside, pending>>
Goto(d, place) == req' = [req EXCEPT ![d].pc = place]

-----------------------------------------------------------------------------
(* Before the lease: what deleteAccount reads here it uses to the end.     *)

Find(d) ==
    /\ req[d].pc = "idle"
    /\ req' = [req EXCEPT ![d] = [NoRequest EXCEPT !.pc = "user", !.seen = tomb]]
    /\ UNCHANGED <<tomb, user, holder, outside, actors>>

(* Without a tombstone and without a user there is nothing to delete.      *)
FindUser(d) ==
    /\ req[d].pc = "user"
    /\ req' = [req EXCEPT ![d] =
                 IF req[d].seen.status # "none"
                    THEN [@ EXCEPT !.pc = "acquire", !.user = user.id, !.calendar = user.calendar]
                 ELSE IF user.id # 0
                    THEN [@ EXCEPT !.pc = "begin", !.user = user.id, !.calendar = user.calendar]
                 ELSE NoRequest]
    /\ UNCHANGED <<tomb, user, holder, outside, actors>>

(* A mutant: the upsert writes the row it finds as well.                   *)
BeginAnew(d) ==
    /\ req[d].pc = "begin"
    /\ tomb' = [status |-> "REQUESTED", user |-> req[d].user,
                calendar |-> req[d].calendar, steps |-> {}]
    /\ req' = [req EXCEPT ![d] = [@ EXCEPT !.pc = "acquire", !.seen = tomb']]
    /\ UNCHANGED <<user, holder, outside, actors>>

(* beginAccountDeletion: an upsert that leaves an existing tombstone as it *)
(* is, read back.                                                          *)
Begin(d) ==
    /\ req[d].pc = "begin"
    /\ tomb' = IF tomb.status # "none" THEN tomb
                  ELSE [status |-> "REQUESTED", user |-> req[d].user,
                        calendar |-> req[d].calendar, steps |-> {}]
    /\ req' = [req EXCEPT ![d] = [@ EXCEPT !.pc = "acquire", !.seen = tomb']]
    /\ UNCHANGED <<user, holder, outside, actors>>

Acquire(d) ==
    /\ req[d].pc = "acquire"
    /\ IF holder = Nobody
          THEN holder' = d /\ Goto(d, "calendar")
          ELSE req' = [req EXCEPT ![d] = NoRequest] /\ UNCHANGED holder
    /\ UNCHANGED <<tomb, user, outside, actors>>

-----------------------------------------------------------------------------
(* The steps.  "From" is left for "to" at once when the copy the request   *)
(* read has the step; otherwise the lease is renewed.                      *)

Seen(d, step) == step \in req[d].seen.steps

(* markAccountDeletionStep, in a transaction with the lease check.         *)
Mark(d, step, status, to) ==
    /\ holder = d
    /\ tomb' = [tomb EXCEPT !.status = status, !.steps = @ \cup {step}]
    /\ req' = [req EXCEPT ![d] = [req[d] EXCEPT !.pc = to, !.seen.steps = @ \cup {step}]]
    /\ UNCHANGED <<user, holder, outside, actors>>

(* hasMappingsForUser where the tombstone has no calendar (it counts tasks *)
(* as well), else hasCalendarCleanupOutside: queueUserCalendarCleanup adds *)
(* tasks of the snapshot's calendar only.                                  *)
StillPending(d) ==
    /\ req[d].user # 0
    /\ pending.tasks \/ (req[d].seen.calendar = 0 /\ pending.mapped)

(* A mutant: the calendar is deleted only while it is the user's.          *)
StartCalendarOfUser(d) ==
    /\ req[d].pc = "calendar"
    /\ Seen(d, "calendar") \/ (holder = d /\ ~ StillPending(d))
    /\ Goto(d, IF Seen(d, "calendar") THEN "token"
               ELSE IF user.calendar = req[d].seen.calendar /\ req[d].seen.calendar # 0
                    THEN "deleteCalendar" ELSE "markCalendar")
    /\ UNCHANGED <<tomb, user, holder, outside, actors>>

(* Events outside the calendar that is deleted refuse the step.            *)
StartCalendar(d) ==
    /\ req[d].pc = "calendar"
    /\ Seen(d, "calendar") \/ (holder = d /\ ~ StillPending(d))
    /\ Goto(d, IF Seen(d, "calendar") THEN "token"
               ELSE IF req[d].user # 0 /\ req[d].seen.calendar # 0 THEN "deleteCalendar"
                                                                 ELSE "markCalendar")
    /\ UNCHANGED <<tomb, user, holder, outside, actors>>

(* DELETE of the calendar: 404 is refused, 410 is success.                 *)
DeleteCalendar(d) ==
    /\ req[d].pc = "deleteCalendar"
    /\ grant /\ (req[d].seen.calendar \in cals \/ ~ Answers404)
    /\ cals' = cals \ {req[d].seen.calendar}
    /\ \E place \in {"markCalendar", "fail"} : Goto(d, place)
    /\ UNCHANGED <<tomb, user, holder, grant, auth, actors>>

MarkCalendar(d) ==
    req[d].pc = "markCalendar" /\ Mark(d, "calendar", "CALENDAR_DELETED", "token")

StartToken(d) ==
    /\ req[d].pc = "token"
    /\ Seen(d, "token") \/ holder = d
    /\ Goto(d, IF Seen(d, "token") THEN "data"
               ELSE IF req[d].user # 0 THEN "revoke" ELSE "markToken")
    /\ UNCHANGED <<tomb, user, holder, outside, actors>>

(* A mutant: only a user who is still connected is revoked.                *)
RevokeIfCalendar(d) ==
    /\ req[d].pc = "revoke"
    /\ grant' = (grant /\ ~ (user.id = req[d].user /\ user.calendar # 0))
    /\ \E place \in {"markToken", "fail"} : Goto(d, place)
    /\ UNCHANGED <<tomb, user, holder, cals, auth, actors>>

(* revokeAuthorization: nothing to do without a credential.                *)
Revoke(d) ==
    /\ req[d].pc = "revoke"
    /\ grant' = (grant /\ ~ (user.id = req[d].user /\ user.credential))
    /\ \E place \in {"markToken", "fail"} : Goto(d, place)
    /\ UNCHANGED <<tomb, user, holder, cals, auth, actors>>

MarkToken(d) == req[d].pc = "markToken" /\ Mark(d, "token", "TOKEN_REVOKED", "data")

(* deleteUserData: the user with everything that hangs on it, and the step *)
(* itself, in a transaction with the lease check.                          *)
DeleteData(d) ==
    /\ req[d].pc = "data"
    /\ Seen(d, "data") \/ holder = d
    /\ IF Seen(d, "data")
          THEN Goto(d, "auth") /\ UNCHANGED <<tomb, user, pending>>
          ELSE /\ IF req[d].seen.user # 0 /\ user.id = req[d].seen.user
                     THEN user' = NoUser /\ pending' = NonePending
                     ELSE UNCHANGED <<user, pending>>
               /\ tomb' = [tomb EXCEPT !.status = "DATA_DELETED", !.steps = @ \cup {"data"},
                                       !.user = IF req[d].seen.user # 0 THEN 0 ELSE @]
               /\ req' = [req EXCEPT ![d] = [req[d] EXCEPT !.pc = "auth", !.user = 0,
                                                          !.seen.steps = @ \cup {"data"}]]
    /\ UNCHANGED <<holder, outside, beside>>

StartAuth(d) ==
    /\ req[d].pc = "auth"
    /\ Seen(d, "auth") \/ holder = d
    /\ Goto(d, IF Seen(d, "auth") THEN "complete" ELSE "deleteAuth")
    /\ UNCHANGED <<tomb, user, holder, outside, actors>>

(* A mutant: a Supabase user that is gone already is an error.             *)
DeleteAuthOnce(d) ==
    /\ req[d].pc = "deleteAuth" /\ auth
    /\ auth' = FALSE
    /\ \E place \in {"markAuth", "fail"} : Goto(d, place)
    /\ UNCHANGED <<tomb, user, holder, cals, grant, actors>>

(* DELETE of the Supabase user; 404 is success.                            *)
DeleteAuth(d) ==
    /\ req[d].pc = "deleteAuth"
    /\ auth' = FALSE
    /\ \E place \in {"markAuth", "fail"} : Goto(d, place)
    /\ UNCHANGED <<tomb, user, holder, cals, grant, actors>>

MarkAuth(d) == req[d].pc = "markAuth" /\ Mark(d, "auth", "AUTH_DELETED", "complete")

Complete(d) ==
    /\ req[d].pc = "complete"
    /\ IF Seen(d, "complete")
          THEN Goto(d, "release") /\ UNCHANGED <<tomb, user, holder, outside, actors>>
          ELSE Mark(d, "complete", "COMPLETED", "release")

-----------------------------------------------------------------------------
(* The ways out.                                                           *)

(* A lost lease, a refused check, an outside call without effect.  Steps   *)
(* that the request saw done have nothing that could fail.                 *)
Fails(d) ==
    /\ \/ req[d].pc \in {"deleteCalendar", "markCalendar", "revoke", "markToken",
                         "deleteAuth", "markAuth"}
       \/ req[d].pc \in Step /\ ~ Seen(d, req[d].pc)
    /\ Goto(d, "fail")
    /\ UNCHANGED <<tomb, user, holder, outside, actors>>

(* markAccountDeletionFailed in the catch block, under the lease.          *)
MarkFailed(d) ==
    /\ req[d].pc = "fail"
    /\ tomb' = IF holder = d THEN [tomb EXCEPT !.status = "FAILED"] ELSE tomb
    /\ Goto(d, "release")
    /\ UNCHANGED <<user, holder, outside, actors>>

Release(d) ==
    /\ req[d].pc = "release"
    /\ holder' = IF holder = d THEN Nobody ELSE holder
    /\ req' = [req EXCEPT ![d] = NoRequest]
    /\ UNCHANGED <<tomb, user, outside, actors>>

Crash(d) ==
    /\ req[d].pc # "idle"
    /\ req' = [req EXCEPT ![d] = NoRequest]
    /\ UNCHANGED <<tomb, user, holder, outside, actors>>

(* ACCOUNT_DELETION_LEASE_MS passes without a renewal.                     *)
Lapse ==
    /\ holder # Nobody
    /\ holder' = Nobody
    /\ UNCHANGED <<tomb, user, req, outside, actors>>

-----------------------------------------------------------------------------
(* Beside the deletion.                                                    *)

deletion == <<tomb, holder, req>>
Move(a, place) == act' = [act EXCEPT ![a].pc = place]
GiveUp(a) == act' = [act EXCEPT ![a] = NoActor]
After(a) == IF a = "onboard" THEN "complete" ELSE "idle"

(* onboard with a fresh consent of the user, refused with a tombstone but  *)
(* for one that failed before the calendar was deleted.                    *)
Onboard ==
    /\ Onboards /\ act["onboard"].pc = "idle"
    /\ tomb.status = "none"
          \/ (tomb.status = "FAILED" /\ tomb.user # 0 /\ "calendar" \notin tomb.steps)
    /\ grant' = TRUE
    /\ Move("onboard", "ensure")
    /\ UNCHANGED <<deletion, user, cals, auth, pending, made, users>>

(* ensureUser: upsert by subject.                                          *)
EnsureUser ==
    /\ act["onboard"].pc = "ensure"
    /\ user.id = 0 => users < MaxUser
    /\ user' = IF user.id # 0 THEN user ELSE [NoUser EXCEPT !.id = users + 1]
    /\ users' = IF user.id # 0 THEN users ELSE users + 1
    /\ act' = [act EXCEPT !["onboard"] = [pc |-> "verify", user |-> user'.id,
                                          calendar |-> user'.calendar]]
    /\ UNCHANGED <<deletion, outside, pending, made>>

(* verifyGrant and saveCredential, which needs the row of the user.        *)
Verify ==
    /\ act["onboard"].pc = "verify"
    /\ IF grant /\ user.id = act["onboard"].user
          THEN user' = [user EXCEPT !.credential = TRUE] /\ Move("onboard", "check")
          ELSE GiveUp("onboard") /\ UNCHANGED user
    /\ UNCHANGED <<deletion, outside, pending, made, users>>

(* The worker reads the user and goes on to ensureCalendar; without a      *)
(* grant its first call fails.                                             *)
SyncStarts ==
    /\ Syncs /\ act["sync"].pc = "idle" /\ user.id # 0
    /\ act' = [act EXCEPT !["sync"] = [pc |-> "check", user |-> user.id,
                                       calendar |-> user.calendar]]
    /\ UNCHANGED <<deletion, user, outside, pending, made, users>>

(* ensureCalendar: is the calendar there (GET), create one (POST), and     *)
(* setCalendarId, which needs the row of the user.                         *)
CheckCalendar(a) ==
    /\ act[a].pc = "check" /\ grant
    /\ Move(a, IF act[a].calendar \in cals THEN After(a) ELSE "create")
    /\ UNCHANGED <<deletion, user, outside, pending, made, users>>

CreateCalendar(a) ==
    /\ act[a].pc = "create" /\ grant /\ made < MaxCalendar
    /\ made' = made + 1
    /\ cals' = cals \cup {made'}
    /\ \/ act' = [act EXCEPT ![a] = [@ EXCEPT !.pc = "save", !.calendar = made']]
       \/ GiveUp(a)
    /\ UNCHANGED <<deletion, user, grant, auth, pending, users>>

SaveCalendar(a) ==
    /\ act[a].pc = "save"
    /\ IF user.id = act[a].user
          THEN user' = [user EXCEPT !.calendar = act[a].calendar] /\ Move(a, After(a))
          ELSE GiveUp(a) /\ UNCHANGED user
    /\ UNCHANGED <<deletion, outside, pending, made, users>>

(* completeOnboarding; then retryCalendarCleanup may get tasks done.       *)
CompleteOnboarding ==
    /\ act["onboard"].pc = "complete"
    /\ IF user.id = act["onboard"].user
          THEN /\ user' = [user EXCEPT !.calendar = act["onboard"].calendar,
                                       !.credential = TRUE]
               /\ \E left \in BOOLEAN :
                     pending' = [pending EXCEPT !.tasks = @ /\ left]
          ELSE UNCHANGED <<user, pending>>
    /\ GiveUp("onboard")
    /\ UNCHANGED <<deletion, outside, made, users>>

(* An error, or the end of the process.                                    *)
ActorFails(a) ==
    /\ act[a].pc # "idle"
    /\ GiveUp(a)
    /\ UNCHANGED <<deletion, user, outside, pending, made, users>>

(* retryCalendarCleanup of the hourly pass.                                *)
Cleanup ==
    /\ pending.tasks /\ pending' = [pending EXCEPT !.tasks = FALSE]
    /\ UNCHANGED <<deletion, user, outside, beside>>

(* A sync writes an event of the user.                                     *)
MapEvent ==
    /\ Syncs /\ ~ pending.mapped /\ user.calendar # 0
    /\ pending' = [pending EXCEPT !.mapped = TRUE]
    /\ UNCHANGED <<deletion, user, outside, beside>>

(* The user removes the subscription, which the API refuses him with a     *)
(* tombstone, or the retention takes the broadcast: the events are left,   *)
(* or tasks come for the calendar the user has.                            *)
Unmap ==
    /\ pending.mapped
    /\ \E task \in {FALSE, user.calendar # tomb.calendar} :
          pending' = [mapped |-> FALSE, tasks |-> pending.tasks \/ task]
    /\ UNCHANGED <<deletion, user, outside, beside>>

(* In the Google account.                                                  *)
UserRevokes ==
    /\ UserActs /\ grant /\ grant' = FALSE
    /\ UNCHANGED <<deletion, user, cals, auth, actors>>

UserDeletesCalendar ==
    /\ UserActs
    /\ \E c \in cals : cals' = cals \ {c}
    /\ UNCHANGED <<deletion, user, grant, auth, actors>>

-----------------------------------------------------------------------------

(* The steps of a request in which nothing goes wrong.                     *)
Advance(d) ==
    \/ Find(d) \/ FindUser(d) \/ Begin(d) \/ Acquire(d)
    \/ StartCalendar(d) \/ DeleteCalendar(d) \/ MarkCalendar(d)
    \/ StartToken(d) \/ Revoke(d) \/ MarkToken(d) \/ DeleteData(d)
    \/ StartAuth(d) \/ DeleteAuth(d) \/ MarkAuth(d) \/ Complete(d)

Next ==
    \/ \E d \in Request : \/ Advance(d) \/ Fails(d) \/ MarkFailed(d)
                          \/ Release(d) \/ Crash(d)
    \/ Lapse \/ Onboard \/ EnsureUser \/ Verify \/ CompleteOnboarding
    \/ SyncStarts \/ Cleanup \/ MapEvent \/ Unmap \/ UserRevokes \/ UserDeletesCalendar
    \/ \E a \in Actor : \/ CheckCalendar(a) \/ CreateCalendar(a) \/ SaveCalendar(a)
                        \/ ActorFails(a)

Spec == Init /\ [][Next]_vars

(* Asked for until it is through, in a calm at the end: from some time on  *)
(* no process dies, no running request loses its lease, and no call fails  *)
(* but for a reason the state gives.  Before that anything may happen.     *)
Working(d) == req[d].pc \notin {"idle", "user", "begin", "acquire"}
Refused(d) ==
    \/ holder # d
    \/ req[d].pc = "calendar" /\ StillPending(d)
    \/ /\ req[d].pc = "deleteCalendar"
       /\ ~ grant \/ (Answers404 /\ req[d].seen.calendar \notin cals)

Untroubled(d) ==
    \/ Advance(d) /\ req'[d].pc # "fail"
    \/ Fails(d) /\ Refused(d)
    \/ MarkFailed(d) \/ Release(d)

LapseOfDead == (\E d \in Request : holder = d /\ ~ Working(d)) /\ Lapse
Calm == (\E d \in Request : Untroubled(d)) \/ LapseOfDead \/ Cleanup

Fairness ==
    /\ <>[][Calm]_vars
    /\ \A d \in Request : WF_vars(Untroubled(d))
    /\ WF_vars(LapseOfDead) /\ WF_vars(Cleanup)

FairSpec == Spec /\ Fairness

-----------------------------------------------------------------------------

StepBefore == [s \in Step |-> CASE s = "calendar" -> {}
                                [] s = "token" -> {"calendar"}
                                [] s = "data" -> {"calendar", "token"}
                                [] s = "auth" -> {"calendar", "token", "data"}
                                [] s = "complete" -> {"calendar", "token", "data", "auth"}]

(* docs/architecture/authentication.md: calendar, grant, data, login,      *)
(* completion, in this order.  However many requests overlap with however  *)
(* old copies of the tombstone, no step is recorded before the ones it     *)
(* needs: the credential is not deleted while the calendar is there.       *)
StepsInOrder ==
    \A s \in tomb.steps : StepBefore[s] \subseteq tomb.steps

(* The calendar the user had when the deletion was asked for is gone once  *)
(* the tombstone says so, also when the user connects again meanwhile.     *)
SnapshotCalendarGone ==
    "calendar" \in tomb.steps /\ tomb.calendar # 0 => tomb.calendar \notin cals

(* docs/requirements/product-requirements.md: the account and the calendar *)
(* are deleted by a procedure that can be repeated.  COMPLETED says that   *)
(* nothing is left, in any of the four places.                             *)
CompletedMeansGone ==
    tomb.status = "COMPLETED" => cals = {} /\ ~ grant /\ user = NoUser /\ ~ auth

(* authentication.md: a deletion that failed is asked for again and goes   *)
(* on from the step it reached, what was done before the answer got lost   *)
(* counting as done.  Once things go well it gets through; but where the   *)
(* tombstone has no calendar and a sync of that time wrote events, it does *)
(* not before the retention has taken them.                                *)
DeletionCompletes ==
    tomb.status # "none" ~> \/ "complete" \in tomb.steps
                            \/ tomb.calendar = 0 /\ pending.mapped

(* Overlapping requests with old copies of the tombstone, crashes between  *)
(* an outside call and its record, and a user who connects again: for its  *)
(* readers the deletion is one procedure that only goes forward.           *)
Saga == INSTANCE DeletionSaga WITH owner <- user.id
ImplementsSaga == Saga!Spec
=============================================================================
