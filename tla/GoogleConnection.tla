-------------------------- MODULE GoogleConnection --------------------------
(***************************************************************************)
(* How a user's connection to Google is made, used and lost: onboard in    *)
(* oshi-service.ts and the token handling of google-calendar-gateway.ts.   *)
(* The API connects the user with a new grant while the worker goes on     *)
(* with what it read before: the stored credential, the calendar of the    *)
(* User row, an access token kept in its own process.  User.reauthRequired *)
(* stops all work for the user until the next onboarding.                  *)
(*                                                                         *)
(* A grant is what Google gave for one consent; its refresh token and its  *)
(* access tokens are told apart by their grant only.  The three attempts   *)
(* of exchangeRefreshToken are one: a call fails after the last of them.   *)
(* The writes of events are left to ChannelSync, the tombstone that        *)
(* refuses an onboarding and the calls of a deletion to AccountDeletion.   *)
(***************************************************************************)
EXTENDS Naturals

CONSTANTS
    Onboardings, \* concurrent onboarding requests of the user
    Workers,     \* jobs of the worker for the user, all in one process
    MaxGrant,    \* bound on the consents of the user
    MaxCalendar  \* bound on the calendars Google creates

ASSUME ConnectionAssumption ==
    /\ Onboardings \cap Workers = {}
    /\ MaxGrant \in Nat \ {0} /\ MaxCalendar \in Nat \ {0}

Calls == Onboardings \cup Workers
Process == {"api", "worker"}
Home(c) == IF c \in Onboardings THEN "api" ELSE "worker"

Grant == 0 .. MaxGrant          \* 0 is none
Calendar == 0 .. MaxCalendar    \* 0 is null
Request == {"check", "create", "delete"}
CallState == [pc : {"idle", "verify", "refused", "mark", "save", "token", "exchange",
                    "request", "keep", "complete"},
              want : Request, own : Grant, token : Grant, read : Calendar, made : Calendar]
NoCall == [pc |-> "idle", want |-> "check", own |-> 0, token |-> 0, read |-> 0, made |-> 0]

VARIABLES
    user,   \* User row: calendar, reauth, done (onboardingCompletedAt)
    cred,   \* grant of the stored GoogleCredential
    cache,  \* accessTokens of each process: grant of the token it keeps
    call,   \* the calls: place, request wanted, own grant, token's grant,
            \* calendar last read or written, calendar created
    grants, \* what Google makes of each grant
    locked, \* grants whose stored token no key decrypts
    denied, \* Google has forbidden the deletion of an event under a good grant
    cals,   \* calendars of the application in the user's Google account
    made,   \* calendars created so far
    astray  \* calendars whose id was lost on the way or overwritten unread

vars == <<user, cred, cache, call, grants, locked, denied, cals, made, astray>>
google == <<grants, locked, denied>>
calendars == <<cals, made, astray>>

Init ==
    /\ user = [calendar |-> 0, reauth |-> FALSE, done |-> FALSE]
    /\ cred = 0
    /\ cache = [p \in Process |-> 0]
    /\ call = [c \in Calls |-> NoCall]
    /\ grants = [g \in 1 .. MaxGrant |-> "none"]
    /\ locked = {} /\ denied = FALSE
    /\ cals = {} /\ made = 0 /\ astray = {}

Dead(g) == g # 0 /\ grants[g] # "full"
Goto(c, place) == call' = [call EXCEPT ![c].pc = place]
Ask(c, want) == call' = [call EXCEPT ![c].pc = "token", ![c].want = want]
End(c) == call' = [call EXCEPT ![c] = NoCall]

-----------------------------------------------------------------------------
(* Onboarding, up to the calendar.                                         *)

(* The user consents, to all of the scopes or not; onboard reads the User  *)
(* row and verifyGrant forgets the token the process has.                  *)
Connect(o) ==
    /\ call[o].pc = "idle"
    /\ \E g \in 1 .. MaxGrant, consent \in {"full", "partial"} :
          /\ \A h \in 1 .. MaxGrant : h < g <=> grants[h] # "none"
          /\ grants' = [grants EXCEPT ![g] = consent]
          /\ call' = [call EXCEPT ![o] =
                [NoCall EXCEPT !.pc = "verify", !.own = g, !.token = g, !.read = user.calendar]]
    /\ cache' = [cache EXCEPT ![Home(o)] = 0]
    /\ UNCHANGED <<user, cred, locked, denied, calendars>>

(* saveCredential, before the calendar that needs it.                      *)
Save(o) ==
    /\ call[o].pc = "save"
    /\ cred' = call[o].own
    /\ Ask(o, IF call[o].read # 0 THEN "check" ELSE "create")
    /\ UNCHANGED <<user, cache, google, calendars>>

(* exchangeRefreshToken: Google refuses a revoked grant, and the gateway a *)
(* grant without the scopes.                                               *)
Exchange(c) ==
    /\ call[c].pc \in {"verify", "exchange"}
    /\ IF Dead(call[c].token)
          THEN Goto(c, IF call[c].pc = "verify" THEN "refused" ELSE "mark") /\ UNCHANGED cache
          ELSE /\ cache' = [cache EXCEPT ![Home(c)] = call[c].token]
               /\ Goto(c, IF call[c].pc = "verify" THEN "save" ELSE "request")
    /\ UNCHANGED <<user, cred, google, calendars>>

(* markReauthRequired; onboard does it once more after the gateway.        *)
Mark(c) ==
    /\ call[c].pc \in {"refused", "mark"}
    /\ user' = [user EXCEPT !.reauth = TRUE]
    /\ IF call[c].pc = "refused" THEN Goto(c, "mark") ELSE End(c)
    /\ UNCHANGED <<cred, cache, google, calendars>>

-----------------------------------------------------------------------------
(* Requests to the calendar API.                                           *)

(* getEncryptedCredential finds none.                                      *)
NoCredential == cred = 0

(* A mutant: a process trusts the token it has, and a locked credential is *)
(* an error like another.                                                  *)
TokenSilently(c) ==
    /\ call[c].pc = "token"
    /\ call' = [call EXCEPT ![c] =
          IF cache[Home(c)] # 0 THEN [@ EXCEPT !.pc = "request", !.token = cache[Home(c)]]
          ELSE IF NoCredential \/ cred \in locked THEN NoCall
          ELSE [@ EXCEPT !.pc = "exchange", !.token = cred]]
    /\ UNCHANGED <<user, cred, cache, google, calendars>>

(* accessToken: the one the process keeps, else one for the credential.    *)
Token(c) ==
    /\ call[c].pc = "token"
    /\ call' = [call EXCEPT ![c] =
          IF cache[Home(c)] # 0 THEN [@ EXCEPT !.pc = "request", !.token = cache[Home(c)]]
          ELSE IF NoCredential THEN NoCall
          ELSE IF cred \in locked THEN [@ EXCEPT !.pc = "mark"]
          ELSE [@ EXCEPT !.pc = "exchange", !.token = cred]]
    /\ UNCHANGED <<user, cred, cache, google, calendars>>

(* With the calendar at hand an onboarding completes and a sync goes on to *)
(* the events.                                                             *)
HasCalendar(c) == IF c \in Onboardings THEN Goto(c, "complete") ELSE End(c)

(* A mutant: any answer but 200 counts as "the calendar is gone".          *)
CheckByStatus(c) ==
    /\ call[c].pc = "request" /\ call[c].want = "check"
    /\ IF Dead(call[c].token) THEN Ask(c, "create")
       ELSE IF call[c].read \in cals THEN HasCalendar(c)
       ELSE Ask(c, "create")
    /\ UNCHANGED <<user, cred, cache, google, calendars>>

(* ensureCalendar looks for the calendar of the User row it was given.     *)
(* 401 is an error like another: nobody is asked to connect again.         *)
Check(c) ==
    /\ call[c].pc = "request" /\ call[c].want = "check"
    /\ IF Dead(call[c].token) THEN End(c)
       ELSE IF call[c].read \in cals THEN HasCalendar(c)
       ELSE Ask(c, "create")
    /\ UNCHANGED <<user, cred, cache, google, calendars>>

(* ensureCalendar creates one, or Google refuses; the answer may get lost. *)
Create(c) ==
    /\ call[c].pc = "request" /\ call[c].want = "create"
    /\ \/ /\ ~Dead(call[c].token) /\ made < MaxCalendar
          /\ made' = made + 1 /\ cals' = cals \cup {made'}
          /\ \/ /\ call' = [call EXCEPT ![c].pc = "keep", ![c].made = made']
                /\ UNCHANGED astray
             \/ End(c) /\ astray' = astray \cup {made'}
       \/ End(c) /\ UNCHANGED calendars
    /\ UNCHANGED <<user, cred, cache, google>>

(* What a write of calendarId leaves behind without having read it.        *)
Overwritten(c, id) == {user.calendar} \ {0, call[c].read, id}

(* setCalendarId, at the end of ensureCalendar.                            *)
Keep(c) ==
    /\ call[c].pc = "keep"
    /\ user' = [user EXCEPT !.calendar = call[c].made]
    /\ astray' = astray \cup Overwritten(c, call[c].made)
    /\ IF c \in Onboardings
          THEN call' = [call EXCEPT ![c] =
                   [@ EXCEPT !.pc = "complete", !.read = call[c].made, !.made = 0]]
          ELSE End(c)
    /\ UNCHANGED <<cred, cache, google, cals, made>>

(* completeOnboarding; then retryCalendarCleanup, if there are tasks.      *)
Complete(o) ==
    /\ call[o].pc = "complete"
    /\ cred' = call[o].own
    /\ user' = [calendar |-> call[o].read, reauth |-> FALSE, done |-> TRUE]
    /\ astray' = astray \cup Overwritten(o, call[o].read)
    /\ End(o) \/ Ask(o, "delete")
    /\ UNCHANGED <<cache, google, cals, made>>

(* deleteManagedEvent takes 401 for a lost grant, and so it does 403, but  *)
(* for the limits of rates and quotas: whatever else Google forbids, or    *)
(* says in a body nobody can read (rejectAuthorizationFailure).            *)
Delete(c) ==
    /\ call[c].pc = "request" /\ call[c].want = "delete"
    /\ IF Dead(call[c].token) THEN Goto(c, "mark") /\ UNCHANGED denied
       ELSE \/ End(c) /\ UNCHANGED denied
            \/ Goto(c, "mark") /\ denied' = TRUE
    /\ UNCHANGED <<user, cred, cache, grants, locked, calendars>>

-----------------------------------------------------------------------------
(* The worker.                                                             *)

(* A sync that has come to its calendar part, and a cleanup task: both     *)
(* skip a user who has to connect again.  Syncs before the first           *)
(* onboarding is complete are left to AccountDeletion.                     *)
Work(w) ==
    /\ call[w].pc = "idle" /\ user.done /\ ~user.reauth
    /\ \E want \in {IF user.calendar # 0 THEN "check" ELSE "create", "delete"} :
          call' = [call EXCEPT ![w] =
              [NoCall EXCEPT !.pc = "token", !.want = want, !.read = user.calendar]]
    /\ UNCHANGED <<user, cred, cache, google, calendars>>

(* A mutant: an exchange that keeps failing counts as a lost grant.        *)
FailForGood(c) ==
    /\ call[c].pc # "idle"
    /\ IF call[c].pc = "exchange" THEN Goto(c, "mark") ELSE End(c)
    /\ astray' = astray \cup ({call[c].made} \ {0})
    /\ UNCHANGED <<user, cred, cache, google, cals, made>>

(* A call fails (time-out, 429, 5xx after three attempts) or is cut off.   *)
Fail(c) ==
    /\ call[c].pc # "idle"
    /\ End(c)
    /\ astray' = astray \cup ({call[c].made} \ {0})
    /\ UNCHANGED <<user, cred, cache, google, cals, made>>

(* An access token gets old, or its process ends.                          *)
Expire(p) ==
    /\ cache[p] # 0
    /\ cache' = [cache EXCEPT ![p] = 0]
    /\ UNCHANGED <<user, cred, call, google, calendars>>

(* The user takes the access of the application back: all grants end.      *)
Revoke ==
    /\ \E g \in DOMAIN grants : grants[g] \in {"full", "partial"}
    /\ grants' = [g \in DOMAIN grants |-> IF grants[g] = "none" THEN "none" ELSE "revoked"]
    /\ UNCHANGED <<user, cred, cache, call, locked, denied, calendars>>

(* The key of the stored credential leaves TOKEN_ENCRYPTION_KEYS; a request *)
(* that still runs writes with the key it started with.                    *)
LoseKey ==
    /\ cred \notin {0} \cup locked
    /\ locked' = locked \cup {cred}
    /\ UNCHANGED <<user, cred, cache, call, grants, denied, calendars>>

(* The user deletes the calendar.                                          *)
RemoveCalendar ==
    /\ \E k \in cals : cals' = cals \ {k}
    /\ UNCHANGED <<user, cred, cache, call, google, made, astray>>

Onboard(o) == Connect(o) \/ Save(o) \/ Complete(o)
Step(c) == Exchange(c) \/ Mark(c) \/ Token(c) \/ Check(c) \/ Create(c) \/ Keep(c) \/ Delete(c)

Next ==
    \/ \E o \in Onboardings : Onboard(o)
    \/ \E w \in Workers : Work(w)
    \/ \E c \in Calls : Step(c) \/ Fail(c)
    \/ \E p \in Process : Expire(p)
    \/ Revoke \/ LoseKey \/ RemoveCalendar

Spec == Init /\ [][Next]_vars

(* The worker takes up the user every hour, as it does while an active     *)
(* subscription or a cleanup task is there (a user who has paused all of   *)
(* them is not asked before he resumes), tokens get old, and no kind of    *)
(* call fails for ever.                                                    *)
Fairness ==
    /\ \A w \in Workers : WF_vars(Work(w)) /\ SF_vars(Exchange(w)) /\ SF_vars(Mark(w))
                          /\ SF_vars(Token(w)) /\ WF_vars(Step(w))
    /\ \A p \in Process : WF_vars(Expire(p))
FairSpec == Spec /\ Fairness

-----------------------------------------------------------------------------
TypeOK ==
    /\ user \in [calendar : Calendar, reauth : BOOLEAN, done : BOOLEAN]
    /\ cred \in Grant /\ cache \in [Process -> Grant]
    /\ call \in [Calls -> CallState]
    /\ grants \in [1 .. MaxGrant -> {"none", "full", "partial", "revoked"}]
    /\ locked \subseteq 1 .. MaxGrant /\ denied \in BOOLEAN
    /\ made \in Calendar /\ cals \subseteq 1 .. made /\ astray \subseteq 1 .. made

(* A user is asked to connect again only if Google or the gateway turned a *)
(* consent of his down, its key is lost or Google has forbidden a deletion *)
(* for a reason of its own: no outage of Google, no lost answer and no     *)
(* calendar that was deleted cuts him off.                                 *)
FlagHasReason ==
    user.reauth => \/ \E g \in DOMAIN grants : grants[g] \in {"partial", "revoked"}
                   \/ locked # {} \/ denied

(* The user has no second calendar, unless Google's answer was lost, the   *)
(* call ended before its id was stored (a crash, an error of the database) *)
(* or two calls that did not see each other's calendar stored one.         *)
NoSecondCalendar ==
    cals \subseteq {user.calendar} \cup astray \cup {call[c].made : c \in Calls}

Lost == user.done /\ (Dead(cred) \/ cred \in locked)

(* A connection that is lost is noticed, though tokens that were given     *)
(* before work on and the requests of a sync say nothing of it: the user   *)
(* is asked to connect again, or has done so.                              *)
LossIsNoticed == Lost ~> user.reauth \/ ~Lost
=============================================================================
