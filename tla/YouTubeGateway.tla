--------------------------- MODULE YouTubeGateway ---------------------------
(***************************************************************************)
(* Calls to the YouTube Data API under the daily quota: what a handle      *)
(* search, a metadata refresh or the fetch of a channel asks for (search   *)
(* pages, then the videos in batches), and for every attempt of every      *)
(* request the reservation before it and the consumption after it, in the  *)
(* statements of PrismaStore. Callers are invocations of the API and of    *)
(* the workers; they share only the rows of YouTubeQuotaUsage.             *)
(***************************************************************************)
EXTENDS Naturals, FiniteSets

CONSTANTS
    Callers,      \* concurrent invocations that may call YouTube
    Budget,       \* YOUTUBE_DAILY_QUOTA_BUDGET and ..._SEARCH_QUOTA_BUDGET
    Protected,    \* YOUTUBE_SCHEDULED_QUOTA_RESERVE and ..._SEARCH_QUOTA_RESERVE
    SearchPages,  \* YOUTUBE_MAX_SEARCH_PAGES
    Tracked,      \* batches of 50 that the tracked broadcasts of a channel fill
    Attempts,     \* YOUTUBE_API_MAX_ATTEMPTS
    DayStarts,    \* instants at which a day of the quota's time zone begins
    Instants,     \* bound: instants at which something may happen
    Start,        \* the first of them
    Horizon,      \* 30 hours
    FullDay       \* 24 hours

VARIABLES
    clock,   \* clock.now()
    usage,   \* rows of YouTubeQuotaUsage: unitsUsed, unitsReserved by quotaDate and bucket
    call,    \* what each caller is doing
    manual   \* units granted to manual callers today, by bucket (observation)

quotaVars == <<clock, usage, call, manual>>

Buckets == {"GENERAL", "SEARCH"}
Modes == {"MANUAL", "SCHEDULED"}
Unused == [used |-> 0, reserved |-> 0]

(* env.ts refuses to start with a reserve above its budget.                *)
ReserveWithinBudget == \A b \in Buckets : Protected[b] <= Budget[b]

ASSUME QuotaAssumption ==
    /\ IsFiniteSet(Callers)
    /\ Budget \in [Buckets -> Nat] /\ Protected \in [Buckets -> Nat]
    /\ ReserveWithinBudget
    /\ SearchPages \in Nat \ {0} /\ Tracked \in Nat /\ Attempts \in Nat \ {0}
    /\ DayStarts \subseteq Nat /\ Instants \subseteq Nat
    /\ Start \in Instants /\ \A t \in Instants : Start <= t
    /\ \A t \in Instants : \E d \in DayStarts : d <= t /\ \A e \in DayStarts : e <= t => e <= d
    /\ Horizon \in Nat /\ FullDay \in Nat

(* Days end. One of any time zone ends within 25 hours; the loop looks for *)
(* the end of a longer one as well, here for two days more.                *)
ASSUME DaysEndAssumption ==
    \A t \in Instants : \E d \in DayStarts : t < d /\ d <= t + Horizon + 2 * FullDay

-----------------------------------------------------------------------------
(* The day of the quota.                                                   *)

(* quotaDateAt: the date of an instant, named by the instant it begins.    *)
DateAt(t) == CHOOSE d \in DayStarts : d <= t /\ \A e \in DayStarts : e <= t => e <= d

(* A mutant: the bisection starts too early to reach the next day.         *)
ShortBisection(t) == t + Horizon

(* Halving the interval whose ends have different dates, until nothing is  *)
(* between them.                                                           *)
Bisection(t, end) ==
    LET span == t .. end
        reset[i \in span \X span] ==
            LET low == i[1]
                high == i[2]
                middle == (low + high) \div 2
            IN  IF high - low <= 1 THEN high
                ELSE IF DateAt(middle) = DateAt(t) THEN reset[<<middle, high>>]
                ELSE reset[<<low, middle>>]
    IN  reset[<<t, end>>]

(* nextQuotaResetAt: 30 hours on, then days more until the date differs.   *)
NextReset(t) ==
    LET Later(k) == t + Horizon + k * FullDay
        days == CHOOSE k \in 0 .. 2 : /\ DateAt(Later(k)) # DateAt(t)
                                      /\ \A j \in 0 .. (k - 1) : DateAt(Later(j)) = DateAt(t)
    IN  Bisection(t, Later(days))

-----------------------------------------------------------------------------
(* Callers.                                                                *)

Stages == {"channels", "search", "videos", "tracked"}
BucketOf(stage) == IF stage = "search" THEN "SEARCH" ELSE "GENERAL"

NoCall == [pc |-> "idle", mode |-> "MANUAL", stage |-> "channels", left |-> 0, pages |-> 0,
           attempt |-> 0, at |-> Start, spent |-> [b \in Buckets |-> 0]]

(* resolveHandle and resolveChannelId start with "channels", listUpcoming  *)
(* with "search".                                                          *)
Begin(c, mode, stage) ==
    call' = [call EXCEPT ![c] = [NoCall EXCEPT !.pc = "reserve", !.mode = mode, !.stage = stage]]

(* The next request of a call, for a stage of which n batches are left.    *)
Ask(k, stage, n) ==
    [k EXCEPT !.pc = "reserve", !.stage = stage, !.left = n, !.pages = 0, !.attempt = 0, !.at = Start]
Done == [NoCall EXCEPT !.pc = "done"]
Failed == [NoCall EXCEPT !.pc = "failed"]

(* The requests that may follow an answered one. A page of search may name *)
(* another, and it holds up to 50 ids; no ids means no videos to ask for.  *)
Following(k) ==
    LET Refresh(n) == IF n = 0 THEN Done ELSE Ask(k, "tracked", n)
        refreshes == {Refresh(n) : n \in 0 .. Tracked}
        nextPage == [Ask(k, "search", 0) EXCEPT !.pages = k.pages + 1]
    IN  CASE k.stage = "channels" -> {Done}
          [] k.stage = "search" ->
               (IF k.pages + 1 < SearchPages THEN {nextPage} ELSE {})
               \cup {Ask(k, "videos", n) : n \in 1 .. (k.pages + 1)} \cup refreshes
          [] k.stage = "videos" -> IF k.left > 1 THEN {Ask(k, "videos", k.left - 1)} ELSE refreshes
          [] k.stage = "tracked" -> {Refresh(k.left - 1)}

(* A mutant: the unit is looked for on the day of the answer.              *)
DateOfAnswer(c) == DateAt(clock)

(* The day a call's reservation was made for.                              *)
DateOf(c) == DateAt(call[c].at)
BucketFor(c) == BucketOf(call[c].stage)

Limit(b, mode) == IF mode = "MANUAL" THEN Budget[b] - Protected[b] ELSE Budget[b]

(* A mutant: units that are only reserved do not count.                    *)
GrantedByUsed(c) ==
    usage[DateAt(clock)][BucketFor(c)].used + 1 <= Limit(BucketFor(c), call[c].mode)

(* A mutant: manual callers may use the protected part as well.            *)
GrantedToAll(c) ==
    LET u == usage[DateAt(clock)][BucketFor(c)] IN u.used + u.reserved + 1 <= Budget[BucketFor(c)]

(* The condition of the UPDATE, for the date of the clock as it was read.  *)
Granted(c) ==
    LET u == usage[DateAt(clock)][BucketFor(c)] IN
    u.used + u.reserved + 1 <= Limit(BucketFor(c), call[c].mode)

Grant(c, k) ==
    LET d == DateAt(clock) b == BucketFor(c) IN
    /\ usage' = [usage EXCEPT ![d][b] = [used |-> @.used, reserved |-> @.reserved + 1]]
    /\ manual' = IF call[c].mode = "MANUAL" THEN [manual EXCEPT ![b] = @ + 1] ELSE manual
    /\ call' = [call EXCEPT ![c] = k]
    /\ UNCHANGED clock

(* reserve: the clock, INSERT ... ON CONFLICT DO NOTHING, then the         *)
(* conditional UPDATE; the SELECT after them only feeds the log. The row   *)
(* is never deleted, so the first statement needs no step of its own, and  *)
(* time that passes before the second is time that passes before Send.     *)
ReserveUnit(c) ==
    /\ call[c].pc = "reserve" /\ Granted(c)
    /\ Grant(c, [call[c] EXCEPT !.pc = "send", !.at = clock, !.spent[BucketFor(c)] = @ + 1])

(* Not granted: YOUTUBE_QUOTA_DEFERRED with the next reset as nextRetryAt. *)
Refuse(c) ==
    /\ call[c].pc = "reserve" /\ ~ Granted(c)
    /\ call' = [call EXCEPT ![c].pc = "deferred", ![c].at = clock]
    /\ UNCHANGED <<clock, usage, manual>>

(* The request leaves; YouTube counts it on the day it is by then.         *)
Send(c) ==
    /\ call[c].pc = "send"
    /\ call' = [call EXCEPT ![c].pc = "sent"]
    /\ UNCHANGED <<clock, usage, manual>>

(* What the caller does with an answer or with the lack of one.            *)
Retried(k) == [k EXCEPT !.pc = "reserve", !.attempt = @ + 1, !.at = Start]

(* A mutant: the attempt is not counted.                                   *)
AfterAnswerForever(k) == Following(k) \cup {Failed, [k EXCEPT !.pc = "reserve"]}

AfterAnswer(k) ==
    Following(k) \cup {Failed}
    \cup (IF k.attempt + 1 < Attempts THEN {Retried(k)} ELSE {})

(* consumeYouTubeQuota after any answer, error or timeout; without the     *)
(* reservation it throws.                                                  *)
ConsumeUnit(c) ==
    LET d == DateOf(c) b == BucketFor(c) IN
    /\ call[c].pc = "sent" /\ usage[d][b].reserved >= 1
    /\ usage' = [usage EXCEPT ![d][b] = [used |-> @.used + 1, reserved |-> @.reserved - 1]]
    /\ \E next \in AfterAnswer(call[c]) : call' = [call EXCEPT ![c] = next]
    /\ UNCHANGED <<clock, manual>>

NotReserved(c) ==
    /\ call[c].pc = "sent" /\ usage[DateOf(c)][BucketFor(c)].reserved = 0
    /\ call' = [call EXCEPT ![c] = Failed]
    /\ UNCHANGED <<clock, usage, manual>>

(* The database refuses a statement, or does it and the answer is lost.    *)
StatementFails(c) ==
    \/ /\ call[c].pc \in {"reserve", "sent"}
       /\ call' = [call EXCEPT ![c] = Failed]
       /\ UNCHANGED <<clock, usage, manual>>
    \/ call[c].pc = "reserve" /\ Granted(c) /\ Grant(c, Failed)

(* The process dies; what it reserved stays reserved.                      *)
Crash(c) ==
    /\ call[c].pc \in {"reserve", "send", "sent"}
    /\ call' = [call EXCEPT ![c] = NoCall]
    /\ UNCHANGED <<clock, usage, manual>>

(* Time passes; at midnight the observation of the day starts again.       *)
Tick ==
    /\ \E t \in Instants : t > clock /\ (\A s \in Instants : s > clock => t <= s) /\ clock' = t
    /\ manual' = IF DateAt(clock') = DateAt(clock) THEN manual ELSE [b \in Buckets |-> 0]
    /\ UNCHANGED <<usage, call>>

CallStep(c) ==
    \/ ReserveUnit(c) \/ Refuse(c) \/ Send(c) \/ ConsumeUnit(c) \/ NotReserved(c)

QuotaInit ==
    /\ clock = Start
    /\ usage = [d \in DayStarts |-> [b \in Buckets |-> Unused]]
    /\ call = [c \in Callers |-> NoCall]
    /\ manual = [b \in Buckets |-> 0]

-----------------------------------------------------------------------------
Call == [pc : {"idle", "reserve", "send", "sent", "done", "deferred", "failed"},
         mode : Modes, stage : Stages, left : Nat, pages : Nat, attempt : Nat,
         at : Instants, spent : [Buckets -> Nat]]

QuotaTypeOK ==
    /\ clock \in Instants
    /\ usage \in [DayStarts -> [Buckets -> [used : Nat, reserved : Nat]]]
    /\ call \in [Callers -> Call]
    /\ manual \in [Buckets -> Nat]

(* No day's units exceed the budget, and manual callers never fill more    *)
(* than their part, however reservations, crashes and retries interleave.  *)
(* So the reserve does what env.ts and synchronization.md have it for: a   *)
(* scheduled request is refused only on a day on which scheduled callers   *)
(* have been granted all of the protected part themselves.                 *)
WithinBudget ==
    /\ \A b \in Buckets :
          /\ \A d \in DayStarts : usage[d][b].used + usage[d][b].reserved <= Budget[b]
          /\ manual[b] <= Budget[b] - Protected[b]
    /\ \A c \in Callers :
          call[c].pc = "deferred" /\ call[c].mode = "SCHEDULED" /\ DateOf(c) = DateAt(clock) =>
              LET b == BucketFor(c) IN
              (usage[DateOf(c)][b].used + usage[DateOf(c)][b].reserved) - manual[b] >= Protected[b]

(* consumeYouTubeQuota never misses its reservation: whoever is about to   *)
(* send or has sent a request still has its unit in unitsReserved.         *)
Holding(d, b) ==
    {c \in Callers : call[c].pc \in {"send", "sent"} /\ DateOf(c) = d /\ BucketFor(c) = b}
ReservationKept ==
    \A d \in DayStarts, b \in Buckets : Cardinality(Holding(d, b)) <= usage[d][b].reserved

(* nextRetryAt of a refused request is the first instant of the next day,  *)
(* on days of 23, 24 and 25 hours alike.                                   *)
RetryAtReset ==
    \A c \in Callers : call[c].pc = "deferred" =>
        LET reset == NextReset(call[c].at) IN
        DateAt(reset) = reset /\ DateAt(reset - 1) = DateOf(c)

(* calculateYouTubeDailyQuotaBounds, for one channel in one run.           *)
SearchBound == SearchPages * Attempts
GeneralBound == (SearchPages + Tracked) * Attempts

(* The bounds env.ts compares the reserve with hold for what the gateway   *)
(* does: pages, batches and attempts of a fetch take no more units.        *)
SpentWithinBounds ==
    \A c \in Callers :
        call[c].spent["SEARCH"] <= SearchBound /\ call[c].spent["GENERAL"] <= GeneralBound

(* The statements of PrismaStore implement the ledger that MemoryStore is: *)
(* every change of the counts is an atomic reservation or consumption.     *)
Ledger == INSTANCE QuotaLedger WITH Dates <- DayStarts
ImplementsLedger == Ledger!LedgerSpec
=============================================================================
