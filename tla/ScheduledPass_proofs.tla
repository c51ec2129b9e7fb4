------------------------ MODULE ScheduledPass_proofs ------------------------
(***************************************************************************)
(* Proofs about ScheduledPass and the YouTubeGateway it runs on, for any   *)
(* callers, budgets, days, pages and faults: the types of the state, that  *)
(* no day exceeds its budget and the reserve is kept, that a reservation   *)
(* is there when it is consumed, that the statements of the store          *)
(* implement the ledger, that a call stays within the units counted for    *)
(* it, and that the search for the next reset of the quota finds it.       *)
(***************************************************************************)
EXTENDS ScheduledPass, FiniteSetTheorems, WellFoundedInduction, TLAPS

Today == DateAt(clock)
Sum(d, b) == usage[d][b].used + usage[d][b].reserved

(* What the counters of a day tell about the units of manual callers, when *)
(* a call was refused, and what a call has left.                           *)
Tight == \A b \in Buckets : manual[b] <= Sum(Today, b)
CallOK(k) ==
    /\ k.stage = "tracked" => k.left > 0
    /\ k.pc \in {"deferred"} => k.at <= clock

QInv ==
    /\ QuotaTypeOK /\ WithinBudget /\ ReservationKept /\ Tight
    /\ \A c \in Callers : CallOK(call[c])

Usage == [DayStarts -> [Buckets -> [used : Nat, reserved : Nat]]]

-----------------------------------------------------------------------------
(* Days.                                                                   *)

LEMMA DateType ==
    ASSUME NEW t \in Instants
    PROVE  /\ t \in Nat /\ DateAt(t) \in DayStarts /\ DateAt(t) \in Nat /\ DateAt(t) <= t
           /\ \A e \in DayStarts : e <= t => e <= DateAt(t)
<1>1. \E d \in DayStarts : d <= t /\ \A e \in DayStarts : e <= t => e <= d
  BY QuotaAssumption
<1>2. DateAt(t) \in DayStarts /\ DateAt(t) <= t /\ \A e \in DayStarts : e <= t => e <= DateAt(t)
  BY <1>1 DEF DateAt
<1>3. QED
  BY <1>2, QuotaAssumption

(* A later instant is on the same day or a later one, and a day that is    *)
(* over does not come back.                                                *)
LEMMA DateMonotone ==
    ASSUME NEW r \in Instants, NEW s \in Instants, NEW t \in Instants, r <= s, s <= t,
           DateAt(r) = DateAt(t)
    PROVE  DateAt(s) = DateAt(t)
<1>1. DateAt(r) <= DateAt(s) /\ DateAt(s) <= DateAt(t)
  BY DateType
<1>2. QED
  BY <1>1, DateType

-----------------------------------------------------------------------------
(* Records.                                                                *)

LEMMA NoCallType ==
    /\ NoCall \in Call /\ Done \in Call /\ Failed \in Call
    /\ CallOK(NoCall) /\ CallOK(Done) /\ CallOK(Failed)
    /\ NoCall.pc = "idle" /\ Done.pc = "done" /\ Failed.pc = "failed"
<1>1. NoCall \in Call
  BY QuotaAssumption DEF NoCall, Call, Modes, Stages
<1>2. Done \in Call /\ Failed \in Call
  BY <1>1 DEF Done, Failed, Call
<1>3. QED
  BY <1>1, <1>2 DEF NoCall, Done, Failed, CallOK, Call

LEMMA AskType ==
    ASSUME NEW k \in Call, NEW stage \in Stages, NEW n \in Nat
    PROVE  /\ Ask(k, stage, n) \in Call
           /\ Ask(k, stage, n).pc = "reserve" /\ Ask(k, stage, n).stage = stage
           /\ Ask(k, stage, n).left = n
  BY QuotaAssumption DEF Ask, Call

LEMMA RetriedType ==
    ASSUME NEW k \in Call
    PROVE  /\ Retried(k) \in Call /\ Retried(k).pc = "reserve"
           /\ Retried(k).stage = k.stage /\ Retried(k).left = k.left
<1>1. Start \in Instants
  BY QuotaAssumption
<1>2. k.attempt + 1 \in Nat
  BY DEF Call
<1>3. Retried(k) = [k EXCEPT !.pc = "reserve", !.attempt = k.attempt + 1, !.at = Start]
  BY DEF Retried
<1> DEFINE n == k.attempt + 1
<1> HIDE DEF n
<1>4. n \in Nat
  BY <1>2 DEF n
<1>5. LET r == [k EXCEPT !.pc = "reserve", !.attempt = n, !.at = Start] IN
      r \in Call /\ r.pc = "reserve" /\ r.stage = k.stage /\ r.left = k.left
  BY <1>1, <1>4 DEF Call
<1>6. QED
  BY <1>3, <1>5 DEF n

LEMMA AfterAnswerType ==
    ASSUME NEW k \in Call, CallOK(k), NEW next \in AfterAnswer(k)
    PROVE  next \in Call /\ CallOK(next) /\ next.pc \in {"reserve", "done", "failed"}
<1> DEFINE Refresh(n) == IF n = 0 THEN Done ELSE Ask(k, "tracked", n)
           refreshes == {Refresh(n) : n \in 0 .. Tracked}
           nextPage == [Ask(k, "search", 0) EXCEPT !.pages = k.pages + 1]
           Good(x) == x \in Call /\ CallOK(x) /\ x.pc \in {"reserve", "done", "failed"}
<1>1. Good(Done) /\ Good(Failed)
  BY NoCallType
<1>2. ASSUME NEW n \in Nat PROVE Good(Refresh(n))
  <2>1. CASE n = 0
    BY <1>1, <2>1
  <2>2. CASE n # 0
    <3>1. "tracked" \in Stages
      BY DEF Stages
    <3>2. /\ Ask(k, "tracked", n) \in Call /\ Ask(k, "tracked", n).pc = "reserve"
          /\ Ask(k, "tracked", n).left = n
      BY <3>1, AskType
    <3>3. Good(Ask(k, "tracked", n))
      BY <2>2, <3>2 DEF CallOK
    <3>4. QED
      BY <2>2, <3>3
  <2>3. QED
    BY <2>1, <2>2
<1>3. \A x \in refreshes : Good(x)
  BY <1>2, QuotaAssumption
<1>4. Good(nextPage)
  <2>1. Ask(k, "search", 0) \in Call /\ k.pages + 1 \in Nat
    <3>1. "search" \in Stages
      BY DEF Stages
    <3>2. k.pages \in Nat
      BY DEF Call
    <3>3. Ask(k, "search", 0) \in Call
      BY <3>1, AskType
    <3>4. QED
      BY <3>2, <3>3
  <2>2. nextPage \in Call /\ nextPage.pc = "reserve" /\ nextPage.stage = "search"
    <3>1. "search" \in Stages
      BY DEF Stages
    <3>2. Ask(k, "search", 0).pc = "reserve" /\ Ask(k, "search", 0).stage = "search"
      BY <3>1, AskType
    <3> DEFINE a == Ask(k, "search", 0)
    <3>3. a \in Call /\ a.pc = "reserve" /\ a.stage = "search"
      BY <2>1, <3>2
    <3> HIDE DEF a
    <3>4. /\ [a EXCEPT !.pages = k.pages + 1] \in Call
          /\ [a EXCEPT !.pages = k.pages + 1].pc = "reserve"
          /\ [a EXCEPT !.pages = k.pages + 1].stage = "search"
      BY <2>1, <3>3 DEF Call
    <3>5. QED
      BY <3>4 DEF a
  <2>3. QED
    BY <2>2 DEF CallOK
<1>5. ASSUME NEW n \in Nat PROVE Good(Ask(k, "videos", n))
  <2>1. "videos" \in Stages
    BY DEF Stages
  <2>2. /\ Ask(k, "videos", n) \in Call /\ Ask(k, "videos", n).pc = "reserve"
        /\ Ask(k, "videos", n).stage = "videos"
    BY <2>1, AskType
  <2>3. QED
    BY <2>2 DEF CallOK
<1>6. Good(Retried(k))
  <2>1. Retried(k) \in Call /\ Retried(k).pc = "reserve" /\ Retried(k).stage = k.stage
        /\ Retried(k).left = k.left
    BY RetriedType
  <2>2. QED
    BY <2>1 DEF CallOK
<1>7. ASSUME next \in Following(k) PROVE Good(next)
  <2>1. k.stage \in Stages /\ k.left \in Nat /\ k.pages \in Nat
    BY DEF Call
  <2>2. CASE k.stage = "channels"
    <3>1. Following(k) = {Done}
      BY <2>2 DEF Following
    <3>2. QED
      BY <1>1, <1>7, <3>1
  <2>3. CASE k.stage = "search"
    <3>1. next = nextPage \/ next \in {Ask(k, "videos", n) : n \in 1 .. (k.pages + 1)}
            \/ next \in refreshes
      BY <1>7, <2>3 DEF Following
    <3> HIDE DEF refreshes, nextPage, Good
    <3>2. ASSUME next \in {Ask(k, "videos", n) : n \in 1 .. (k.pages + 1)} PROVE Good(next)
      BY <1>5, <2>1, <3>2
    <3>3. QED
      BY <1>3, <1>4, <3>1, <3>2
  <2>4. CASE k.stage = "videos"
    <3>1. \/ k.left > 1 /\ next = Ask(k, "videos", k.left - 1)
          \/ next \in refreshes
      BY <1>7, <2>4 DEF Following
    <3>2. k.left > 1 => k.left - 1 \in Nat
      BY <2>1
    <3> HIDE DEF refreshes, nextPage, Good
    <3>3. QED
      BY <1>3, <1>5, <3>1, <3>2
  <2>5. CASE k.stage = "tracked"
    <3>1. next = Refresh(k.left - 1)
      BY <1>7, <2>5 DEF Following
    <3>2. k.left - 1 \in Nat
      BY <2>1, <2>5 DEF CallOK
    <3> HIDE DEF Refresh, Good
    <3>3. QED
      BY <1>2, <3>1, <3>2
  <2>6. QED
    BY <2>1, <2>2, <2>3, <2>4, <2>5 DEF Stages
<1>8. next \in Following(k) \/ next = Failed \/ next = Retried(k)
  BY DEF AfterAnswer
<1> HIDE DEF Good
<1>9. Good(next)
  BY <1>1, <1>6, <1>7, <1>8
<1>10. QED
  BY <1>9 DEF Good

LEMMA Types ==
    ASSUME QInv
    PROVE  /\ usage \in Usage /\ call \in [Callers -> Call] /\ clock \in Instants /\ clock \in Nat
           /\ manual \in [Buckets -> Nat] /\ Today \in DayStarts
           /\ \A d \in DayStarts, b \in Buckets :
                 /\ usage[d][b] \in [used : Nat, reserved : Nat] /\ Sum(d, b) \in Nat
                 /\ usage[d][b].used \in Nat /\ usage[d][b].reserved \in Nat
           /\ \A b \in Buckets : Budget[b] \in Nat /\ Protected[b] \in Nat
                                 /\ Protected[b] <= Budget[b] /\ manual[b] \in Nat
           /\ \A c \in Callers : /\ BucketFor(c) \in Buckets /\ DateOf(c) \in DayStarts
                                 /\ call[c] \in Call /\ call[c].at \in Instants /\ call[c].mode \in Modes
<1>1. /\ usage \in Usage /\ call \in [Callers -> Call] /\ clock \in Instants
      /\ manual \in [Buckets -> Nat]
  BY DEF QInv, QuotaTypeOK, Usage
<1>2. clock \in Nat /\ Today \in DayStarts
  BY <1>1, DateType DEF Today
<1>3. ASSUME NEW d \in DayStarts, NEW b \in Buckets
      PROVE  /\ usage[d][b] \in [used : Nat, reserved : Nat] /\ Sum(d, b) \in Nat
             /\ usage[d][b].used \in Nat /\ usage[d][b].reserved \in Nat
  BY <1>1 DEF Usage, Sum
<1>4. \A b \in Buckets : Budget[b] \in Nat /\ Protected[b] \in Nat
                         /\ Protected[b] <= Budget[b] /\ manual[b] \in Nat
  BY <1>1, QuotaAssumption DEF ReserveWithinBudget
<1>5. ASSUME NEW c \in Callers
      PROVE  /\ BucketFor(c) \in Buckets /\ DateOf(c) \in DayStarts
             /\ call[c] \in Call /\ call[c].at \in Instants /\ call[c].mode \in Modes
  <2>1. call[c] \in Call /\ call[c].at \in Instants /\ call[c].mode \in Modes
    BY <1>1 DEF Call
  <2>2. QED
    BY <2>1, DateType DEF BucketFor, BucketOf, Buckets, DateOf
<1>6. QED
  BY <1>1, <1>2, <1>3, <1>4, <1>5
-----------------------------------------------------------------------------
(* Steps. A caller's new place is k; a call that was refused, or that      *)
(* holds a unit, is described by its own record.                           *)

HoldsFor(k, d, b) == k.pc \in {"send", "sent"} /\ DateAt(k.at) = d /\ BucketOf(k.stage) = b

RefusedFairly(k) ==
    k.pc = "deferred" /\ k.mode = "SCHEDULED" /\ DateAt(k.at) = Today =>
        Sum(Today, BucketOf(k.stage)) - manual[BucketOf(k.stage)] >= Protected[BucketOf(k.stage)]

Counted ==
    \A b \in Buckets :
        /\ \A d \in DayStarts : Sum(d, b) <= Budget[b]
        /\ manual[b] <= Budget[b] - Protected[b] /\ manual[b] <= Sum(Today, b)

FairRefusals == \A c \in Callers : RefusedFairly(call[c])

LEMMA Parts ==
    /\ (WithinBudget /\ Tight) <=> (Counted /\ FairRefusals)
    /\ (WithinBudget /\ Tight)' <=> (Counted /\ FairRefusals)'
<1>1. Counted <=> /\ \A b \in Buckets :
                        /\ \A d \in DayStarts : usage[d][b].used + usage[d][b].reserved <= Budget[b]
                        /\ manual[b] <= Budget[b] - Protected[b]
                  /\ Tight
  BY DEF Counted, Tight, Sum
<1>2. ASSUME NEW c \in Callers
      PROVE  RefusedFairly(call[c]) <=>
               (call[c].pc = "deferred" /\ call[c].mode = "SCHEDULED" /\ DateOf(c) = DateAt(clock) =>
                  (usage[DateOf(c)][BucketFor(c)].used + usage[DateOf(c)][BucketFor(c)].reserved)
                    - manual[BucketFor(c)] >= Protected[BucketFor(c)])
  <2>1. DateOf(c) = DateAt(call[c].at) /\ BucketFor(c) = BucketOf(call[c].stage)
    BY DEF DateOf, BucketFor
  <2>2. CASE DateOf(c) = Today
    BY <2>1, <2>2 DEF RefusedFairly, Sum, Today
  <2>3. CASE DateOf(c) # Today
    BY <2>1, <2>3 DEF RefusedFairly, Today
  <2>4. QED
    BY <2>2, <2>3
<1>3. WithinBudget => FairRefusals
  BY <1>2 DEF WithinBudget, FairRefusals
<1>4. WithinBudget /\ Tight => Counted
  BY <1>1 DEF WithinBudget
<1>5. Counted => Tight
  BY <1>1
<1>6. Counted /\ FairRefusals => WithinBudget
  BY <1>1, <1>2 DEF WithinBudget, FairRefusals
<1>7. (WithinBudget /\ Tight) <=> (Counted /\ FairRefusals)
  BY <1>3, <1>4, <1>5, <1>6
<1>8. QED
  BY <1>7, PTL

LEMMA HoldingIs ==
    ASSUME NEW d \in DayStarts, NEW b \in Buckets
    PROVE  /\ Holding(d, b) = {x \in Callers : HoldsFor(call[x], d, b)}
           /\ Holding(d, b)' = {x \in Callers : HoldsFor(call'[x], d, b)}
           /\ IsFiniteSet(Holding(d, b))
<1>1. Holding(d, b) = {x \in Callers : HoldsFor(call[x], d, b)}
  BY DEF Holding, HoldsFor, DateOf, BucketFor
<1>2. Holding(d, b)' = {x \in Callers : HoldsFor(call'[x], d, b)}
  BY DEF Holding, HoldsFor, DateOf, BucketFor
<1>3. IsFiniteSet(Holding(d, b))
  BY <1>1, QuotaAssumption, FS_Subset
<1>4. QED
  BY <1>1, <1>2, <1>3

(* What a step of caller c owes: counts within their bounds, no less left  *)
(* of what scheduled callers took, and a unit for every holder.            *)
LEMMA CallerStep ==
    ASSUME QInv, NEW c \in Callers, NEW k \in Call, CallOK(k),
           call' = [call EXCEPT ![c] = k], clock' = clock,
           usage' \in Usage, manual' \in [Buckets -> Nat], Counted',
           \A b \in Buckets : Sum(Today, b)' - manual'[b] >= Sum(Today, b) - manual[b],
           ReservationKept', RefusedFairly(k)'
    PROVE  QInv'
<1>1. call' \in [Callers -> Call] /\ \A x \in Callers : call'[x] = IF x = c THEN k ELSE call[x]
  BY Types
<1>2. QuotaTypeOK'
  BY <1>1, Types DEF QuotaTypeOK, Usage
<1>3. Today' = Today
  BY DEF Today, DateAt
<1>4. ASSUME NEW x \in Callers PROVE RefusedFairly(call[x])' /\ CallOK(call[x])'
  <2>1. CASE x = c
    BY <1>1, <2>1 DEF CallOK, RefusedFairly
  <2>2. CASE x # c
    <3>1. call'[x] = call[x] /\ call[x] \in Call /\ BucketOf(call[x].stage) \in Buckets
      BY <1>1, <2>2, Types DEF BucketFor
    <3>2. CallOK(call[x])'
      BY <3>1 DEF CallOK, QInv
    <3>3. RefusedFairly(call[x])
      BY Parts DEF QInv, FairRefusals
    <3>0. PICK b \in Buckets : b = BucketOf(call[x].stage)
      BY <3>1
    <3>4. Sum(Today, b)' - manual'[b] >= Sum(Today, b) - manual[b]
      BY <3>1
    <3>5. /\ Sum(Today, b)' \in Nat /\ manual'[b] \in Nat /\ Sum(Today, b) \in Nat
          /\ manual[b] \in Nat /\ Protected[b] \in Nat
      <4>1. \A d \in DayStarts, a \in Buckets : usage'[d][a] \in [used : Nat, reserved : Nat]
        BY DEF Usage
      <4>2. Today \in DayStarts /\ b \in Buckets /\ Sum(Today, b) \in Nat
        BY <3>1, Types
      <4>3. usage'[Today][b] \in [used : Nat, reserved : Nat]
        BY <4>1, <4>2
      <4>4. Sum(Today, b)' \in Nat
        BY <1>3, <4>3 DEF Sum
      <4>5. manual'[b] \in Nat /\ manual[b] \in Nat /\ Protected[b] \in Nat
        BY <4>2, Types
      <4>6. QED
        BY <4>2, <4>4, <4>5
    <3>6. RefusedFairly(call[x])' <=>
            (call[x].pc = "deferred" /\ call[x].mode = "SCHEDULED" /\ DateAt(call[x].at) = Today =>
               Sum(Today, b)' - manual'[b] >= Protected[b])
      BY <1>3, <3>0, <3>1 DEF RefusedFairly, Sum
    <3>7. Sum(Today, b) - manual[b] >= Protected[b] => Sum(Today, b)' - manual'[b] >= Protected[b]
      BY <3>4, <3>5
    <3>8. QED
      BY <3>0, <3>2, <3>3, <3>6, <3>7 DEF RefusedFairly
  <2>3. QED
    BY <2>1, <2>2
<1>5. (WithinBudget /\ Tight)'
  BY <1>4, Parts DEF FairRefusals
<1>6. QED
  BY <1>2, <1>4, <1>5 DEF QInv

(* A step that leaves the counts alone, of a caller that gets no unit.     *)
LEMMA QuietStep ==
    ASSUME QInv, NEW c \in Callers, NEW k \in Call, CallOK(k),
           call' = [call EXCEPT ![c] = k], UNCHANGED <<clock, usage, manual>>,
           k.pc \in {"send", "sent"} => /\ call[c].pc \in {"send", "sent"}
                                        /\ k.at = call[c].at /\ k.stage = call[c].stage,
           RefusedFairly(k)
    PROVE  QInv'
<1>1. Counted' /\ RefusedFairly(k)' /\ Today' = Today
  <2>1. Today' = Today
    BY DEF Today, DateAt
  <2>2. Counted
    BY Parts DEF QInv, FairRefusals
  <2>3. QED
    BY <2>1, <2>2 DEF Counted, RefusedFairly, Sum
<1>2. \A b \in Buckets : Sum(Today, b)' - manual'[b] >= Sum(Today, b) - manual[b]
  <2> TAKE b \in Buckets
  <2>1. Sum(Today, b)' = Sum(Today, b) /\ manual'[b] = manual[b]
    BY <1>1 DEF Sum
  <2>2. Sum(Today, b) \in Nat /\ manual[b] \in Nat
    BY Types
  <2>3. QED
    BY <2>1, <2>2
<1>3. ReservationKept'
  <2> SUFFICES ASSUME NEW d \in DayStarts, NEW b \in Buckets
               PROVE  Cardinality(Holding(d, b)') <= usage'[d][b].reserved
    BY DEF ReservationKept
  <2>1. \A x \in Callers : call'[x] = IF x = c THEN k ELSE call[x]
    BY Types
  <2>2. Holding(d, b)' \subseteq Holding(d, b)
    BY <2>1, HoldingIs DEF HoldsFor
  <2>3. Cardinality(Holding(d, b)') <= Cardinality(Holding(d, b))
    BY <2>2, HoldingIs, FS_Subset
  <2>4. Cardinality(Holding(d, b)) <= usage[d][b].reserved
    BY DEF QInv, ReservationKept
  <2>5. Cardinality(Holding(d, b)') \in Nat /\ Cardinality(Holding(d, b)) \in Nat
    BY <2>2, HoldingIs, FS_Subset, FS_CardinalityType
  <2>6. QED
    BY <2>3, <2>4, <2>5, Types
<1>4. QED
  BY <1>1, <1>2, <1>3, CallerStep, Types DEF Usage

(* A unit is granted: to a holder, or to a caller that never learns of it. *)
LEMMA GrantStep ==
    ASSUME QInv, NEW c \in Callers, NEW k \in Call, CallOK(k), Granted(c), Grant(c, k),
           k.pc # "deferred",
           k.pc \in {"send", "sent"} => k.at = clock /\ k.stage = call[c].stage
    PROVE  QInv'
<1>0. PICK a \in Buckets, t \in DayStarts : a = BucketFor(c) /\ t = Today
  BY Types
<1>1. a \in Buckets /\ t \in DayStarts /\ usage \in Usage /\ Today' = t
  BY <1>0, Types DEF Grant, Today, DateAt
<1>2. /\ usage' = [usage EXCEPT ![t][a] = [used |-> @.used, reserved |-> @.reserved + 1]]
      /\ manual' = IF call[c].mode = "MANUAL" THEN [manual EXCEPT ![a] = @ + 1] ELSE manual
      /\ call' = [call EXCEPT ![c] = k] /\ clock' = clock
  BY <1>0 DEF Grant, Today
<1>3. Sum(t, a) + 1 <= Limit(a, call[c].mode)
  BY <1>0, Types DEF Granted, Sum, Today
<1>4. /\ usage' \in Usage /\ usage'[t][a].reserved = usage[t][a].reserved + 1
      /\ Sum(t, a)' = Sum(t, a) + 1
      /\ \A d \in DayStarts, b \in Buckets : d # t \/ b # a => usage'[d][b] = usage[d][b]
  <2>1. /\ usage' \in Usage /\ usage'[t][a].used = usage[t][a].used
        /\ usage'[t][a].reserved = usage[t][a].reserved + 1
        /\ \A d \in DayStarts, b \in Buckets : d # t \/ b # a => usage'[d][b] = usage[d][b]
    BY <1>1, <1>2 DEF Usage
  <2>2. usage[t][a].used \in Nat /\ usage[t][a].reserved \in Nat
    BY <1>1, Types
  <2>3. QED
    BY <1>1, <2>1, <2>2 DEF Sum
<1>5. /\ manual' \in [Buckets -> Nat]
      /\ \A b \in Buckets : b # a => manual'[b] = manual[b]
      /\ manual'[a] = IF call[c].mode = "MANUAL" THEN manual[a] + 1 ELSE manual[a]
  BY <1>1, <1>2, Types
<1>6. \A d \in DayStarts, b \in Buckets : d # t \/ b # a => Sum(d, b)' = Sum(d, b)
  BY <1>4 DEF Sum
<1>7. \A b \in Buckets : Sum(t, b)' - manual'[b] >= Sum(t, b) - manual[b]
  <2> TAKE b \in Buckets
  <2>1. Sum(t, b) \in Nat /\ manual[b] \in Nat
    BY <1>1, Types
  <2>2. CASE b = a
    BY <1>1, <1>4, <1>5, <2>1, <2>2
  <2>3. CASE b # a
    BY <1>1, <1>5, <1>6, <2>1, <2>3
  <2>4. QED
    BY <2>2, <2>3
<1>8. Counted'
  <2>1. /\ Counted /\ \A b \in Buckets : manual[b] <= Sum(t, b)
    BY <1>0, Parts DEF QInv, Counted
  <2> SUFFICES ASSUME NEW b \in Buckets
               PROVE  /\ \A d \in DayStarts : Sum(d, b)' <= Budget[b]
                      /\ manual'[b] <= Budget[b] - Protected[b] /\ manual'[b] <= Sum(t, b)'
    BY <1>1 DEF Counted, Sum
  <2>2. CASE b # a
    BY <1>1, <1>5, <1>6, <2>1, <2>2 DEF Counted
  <2>3. CASE b = a
    <3>1. /\ Budget[a] \in Nat /\ Protected[a] \in Nat /\ Protected[a] <= Budget[a]
          /\ manual[a] \in Nat /\ Sum(t, a) \in Nat
      BY <1>1, Types
    <3>2. manual[a] <= Budget[a] - Protected[a] /\ manual[a] <= Sum(t, a)
      BY <1>1, <2>1 DEF Counted
    <3>3. Limit(a, call[c].mode) = IF call[c].mode = "MANUAL" THEN Budget[a] - Protected[a] ELSE Budget[a]
      BY DEF Limit
    <3>4. Sum(t, a)' <= Budget[a]
      BY <1>3, <1>4, <3>1, <3>3
    <3>5. manual'[a] <= Budget[a] - Protected[a] /\ manual'[a] <= Sum(t, a)'
      BY <1>3, <1>4, <1>5, <3>1, <3>2, <3>3
    <3>6. \A d \in DayStarts : d # t => Sum(d, a)' <= Budget[a]
      BY <1>1, <1>6, <2>1 DEF Counted
    <3>7. QED
      BY <2>3, <3>4, <3>5, <3>6
  <2>4. QED
    BY <2>2, <2>3
<1>9. ReservationKept'
  <2> SUFFICES ASSUME NEW d \in DayStarts, NEW b \in Buckets
               PROVE  Cardinality(Holding(d, b)') <= usage'[d][b].reserved
    BY DEF ReservationKept
  <2>1. \A x \in Callers : call'[x] = IF x = c THEN k ELSE call[x]
    BY <1>2, Types
  <2>2. Cardinality(Holding(d, b)) <= usage[d][b].reserved /\ usage[d][b].reserved \in Nat
    BY Types DEF QInv, ReservationKept
  <2>3. IsFiniteSet(Holding(d, b)) /\ Cardinality(Holding(d, b)) \in Nat
    BY HoldingIs, FS_CardinalityType
  <2>4. CASE d = t /\ b = a
    <3>1. Holding(d, b)' \subseteq Holding(d, b) \cup {c}
      BY <2>1, HoldingIs DEF HoldsFor
    <3>2. /\ IsFiniteSet(Holding(d, b) \cup {c})
          /\ Cardinality(Holding(d, b) \cup {c}) <= Cardinality(Holding(d, b)) + 1
      <4>1. /\ IsFiniteSet(Holding(d, b) \cup {c})
            /\ \/ Cardinality(Holding(d, b) \cup {c}) = Cardinality(Holding(d, b)) + 1
               \/ Cardinality(Holding(d, b) \cup {c}) = Cardinality(Holding(d, b))
        BY <2>3, FS_AddElement, Zenon
      <4>2. QED
        BY <2>3, <4>1
    <3>3. /\ Cardinality(Holding(d, b)') <= Cardinality(Holding(d, b) \cup {c})
          /\ Cardinality(Holding(d, b)') \in Nat
          /\ Cardinality(Holding(d, b) \cup {c}) \in Nat
      BY <3>1, <3>2, FS_Subset, FS_CardinalityType
    <3>4. QED
      BY <1>4, <2>2, <2>3, <2>4, <3>2, <3>3
  <2>5. CASE d # t \/ b # a
    <3>1. ~ HoldsFor(k, d, b)
      BY <1>0, <2>5 DEF HoldsFor, Today, BucketFor
    <3>2. Holding(d, b)' \subseteq Holding(d, b)
      BY <2>1, <3>1, HoldingIs
    <3>3. /\ Cardinality(Holding(d, b)') <= Cardinality(Holding(d, b))
          /\ Cardinality(Holding(d, b)') \in Nat
      BY <2>3, <3>2, FS_Subset, FS_CardinalityType
    <3>4. QED
      BY <1>4, <2>2, <2>3, <2>5, <3>3
  <2>6. QED
    BY <2>4, <2>5
<1>10. RefusedFairly(k)'
  BY DEF RefusedFairly
<1>11. QED
  <2>1. \A b \in Buckets : Sum(Today, b)' - manual'[b] >= Sum(Today, b) - manual[b]
    BY <1>0, <1>1, <1>7 DEF Sum
  <2>2. QED
    BY <1>2, <1>4, <1>5, <1>8, <1>9, <1>10, <2>1, CallerStep

(* A unit moves from reserved to used, and its caller lets go of it.       *)
LEMMA ConsumeStep ==
    ASSUME QInv, NEW c \in Callers, NEW k \in Call, CallOK(k),
           call[c].pc = "sent", usage[DateOf(c)][BucketFor(c)].reserved >= 1,
           usage' = [usage EXCEPT ![DateOf(c)][BucketFor(c)] =
                        [used |-> @.used + 1, reserved |-> @.reserved - 1]],
           call' = [call EXCEPT ![c] = k], UNCHANGED <<clock, manual>>,
           k.pc \in {"reserve", "done", "failed"}
    PROVE  QInv'
<1>0. PICK a \in Buckets, e \in DayStarts, t \in DayStarts :
          a = BucketFor(c) /\ e = DateOf(c) /\ t = Today
  BY Types
<1>1. usage \in Usage /\ Today' = t /\ usage[e][a].reserved >= 1
  BY <1>0, Types DEF Today, DateAt
<1>2. /\ usage' \in Usage /\ usage'[e][a].reserved = usage[e][a].reserved - 1
      /\ usage'[e][a].used = usage[e][a].used + 1
      /\ \A d \in DayStarts, b \in Buckets : d # e \/ b # a => usage'[d][b] = usage[d][b]
  BY <1>0, <1>1 DEF Usage
<1>3. HoldsFor(call[c], e, a) /\ usage[e][a].reserved >= 1
  BY <1>0, <1>1 DEF HoldsFor, DateOf, BucketFor
<1>4. \A d \in DayStarts, b \in Buckets : Sum(d, b)' = Sum(d, b)
  <2> TAKE d \in DayStarts, b \in Buckets
  <2>1. CASE d = e /\ b = a
    <3>1. usage[e][a].used \in Nat /\ usage[e][a].reserved \in Nat
      BY <1>1, Types
    <3>2. QED
      BY <1>2, <2>1, <3>1 DEF Sum
  <2>2. CASE d # e \/ b # a
    BY <1>2, <2>2 DEF Sum
  <2>3. QED
    BY <2>1, <2>2
<1>6. Counted'
  <2>1. /\ Counted /\ \A b \in Buckets : manual[b] <= Sum(t, b)
    BY <1>0, Parts DEF QInv, Counted
  <2>2. \A b \in Buckets :
          /\ \A d \in DayStarts : Sum(d, b)' <= Budget[b]
          /\ manual'[b] <= Budget[b] - Protected[b] /\ manual'[b] <= Sum(t, b)'
    BY <1>4, <2>1 DEF Counted
  <2>3. QED
    BY <1>1, <2>2 DEF Counted, Sum
<1>7. \A b \in Buckets : Sum(t, b)' - manual'[b] >= Sum(t, b) - manual[b]
  <2> TAKE b \in Buckets
  <2>1. Sum(t, b)' = Sum(t, b) /\ Sum(t, b) \in Nat /\ manual[b] \in Nat
    BY <1>4, Types
  <2>2. QED
    BY <2>1
<1>8. ReservationKept'
  <2> SUFFICES ASSUME NEW d \in DayStarts, NEW b \in Buckets
               PROVE  Cardinality(Holding(d, b)') <= usage'[d][b].reserved
    BY DEF ReservationKept
  <2>1. \A x \in Callers : call'[x] = IF x = c THEN k ELSE call[x]
    BY Types
  <2>2. Cardinality(Holding(d, b)) <= usage[d][b].reserved /\ usage[d][b].reserved \in Nat
    BY Types DEF QInv, ReservationKept
  <2>3. IsFiniteSet(Holding(d, b)) /\ Cardinality(Holding(d, b)) \in Nat
    BY HoldingIs, FS_CardinalityType
  <2>4. Holding(d, b)' \subseteq Holding(d, b) \ {c}
    BY <2>1, HoldingIs DEF HoldsFor
  <2>5. IsFiniteSet(Holding(d, b) \ {c}) /\ Holding(d, b) \ {c} \subseteq Holding(d, b)
    BY <2>3, FS_RemoveElement
  <2>6. /\ Cardinality(Holding(d, b)') <= Cardinality(Holding(d, b) \ {c})
        /\ Cardinality(Holding(d, b) \ {c}) <= Cardinality(Holding(d, b))
        /\ Cardinality(Holding(d, b)') \in Nat /\ Cardinality(Holding(d, b) \ {c}) \in Nat
    BY <2>3, <2>4, <2>5, FS_Subset, FS_CardinalityType
  <2>7. CASE d = e /\ b = a
    <3>1. c \in Holding(d, b)
      BY <1>3, <2>7, HoldingIs
    <3>2. Cardinality(Holding(d, b) \ {c}) = Cardinality(Holding(d, b)) - 1
      BY <2>3, <3>1, FS_RemoveElement
    <3>3. QED
      BY <1>2, <2>2, <2>3, <2>6, <2>7, <3>2
  <2>8. CASE d # e \/ b # a
    BY <1>2, <2>2, <2>3, <2>6, <2>8
  <2>9. QED
    BY <2>7, <2>8
<1>9. RefusedFairly(k)' /\ manual' \in [Buckets -> Nat]
  BY Types DEF RefusedFairly
<1>10. QED
  <2>1. \A b \in Buckets : Sum(Today, b)' - manual'[b] >= Sum(Today, b) - manual[b]
    BY <1>0, <1>1, <1>7 DEF Sum
  <2>2. QED
    BY <1>2, <1>6, <1>8, <1>9, <2>1, CallerStep

(* Time passes: the counts of a day that begins are not yet those of a     *)
(* manual caller, and a refusal of an earlier day is not one of today.     *)
LEMMA TickStep ==
    ASSUME QInv, Tick
    PROVE  QInv'
<1>1. /\ clock \in Instants /\ clock' \in Instants /\ clock \in Nat /\ clock' \in Nat /\ clock <= clock'
      /\ UNCHANGED <<usage, call>>
      /\ manual' = IF Today' = Today THEN manual ELSE [b \in Buckets |-> 0]
  <2>1. clock \in Instants /\ clock \in Nat
    BY Types
  <2>2. clock' \in Instants /\ clock' > clock
    BY DEF Tick
  <2>3. clock' \in Nat
    BY <2>2, DateType
  <2>4. manual' = IF Today' = Today THEN manual ELSE [b \in Buckets |-> 0]
    BY DEF Tick, Today, DateAt
  <2>5. QED
    BY <2>1, <2>2, <2>3, <2>4 DEF Tick
<1>2. Today' \in DayStarts /\ Today' = DateAt(clock')
  BY <1>1, DateType DEF Today, DateAt
<1>3. QuotaTypeOK'
  BY <1>1, Types DEF QuotaTypeOK, Usage
<1>4. ReservationKept'
  BY <1>1 DEF QInv, ReservationKept, Holding, DateOf, BucketFor, DateAt
<1>5. ASSUME NEW c \in Callers PROVE CallOK(call[c])' /\ RefusedFairly(call[c])'
  <2>1. call'[c] = call[c] /\ call[c].at \in Instants /\ call[c].at \in Nat /\ CallOK(call[c])
    BY <1>1, Types, DateType DEF QInv
  <2>2. CallOK(call[c])'
    BY <1>1, <2>1 DEF CallOK
  <2>3. CASE Today' = Today
    <3>1. RefusedFairly(call[c])
      BY Parts DEF QInv, FairRefusals
    <3>2. RefusedFairly(call[c])'
      BY <1>1, <2>1, <2>3, <3>1 DEF RefusedFairly, Sum
    <3>3. QED
      BY <2>2, <3>2
  <2>4. CASE Today' # Today
    <3>1. call[c].pc = "deferred" => DateAt(call[c].at) # Today'
      <4>1. call[c].pc = "deferred" => call[c].at <= clock
        BY <2>1 DEF CallOK
      <4>2. call[c].at <= clock /\ DateAt(call[c].at) = DateAt(clock') => Today = DateAt(clock')
        BY <1>1, <2>1, DateMonotone DEF Today
      <4>3. QED
        BY <1>2, <2>4, <4>1, <4>2
    <3>2. RefusedFairly(call[c])'
      BY <2>1, <3>1 DEF RefusedFairly
    <3>3. QED
      BY <2>2, <3>2
  <2>5. QED
    BY <2>3, <2>4
<1>6. Counted'
  <2>1. Counted
    BY Parts DEF QInv, FairRefusals
  <2>2. \A d \in DayStarts, b \in Buckets : Sum(d, b)' = Sum(d, b) /\ Sum(d, b) \in Nat
    BY <1>1, Types DEF Sum
  <2>3. CASE Today' = Today
    <3>1. manual' = manual /\ Today \in DayStarts
      BY <1>1, <1>2, <2>3
    <3>2. \A b \in Buckets : Sum(Today, b)' = Sum(Today, b)
      BY <1>1, <2>3 DEF Sum
    <3>3. QED
      BY <2>1, <2>2, <3>1, <3>2 DEF Counted
  <2>4. CASE Today' # Today
    <3>1. \A b \in Buckets : manual'[b] = 0 /\ Budget[b] \in Nat /\ Protected[b] \in Nat
                             /\ Protected[b] <= Budget[b]
      BY <1>1, <2>4, Types
    <3>2. \A b \in Buckets : Sum(Today, b)' \in Nat
      <4> TAKE b \in Buckets
      <4>1. Sum(Today, b)' = usage[Today'][b].used + usage[Today'][b].reserved
        BY <1>1 DEF Sum
      <4>2. usage[Today'][b].used \in Nat /\ usage[Today'][b].reserved \in Nat
        BY <1>2, Types
      <4>3. QED
        BY <4>1, <4>2
    <3>3. QED
      BY <2>1, <2>2, <3>1, <3>2 DEF Counted
  <2>5. QED
    BY <2>3, <2>4
<1>7. (WithinBudget /\ Tight)'
  BY <1>5, <1>6, Parts DEF FairRefusals
<1>8. QED
  BY <1>3, <1>4, <1>5, <1>7 DEF QInv

-----------------------------------------------------------------------------
(* Every step of a call, with what it is to the ledger.                    *)

LEMMA GrantReserves ==
    ASSUME QInv, NEW c \in Callers, NEW k, Granted(c), Grant(c, k)
    PROVE  Ledger!LedgerNext
<1>1. Today \in DayStarts /\ BucketFor(c) \in Ledger!Buckets /\ call[c].mode \in Ledger!Modes
  BY Types DEF Buckets, Modes, Ledger!Buckets, Ledger!Modes
<1>2. Ledger!Reserve(Today, BucketFor(c), call[c].mode)
  BY DEF Granted, Grant, Limit, Today, Ledger!Reserve, Ledger!Grants, Ledger!Limit
<1>3. QED
  BY <1>1, <1>2 DEF Ledger!LedgerNext

LEMMA CallSteps ==
    ASSUME QInv, NEW c \in Callers, CallStep(c) \/ StatementFails(c) \/ Crash(c)
    PROVE  QInv' /\ [Ledger!LedgerNext]_usage
<1> DEFINE j == call[c]
<1>1. j \in Call /\ CallOK(j) /\ clock \in Instants /\ call \in [Callers -> Call]
      /\ BucketFor(c) \in Buckets /\ BucketFor(c) = BucketOf(j.stage)
  BY Types DEF QInv, BucketFor
<1>2. CASE ReserveUnit(c)
  <2> DEFINE k == [j EXCEPT !.pc = "send", !.at = clock, !.spent[BucketFor(c)] = @ + 1]
  <2>1. Granted(c) /\ Grant(c, k)
    BY <1>2 DEF ReserveUnit
  <2>2. k \in Call /\ k.pc = "send" /\ k.at = clock /\ k.stage = j.stage /\ k.left = j.left
    <3> DEFINE f == [j.spent EXCEPT ![BucketFor(c)] = @ + 1]
    <3>1. j.spent \in [Buckets -> Nat]
      BY <1>1 DEF Call
    <3>2. f \in [Buckets -> Nat]
      BY <1>1, <3>1
    <3>3. k = [j EXCEPT !.pc = "send", !.at = clock, !.spent = f]
      BY <1>1 DEF Call
    <3> HIDE DEF f, k
    <3>4. QED
      BY <1>1, <3>2, <3>3 DEF Call
  <2> HIDE DEF k
  <2>3. CallOK(k)
    BY <1>1, <2>2 DEF CallOK
  <2>4. QED
    BY <2>1, <2>2, <2>3, GrantStep, GrantReserves
<1>3. CASE Refuse(c)
  <2> DEFINE k == [j EXCEPT !.pc = "deferred", !.at = clock]
  <2>1. call' = [call EXCEPT ![c] = k] /\ UNCHANGED <<clock, usage, manual>> /\ ~ Granted(c)
    BY <1>1, <1>3 DEF Refuse
  <2>2. k \in Call /\ k.pc = "deferred" /\ k.at = clock /\ k.stage = j.stage /\ k.left = j.left
        /\ k.mode = j.mode
    BY <1>1 DEF Call
  <2> HIDE DEF k
  <2>3. CallOK(k)
    BY <1>1, <2>2, Types DEF CallOK
  <2>4. RefusedFairly(k)
    <3> DEFINE b == BucketOf(j.stage)
    <3>1. b \in Buckets /\ b = BucketFor(c)
      BY <1>1
    <3> HIDE DEF b
    <3>2. Today \in DayStarts /\ Sum(Today, b) \in Nat /\ manual[b] \in Nat
          /\ Budget[b] \in Nat /\ Protected[b] \in Nat
      BY <3>1, Types
    <3>3. manual[b] <= Budget[b] - Protected[b]
      BY <3>1 DEF QInv, WithinBudget
    <3>4. j.mode = "SCHEDULED" => ~ (Sum(Today, b) + 1 <= Budget[b])
      BY <2>1, <3>1 DEF Granted, Limit, Sum, Today
    <3>5. j.mode = "SCHEDULED" => Sum(Today, b) - manual[b] >= Protected[b]
      BY <3>2, <3>3, <3>4
    <3>6. QED
      BY <2>2, <3>5 DEF RefusedFairly, b
  <2>5. QED
    BY <2>1, <2>2, <2>3, <2>4, QuietStep
<1>4. CASE Send(c)
  <2> DEFINE k == [j EXCEPT !.pc = "sent"]
  <2>1. call' = [call EXCEPT ![c] = k] /\ UNCHANGED <<clock, usage, manual>> /\ j.pc = "send"
    BY <1>1, <1>4 DEF Send
  <2>2. k \in Call /\ k.pc = "sent" /\ k.at = j.at /\ k.stage = j.stage /\ k.left = j.left
    BY <1>1 DEF Call
  <2> HIDE DEF k
  <2>3. CallOK(k) /\ RefusedFairly(k)
    BY <1>1, <2>2 DEF CallOK, RefusedFairly
  <2>4. QED
    BY <2>1, <2>2, <2>3, QuietStep
<1>5. CASE ConsumeUnit(c)
  <2>1. PICK k \in AfterAnswer(j) : call' = [call EXCEPT ![c] = k]
    BY <1>5 DEF ConsumeUnit
  <2>2. k \in Call /\ CallOK(k) /\ k.pc \in {"reserve", "done", "failed"}
    BY <1>1, AfterAnswerType
  <2>3. /\ j.pc = "sent" /\ usage[DateOf(c)][BucketFor(c)].reserved >= 1
        /\ usage' = [usage EXCEPT ![DateOf(c)][BucketFor(c)] =
                        [used |-> @.used + 1, reserved |-> @.reserved - 1]]
        /\ UNCHANGED <<clock, manual>>
    BY <1>5 DEF ConsumeUnit
  <2>4. DateOf(c) \in DayStarts /\ BucketFor(c) \in Ledger!Buckets
    BY Types DEF Buckets, Ledger!Buckets
  <2>5. Ledger!Consume(DateOf(c), BucketFor(c))
    BY <2>3 DEF Ledger!Consume
  <2>6. Ledger!LedgerNext
    BY <2>4, <2>5 DEF Ledger!LedgerNext
  <2>7. QED
    BY <2>1, <2>2, <2>3, <2>6, ConsumeStep
<1>6. ASSUME UNCHANGED <<clock, usage, manual>>, NEW k \in {Failed, NoCall},
             call' = [call EXCEPT ![c] = k]
      PROVE  QInv' /\ [Ledger!LedgerNext]_usage
  <2>1. k \in Call /\ CallOK(k) /\ k.pc \in {"idle", "failed"}
    BY <1>6, NoCallType
  <2>2. RefusedFairly(k)
    BY <2>1 DEF RefusedFairly
  <2>3. QED
    BY <1>6, <2>1, <2>2, QuietStep
<1>7. CASE NotReserved(c)
  BY <1>6, <1>7 DEF NotReserved
<1>8. CASE StatementFails(c)
  <2>1. CASE Granted(c) /\ Grant(c, Failed)
    BY <2>1, NoCallType, GrantStep, GrantReserves
  <2>2. CASE ~ (Granted(c) /\ Grant(c, Failed))
    BY <1>6, <1>8, <2>2 DEF StatementFails
  <2>3. QED
    BY <2>1, <2>2
<1>9. CASE Crash(c)
  BY <1>6, <1>9 DEF Crash
<1>10. QED
  BY <1>2, <1>3, <1>4, <1>5, <1>7, <1>8, <1>9 DEF CallStep

-----------------------------------------------------------------------------
(* The pass. What it is working at is counted until it is over, and its    *)
(* run and its exit code are written where the results are.                *)

Pass == [pc : {"idle", "refresh", "targets", "disconnect", "ended"},
         stale : 0 .. MaxStale, left : 0 .. MaxTargets, results : [Results -> Nat]]
Statuses == {"none", "RUNNING", "SUCCESS", "PARTIAL_SUCCESS", "PARTIAL_FAILED", "DEFERRED", "FAILED"}

Typed ==
    /\ pass \in Pass /\ run \in Statuses /\ exit \in {0, 1, Running}
    /\ calls \in 0 .. MaxCalls /\ faults \in 0 .. MaxFaults

Busy ==
    /\ call[Worker].pc # "idle" => pass.pc # "idle"
    /\ call[Worker].pc # "idle" /\ pass.pc = "refresh" => pass.stale > 0
    /\ call[Worker].pc # "idle" /\ pass.pc = "targets" => pass.left > 0

Reported ==
    /\ pass.pc \in {"idle", "refresh", "targets"} => run \in {"none", "RUNNING"}
    /\ pass.pc = "disconnect" => run = RunStatus(pass.results)
    /\ pass.pc # "ended" => exit = Running
    /\ exit = 0 => run \in {"SUCCESS", "PARTIAL_SUCCESS", "DEFERRED"}
    /\ run \in {"PARTIAL_FAILED", "FAILED"} /\ pass.pc = "ended" => exit = 1

PassInv == Typed /\ Busy /\ Reported
IInv == QInv /\ PassInv

LEMMA Beginning ==
    ASSUME QInv, NEW c \in Callers, NEW mode \in Modes, NEW stage \in {"channels", "search"},
           Begin(c, mode, stage), UNCHANGED <<clock, usage, manual>>
    PROVE  QInv'
<1> DEFINE k == [NoCall EXCEPT !.pc = "reserve", !.mode = mode, !.stage = stage]
<1>1. k \in Call /\ k.pc = "reserve" /\ k.stage = stage
  BY NoCallType DEF Call, Stages
<1>2. call' = [call EXCEPT ![c] = k]
  BY DEF Begin
<1> HIDE DEF k
<1>3. CallOK(k) /\ RefusedFairly(k)
  BY <1>1 DEF CallOK, RefusedFairly
<1>4. QED
  BY <1>1, <1>2, <1>3, QuietStep

LEMMA Ending ==
    ASSUME QInv, NEW c \in Callers, call' = [call EXCEPT ![c] = NoCall],
           UNCHANGED <<clock, usage, manual>>
    PROVE  QInv'
<1>1. RefusedFairly(NoCall)
  BY NoCallType DEF RefusedFairly
<1>2. QED
  BY <1>1, NoCallType, QuietStep

LEMMA Unchanged ==
    ASSUME QInv, UNCHANGED quotaVars
    PROVE  QInv'
<1>1. UNCHANGED <<clock, usage, call, manual>>
  BY DEF quotaVars
<1>2. QuotaTypeOK'
  BY <1>1 DEF QInv, QuotaTypeOK
<1>3. ReservationKept'
  BY <1>1 DEF QInv, ReservationKept, Holding, DateOf, BucketFor
<1>4. Today' = Today
  BY <1>1 DEF Today, DateAt
<1>5. Counted'
  BY <1>1, <1>4, Parts DEF QInv, Counted, Sum
<1>6. FairRefusals'
  BY <1>1, <1>4, Parts DEF QInv, FairRefusals, RefusedFairly, Sum
<1>7. \A c \in Callers : CallOK(call[c])'
  BY <1>1 DEF QInv, CallOK
<1>8. QED
  BY <1>2, <1>3, <1>5, <1>6, <1>7, Parts DEF QInv

(* What a step of Next does to the quota.                                  *)
LEMMA QuotaStep ==
    ASSUME QInv, [Next]_vars
    PROVE  QInv' /\ [Ledger!LedgerNext]_usage
<1>1. Worker \in Callers
  BY PassAssumption
<1>2. CASE RefreshMetadata \/ FetchTarget
  <2>1. \E stage \in {"channels", "search"} :
            Begin(Worker, "SCHEDULED", stage) /\ UNCHANGED <<clock, usage, manual>>
    BY <1>2 DEF RefreshMetadata, FetchTarget, Quiet
  <2>2. QED
    BY <1>1, <2>1, Beginning DEF Modes
<1>3. CASE MetadataRefreshed \/ TargetSynced \/ PassDies
  <2>1. call' = [call EXCEPT ![Worker] = NoCall] /\ UNCHANGED <<clock, usage, manual>>
    BY <1>3 DEF MetadataRefreshed, TargetSynced, PassDies, Quiet
  <2>2. QED
    BY <1>1, <2>1, Ending
<1>4. CASE StartPass \/ StartRun \/ SyncWithoutFetch \/ FinishRun \/ Disconnect \/ PassFails
           \/ UNCHANGED vars
  <2>1. UNCHANGED quotaVars
    BY <1>4 DEF StartPass, StartRun, SyncWithoutFetch, FinishRun, Disconnect, PassFails, Quiet,
                vars, quotaVars
  <2>2. QED
    BY <2>1, Unchanged DEF quotaVars
<1>5. ASSUME NEW c \in Callers, ManualCall(c) PROVE QInv' /\ UNCHANGED usage
  <2>1. \E stage \in {"channels", "search"} :
            Begin(c, "MANUAL", stage) /\ UNCHANGED <<clock, usage, manual>>
    BY <1>5 DEF ManualCall
  <2>2. QED
    BY <2>1, Beginning DEF Modes
<1>6. ASSUME NEW c \in Callers, ManualEnds(c) PROVE QInv' /\ UNCHANGED usage
  BY <1>6, Ending DEF ManualEnds
<1>7. ASSUME NEW c \in Callers, Gateway(c) PROVE QInv' /\ [Ledger!LedgerNext]_usage
  BY <1>7, CallSteps DEF Gateway
<1>8. CASE Tick /\ UNCHANGED passVars
  BY <1>8, TickStep DEF Tick
<1>9. QED
  BY <1>2, <1>3, <1>4, <1>5, <1>6, <1>7, <1>8 DEF Next, PassStep

LEMMA RecordType ==
    ASSUME NEW result \in Results, pass \in Pass, pass.left > 0, Record(result)
    PROVE  pass' \in Pass /\ pass'.pc = pass.pc
<1> DEFINE n == pass.left - 1
           f == [pass.results EXCEPT ![result] = @ + 1]
<1>1. n \in 0 .. MaxTargets
  BY PassAssumption DEF Pass
<1>2. pass.results \in [Results -> Nat]
  BY DEF Pass
<1>3. f \in [Results -> Nat]
  BY <1>2
<1>4. pass' = [pass EXCEPT !.left = n, !.results = f]
  BY DEF Record, Pass
<1> HIDE DEF f, n
<1>5. QED
  BY <1>1, <1>3, <1>4 DEF Pass

(* The status of a run tells whether a target failed.                      *)
LEMMA StatusTells ==
    ASSUME NEW results \in [Results -> Nat]
    PROVE  /\ RunStatus(results) \in Statuses \ {"none", "RUNNING"}
           /\ ExitCode(results) \in {0, 1}
           /\ RunStatus(results) \in {"PARTIAL_FAILED", "FAILED"} <=> ExitCode(results) = 1
           /\ RunStatus(results) = "DEFERRED" => results["DEFERRED"] > 0 /\ results["SUCCESS"] = 0
           /\ RunStatus(results) = "FAILED" => results["FAILED"] > 0 /\ results["SUCCESS"] = 0
<1>1. results["SUCCESS"] \in Nat /\ results["DEFERRED"] \in Nat /\ results["FAILED"] \in Nat
  BY DEF Results
<1>2. QED
  BY <1>1 DEF RunStatus, ExitCode, Total, Statuses

(* A caller at rest stays at rest until the pass gives it a call.          *)
LEMMA WorkerStaysIdle ==
    ASSUME QInv, NEW c \in Callers,
           \/ CallStep(c) \/ StatementFails(c) \/ Crash(c)
           \/ ManualCall(c) \/ ManualEnds(c)
    PROVE  call[Worker].pc = "idle" => call'[Worker].pc = "idle"
<1>1. c = Worker => call[c].pc \in {"reserve", "send", "sent"}
  BY DEF CallStep, StatementFails, Crash, ManualCall, ManualEnds, ReserveUnit, Refuse, Send,
         ConsumeUnit, NotReserved
<1>2. \E k : call' = [call EXCEPT ![c] = k]
  <2>1. CASE ReserveUnit(c)
    BY <2>1 DEF ReserveUnit, Grant
  <2>2. CASE Refuse(c) \/ Send(c)
    BY <2>2, Types DEF Refuse, Send
  <2>3. CASE ConsumeUnit(c)
    BY <2>3 DEF ConsumeUnit
  <2>4. CASE NotReserved(c) \/ Crash(c) \/ ManualEnds(c)
    BY <2>4 DEF NotReserved, Crash, ManualEnds
  <2>5. CASE StatementFails(c)
    BY <2>5 DEF StatementFails, Grant
  <2>6. CASE ManualCall(c)
    BY <2>6 DEF ManualCall, Begin
  <2>7. QED
    BY <2>1, <2>2, <2>3, <2>4, <2>5, <2>6 DEF CallStep
<1>3. QED
  BY <1>1, <1>2, Types, PassAssumption

LEMMA PassStepInv ==
    ASSUME IInv, [Next]_vars
    PROVE  PassInv'
<1>1. /\ Typed /\ Busy /\ Reported /\ pass \in Pass /\ pass.stale \in Nat /\ pass.left \in Nat
      /\ pass.results \in [Results -> Nat] /\ call \in [Callers -> Call] /\ Worker \in Callers
      /\ MaxStale \in Nat /\ MaxTargets \in Nat /\ MaxCalls \in Nat /\ MaxFaults \in Nat
      /\ calls \in Nat /\ faults \in Nat
  <2>1. Typed /\ Busy /\ Reported
    BY DEF IInv, PassInv
  <2>2. pass \in Pass /\ pass.stale \in Nat /\ pass.left \in Nat /\ pass.results \in [Results -> Nat]
    BY <2>1, PassAssumption DEF Typed, Pass
  <2>3. calls \in Nat /\ faults \in Nat
    BY <2>1, PassAssumption DEF Typed
  <2>4. QED
    BY <2>1, <2>2, <2>3, Types, PassAssumption DEF IInv
<1>2. Idle \in Pass /\ Idle.pc = "idle"
  BY <1>1 DEF Idle, Pass
<1>3. NoCall.pc = "idle"
  BY NoCallType
<1>4. /\ run \in Statuses /\ exit \in {0, 1, Running} /\ calls \in 0 .. MaxCalls
      /\ faults \in 0 .. MaxFaults
  BY <1>1 DEF Typed
<1>5. Fault => faults' \in 0 .. MaxFaults
  BY <1>1, <1>4 DEF Fault
<1>6. CASE StartPass
  <2>1. PICK n \in 0 .. MaxStale : pass' = [Idle EXCEPT !.pc = "refresh", !.stale = n]
    BY <1>6 DEF StartPass
  <2>2. pass' \in Pass /\ pass'.pc = "refresh"
    BY <1>2, <2>1 DEF Pass
  <2>3. pass.pc = "idle" /\ UNCHANGED <<call, run, exit, calls, faults>>
    BY <1>6 DEF StartPass, Quiet
  <2>4. Typed'
    BY <1>4, <2>2, <2>3 DEF Typed
  <2>5. QED
    BY <1>1, <2>2, <2>3, <2>4 DEF PassInv, Busy, Reported
<1>7. CASE RefreshMetadata \/ FetchTarget
  <2>1. \/ pass.pc = "refresh" /\ pass.stale > 0
        \/ pass.pc = "targets" /\ pass.left > 0
    BY <1>1, <1>7 DEF RefreshMetadata, FetchTarget
  <2>2. UNCHANGED <<pass, run, exit, calls, faults>>
    BY <1>7 DEF RefreshMetadata, FetchTarget, Quiet
  <2>3. QED
    BY <1>1, <2>1, <2>2 DEF PassInv, Typed, Busy, Reported
<1>8. CASE MetadataRefreshed
  <2>1. pass.pc = "refresh" /\ call[Worker].pc # "idle" /\ pass' = [pass EXCEPT !.stale = @ - 1]
        /\ call' = [call EXCEPT ![Worker] = NoCall] /\ UNCHANGED <<run, exit, calls, faults>>
    BY <1>8 DEF MetadataRefreshed, Quiet
  <2>2. pass.stale - 1 \in 0 .. MaxStale
    BY <1>1, <2>1 DEF Busy, Pass
  <2>3. pass' \in Pass /\ pass'.pc = "refresh"
    <3> DEFINE n == pass.stale - 1
    <3>1. pass' = [pass EXCEPT !.stale = n] /\ n \in 0 .. MaxStale
      BY <2>1, <2>2
    <3> HIDE DEF n
    <3>2. QED
      BY <1>1, <2>1, <3>1 DEF Pass
  <2>4. call'[Worker].pc = "idle"
    BY <1>1, <1>3, <2>1
  <2>5. QED
    BY <1>1, <2>1, <2>3, <2>4 DEF PassInv, Typed, Busy, Reported
<1>9. CASE StartRun
  <2>1. PICK n \in 0 .. MaxTargets : pass' = [pass EXCEPT !.pc = "targets", !.left = n]
    BY <1>9 DEF StartRun
  <2>2. pass' \in Pass /\ pass'.pc = "targets"
    BY <1>1, <2>1 DEF Pass
  <2>3. pass.pc = "refresh" /\ pass.stale = 0 /\ run' = "RUNNING" /\ UNCHANGED <<call, exit, calls, faults>>
    BY <1>9 DEF StartRun, Quiet
  <2>4. call[Worker].pc = "idle"
    BY <1>1, <2>3 DEF Busy
  <2>5. Typed'
    BY <1>4, <2>2, <2>3 DEF Typed, Statuses
  <2>6. QED
    BY <1>1, <2>2, <2>3, <2>4, <2>5 DEF PassInv, Busy, Reported
<1>10. CASE SyncWithoutFetch \/ TargetSynced
  <2>1. pass.pc = "targets" /\ UNCHANGED <<run, exit, calls, faults>>
        /\ \E result \in Results : Record(result)
    BY <1>10 DEF SyncWithoutFetch, TargetSynced, Results, Quiet
  <2>2. pass.left > 0 /\ call'[Worker].pc = "idle"
    <3>1. CASE SyncWithoutFetch
      BY <3>1 DEF SyncWithoutFetch
    <3>2. CASE TargetSynced
      BY <1>1, <1>3, <3>2 DEF TargetSynced, Busy
    <3>3. QED
      BY <1>10, <3>1, <3>2
  <2>3. pass' \in Pass /\ pass'.pc = "targets"
    BY <1>1, <2>1, <2>2, RecordType
  <2>4. QED
    BY <1>1, <2>1, <2>2, <2>3 DEF PassInv, Typed, Busy, Reported
<1>11. CASE FinishRun
  <2>1. pass.pc = "targets" /\ pass.left = 0 /\ run' = RunStatus(pass.results)
        /\ pass' = [pass EXCEPT !.pc = "disconnect"] /\ UNCHANGED <<call, exit, calls, faults>>
    BY <1>11 DEF FinishRun, Quiet
  <2>2. pass' \in Pass /\ pass'.pc = "disconnect" /\ pass'.results = pass.results
    BY <1>1, <2>1 DEF Pass
  <2>3. call[Worker].pc = "idle"
    BY <1>1, <2>1 DEF Busy
  <2>4. run' \in Statuses
    BY <1>1, <2>1, StatusTells
  <2>5. Typed' /\ Busy'
    BY <1>4, <2>1, <2>2, <2>3, <2>4 DEF Typed, Busy
  <2>6. exit = Running
    BY <1>1, <2>1 DEF Reported
  <2>7. Reported'
    BY <2>1, <2>2, <2>6 DEF Reported, Running
  <2>8. QED
    BY <2>5, <2>7 DEF PassInv
<1>12. CASE Disconnect
  <2>1. pass.pc = "disconnect" /\ exit' \in {ExitCode(pass.results), 1}
        /\ pass' = [Idle EXCEPT !.pc = "ended"] /\ UNCHANGED <<call, run, calls, faults>>
    BY <1>12 DEF Disconnect, Quiet
  <2>2. pass' \in Pass /\ pass'.pc = "ended"
    BY <1>2, <2>1 DEF Pass
  <2>3. run = RunStatus(pass.results)
    BY <1>1, <2>1 DEF Reported
  <2>4. /\ exit' \in {0, 1} /\ run \in Statuses \ {"none", "RUNNING"}
        /\ run \in {"PARTIAL_FAILED", "FAILED"} => exit' = 1
    BY <1>1, <2>1, <2>3, StatusTells
  <2>5. Typed' /\ Busy'
    BY <1>4, <2>1, <2>2, <2>4 DEF Typed, Busy
  <2>6. Reported'
    BY <2>1, <2>2, <2>4 DEF Reported, Statuses
  <2>7. QED
    BY <2>5, <2>6 DEF PassInv
<1>13. CASE PassFails \/ PassDies
  <2>1. exit' = 1 /\ pass' = [Idle EXCEPT !.pc = "ended"] /\ Fault /\ UNCHANGED <<run, calls>>
    BY <1>13 DEF PassFails, PassDies
  <2>2. pass' \in Pass /\ pass'.pc = "ended"
    BY <1>2, <2>1 DEF Pass
  <2>3. Typed'
    BY <1>4, <1>5, <2>1, <2>2 DEF Typed
  <2>4. QED
    BY <2>1, <2>2, <2>3 DEF PassInv, Busy, Reported
<1>14. ASSUME UNCHANGED <<pass, run, exit>>, Typed',
              call[Worker].pc = "idle" => call'[Worker].pc = "idle"
       PROVE  PassInv'
  BY <1>1, <1>14 DEF PassInv, Busy, Reported
<1>15. ASSUME NEW c \in Callers, ManualCall(c) PROVE PassInv'
  <2>1. calls' \in 0 .. MaxCalls /\ UNCHANGED <<pass, run, exit, faults>>
    BY <1>1, <1>4, <1>15 DEF ManualCall
  <2>2. Typed'
    BY <1>1, <1>4, <2>1 DEF Typed
  <2>3. QED
    BY <1>14, <1>15, <2>1, <2>2, WorkerStaysIdle DEF IInv
<1>16. ASSUME NEW c \in Callers, ManualEnds(c) PROVE PassInv'
  <2>1. UNCHANGED passVars /\ Typed'
    BY <1>1, <1>16 DEF ManualEnds, passVars, Typed
  <2>2. QED
    BY <1>14, <1>16, <2>1, WorkerStaysIdle DEF IInv, passVars
<1>17. ASSUME NEW c \in Callers, Gateway(c) PROVE PassInv'
  <2>1. UNCHANGED <<pass, run, exit, calls>> /\ (faults' = faults \/ Fault)
    BY <1>17 DEF Gateway, passVars
  <2>2. Typed'
    BY <1>1, <1>4, <1>5, <2>1 DEF Typed
  <2>3. QED
    BY <1>14, <1>17, <2>1, <2>2, WorkerStaysIdle DEF IInv, Gateway
<1>18. CASE (Tick /\ UNCHANGED passVars) \/ UNCHANGED vars
  <2>1. UNCHANGED passVars /\ call' = call
    BY <1>18 DEF Tick, vars, passVars
  <2>2. Typed'
    BY <1>1, <2>1 DEF Typed, passVars
  <2>3. QED
    BY <1>14, <2>1, <2>2 DEF passVars
<1>19. QED
  BY <1>6, <1>7, <1>8, <1>9, <1>10, <1>11, <1>12, <1>13, <1>15, <1>16, <1>17, <1>18
     DEF Next, PassStep

-----------------------------------------------------------------------------
(* The theorems.                                                           *)

LEMMA InitHolds ==
    ASSUME Init
    PROVE  IInv
<1>1. /\ clock = Start /\ usage = [d \in DayStarts |-> [b \in Buckets |-> Unused]]
      /\ call = [c \in Callers |-> NoCall] /\ manual = [b \in Buckets |-> 0]
      /\ pass = Idle /\ run = "none" /\ exit = Running /\ calls = 0 /\ faults = 0
  BY DEF Init, QuotaInit
<1>2. QuotaTypeOK
  <2>1. Unused \in [used : Nat, reserved : Nat]
    BY DEF Unused
  <2>2. usage \in [DayStarts -> [Buckets -> [used : Nat, reserved : Nat]]]
    BY <1>1, <2>1
  <2>3. QED
    BY <1>1, <2>2, NoCallType, QuotaAssumption DEF QuotaTypeOK
<1>3. Today \in DayStarts
  BY <1>1, DateType, QuotaAssumption DEF Today
<1>4. Counted
  <2> SUFFICES ASSUME NEW b \in Buckets
               PROVE  /\ \A d \in DayStarts : Sum(d, b) <= Budget[b]
                      /\ manual[b] <= Budget[b] - Protected[b] /\ manual[b] <= Sum(Today, b)
    BY DEF Counted
  <2>1. \A d \in DayStarts : Sum(d, b) = 0
    BY <1>1 DEF Sum, Unused
  <2>2. /\ Budget[b] \in Nat /\ Protected[b] \in Nat /\ Protected[b] <= Budget[b] /\ manual[b] = 0
    BY <1>1, QuotaAssumption DEF ReserveWithinBudget
  <2>3. QED
    BY <1>3, <2>1, <2>2
<1>5. \A c \in Callers : call[c] = NoCall
  BY <1>1
<1>6. FairRefusals /\ \A c \in Callers : CallOK(call[c])
  BY <1>5, NoCallType DEF FairRefusals, RefusedFairly
<1>7. ReservationKept
  <2> SUFFICES ASSUME NEW d \in DayStarts, NEW b \in Buckets
               PROVE  Cardinality(Holding(d, b)) <= usage[d][b].reserved
    BY DEF ReservationKept
  <2>1. Holding(d, b) = {}
    BY <1>5, NoCallType, HoldingIs DEF HoldsFor
  <2>2. usage[d][b].reserved = 0
    BY <1>1 DEF Unused
  <2>3. QED
    BY <2>1, <2>2, FS_EmptySet
<1>8. PassInv
  <2>1. Idle \in Pass /\ Idle.pc = "idle"
    BY PassAssumption DEF Idle, Pass
  <2>2. Typed
    BY <1>1, <2>1, PassAssumption DEF Typed, Statuses
  <2>3. QED
    BY <1>1, <1>5, <2>1, <2>2, NoCallType, PassAssumption DEF PassInv, Busy, Reported, Running
<1>9. QED
  BY <1>2, <1>4, <1>6, <1>7, <1>8, Parts DEF IInv, QInv

(* The inductive invariant.                                                *)
THEOREM PassInvariant == Spec => []IInv
<1>1. Init => IInv
  BY InitHolds
<1>2. IInv /\ [Next]_vars => IInv'
  BY QuotaStep, PassStepInv DEF IInv
<1>3. QED
  BY <1>1, <1>2, PTL DEF Spec

(* Every state is one of the declared types.                               *)
THEOREM PassTypeOK == Spec => []TypeOK
<1>1. IInv => TypeOK
  BY DEF IInv, QInv, PassInv, Typed, TypeOK, Pass, Statuses
<1>2. QED
  BY <1>1, PassInvariant, PTL

(* reserve keeps every day within its budget and manual callers out of the *)
(* protected part: a scheduled request is refused only after scheduled     *)
(* callers were granted all of that part on the same day.                  *)
THEOREM QuotaWithinBudget == Spec => []WithinBudget
<1>1. IInv => WithinBudget
  BY DEF IInv, QInv
<1>2. QED
  BY <1>1, PassInvariant, PTL

(* Whoever has a request on the way has a unit reserved on the day it      *)
(* reserved it, so consumeYouTubeQuota never misses its reservation.       *)
THEOREM QuotaReservationKept == Spec => []ReservationKept
<1>1. IInv => ReservationKept
  BY DEF IInv, QInv
<1>2. QED
  BY <1>1, PassInvariant, PTL

(* A process that exits with 0 wrote a run without a failed target, a run  *)
(* with a failed target makes the process exit with 1, and DEFERRED and    *)
(* FAILED say that nothing succeeded.                                      *)
THEOREM PassReportsAgree == Spec => []ReportsAgree
<1>1. ASSUME IInv PROVE ReportsAgree
  <2>1. Typed /\ Reported
    BY <1>1 DEF IInv, PassInv
  <2>2. exit \in {0, 1, Running} /\ pass.results \in [Results -> Nat]
    BY <2>1 DEF Typed, Pass
  <2>3. exit # Running => pass.pc = "ended"
    BY <2>1 DEF Reported, Typed, Pass
  <2>4. pass.pc = "disconnect" =>
          /\ run = "DEFERRED" => pass.results["DEFERRED"] > 0 /\ pass.results["SUCCESS"] = 0
          /\ run = "FAILED" => pass.results["FAILED"] > 0 /\ pass.results["SUCCESS"] = 0
    BY <2>1, <2>2, StatusTells DEF Reported
  <2>5. QED
    BY <2>1, <2>2, <2>3, <2>4 DEF ReportsAgree, Reported
<1>2. QED
  BY <1>1, PassInvariant, PTL

(* The statements that PrismaStore sends implement the ledger that the     *)
(* memory store is.                                                        *)
THEOREM QuotaImplementsLedger == Spec => ImplementsLedger
<1>1. Init => Ledger!LedgerInit
  BY DEF Init, QuotaInit, Ledger!LedgerInit, Buckets, Ledger!Buckets, Unused, Ledger!Unused
<1>2. IInv /\ [Next]_vars => [Ledger!LedgerNext]_usage
  BY QuotaStep DEF IInv
<1>3. QED
  BY <1>1, <1>2, PassInvariant, PTL DEF Spec, ImplementsLedger, Ledger!LedgerSpec

-----------------------------------------------------------------------------
(* What a call has spent. By the request a call is at: what the requests   *)
(* before it took, the attempts of this one that have a unit (Taken), and  *)
(* what may still follow fit into the bounds.                              *)

Taken(k) == k.attempt + IF k.pc \in {"send", "sent"} THEN 1 ELSE 0

Units(requests) == requests * Attempts

Fits(stage, left, pages, taken, spent) ==
    CASE stage = "channels" -> spent["SEARCH"] = 0 /\ spent["GENERAL"] <= taken
      [] stage = "search" -> /\ pages < SearchPages /\ spent["GENERAL"] = 0
                             /\ spent["SEARCH"] <= Units(pages) + taken
      [] stage = "videos" ->
            /\ left > 0 /\ spent["SEARCH"] <= Units(SearchPages)
            /\ spent["GENERAL"] + Units(left + Tracked) <= Units(SearchPages + Tracked) + taken
      [] stage = "tracked" ->
            /\ left > 0 /\ spent["SEARCH"] <= Units(SearchPages)
            /\ spent["GENERAL"] + Units(left) <= Units(SearchPages + Tracked) + taken

Within(k) ==
    /\ k.attempt < Attempts
    /\ IF k.pc \in {"reserve", "send", "sent", "deferred"}
          THEN Fits(k.stage, k.left, k.pages, Taken(k), k.spent)
          ELSE k.spent["SEARCH"] = 0 /\ k.spent["GENERAL"] = 0

AllWithin == \A c \in Callers : Within(call[c])

LEMMA UnitsType ==
    /\ Attempts \in Nat /\ Attempts > 0 /\ SearchPages \in Nat /\ SearchPages > 0 /\ Tracked \in Nat
    /\ \A n \in Nat : Units(n) \in Nat
  BY QuotaAssumption DEF Units

LEMMA UnitsGrow ==
    /\ Units(1) = Attempts
    /\ \A n \in Nat : Units(n + 1) = Units(n) + Attempts
    /\ \A m, n \in Nat : m <= n => Units(m) <= Units(n)
<1>1. Attempts \in Nat
  BY UnitsType
<1>2. Units(1) = Attempts /\ \A n \in Nat : Units(n + 1) = Units(n) + Attempts
  BY <1>1 DEF Units
<1>3. ASSUME NEW m \in Nat, NEW n \in Nat, m <= n
      PROVE  Units(m) <= Units(n)
  <2>1. n - m \in Nat /\ (n - m) * Attempts \in Nat
    BY <1>1, <1>3
  <2>2. n * Attempts = m * Attempts + (n - m) * Attempts
    BY <1>1
  <2>3. QED
    BY <1>1, <2>1, <2>2 DEF Units
<1>4. QED
  BY <1>2, <1>3

LEMMA SpentType ==
    ASSUME NEW k \in Call
    PROVE  /\ k.spent \in [Buckets -> Nat] /\ k.spent["SEARCH"] \in Nat /\ k.spent["GENERAL"] \in Nat
           /\ k.attempt \in Nat /\ k.left \in Nat /\ k.pages \in Nat /\ k.stage \in Stages
           /\ Taken(k) \in Nat
           /\ k.pc \in {"send", "sent"} => Taken(k) = k.attempt + 1
           /\ k.pc \notin {"send", "sent"} => Taken(k) = k.attempt
           /\ k.attempt < Attempts => Taken(k) <= Attempts
<1>1. /\ k.spent \in [Buckets -> Nat] /\ k.attempt \in Nat /\ k.left \in Nat /\ k.pages \in Nat
      /\ k.stage \in Stages
  BY DEF Call
<1>2. k.spent["SEARCH"] \in Nat /\ k.spent["GENERAL"] \in Nat
  BY <1>1 DEF Buckets
<1>3. /\ k.pc \in {"send", "sent"} => Taken(k) = k.attempt + 1
      /\ k.pc \notin {"send", "sent"} => Taken(k) = k.attempt
  BY <1>1 DEF Taken
<1>4. Taken(k) \in Nat
  BY <1>1, <1>3
<1>5. k.attempt < Attempts => Taken(k) <= Attempts
  BY <1>1, <1>3, UnitsType
<1>6. QED
  BY <1>1, <1>2, <1>3, <1>4, <1>5

LEMMA AskKeeps ==
    ASSUME NEW k \in Call, NEW stage \in Stages, NEW n \in Nat
    PROVE  /\ Ask(k, stage, n).pages = 0 /\ Ask(k, stage, n).attempt = 0
           /\ Ask(k, stage, n).spent = k.spent
  BY QuotaAssumption DEF Ask, Call

(* A request that is asked for is within the bounds if its units fit.      *)
LEMMA AskWithin ==
    ASSUME NEW k \in Call, NEW stage \in Stages, NEW n \in Nat, Fits(stage, n, 0, 0, k.spent)
    PROVE  Within(Ask(k, stage, n))
<1> DEFINE a == Ask(k, stage, n)
<1>1. /\ a \in Call /\ a.pc = "reserve" /\ a.stage = stage /\ a.left = n
      /\ a.pages = 0 /\ a.attempt = 0 /\ a.spent = k.spent
  BY AskType, AskKeeps
<1> HIDE DEF a
<1>2. Taken(a) = 0
  BY <1>1, SpentType
<1>3. Within(a)
  BY <1>1, <1>2, UnitsType DEF Within
<1>4. QED
  BY <1>3 DEF a

LEMMA NothingSpent == Within(NoCall) /\ Within(Done) /\ Within(Failed)
<1>1. /\ NoCall.attempt = 0 /\ NoCall.spent = [b \in Buckets |-> 0]
      /\ NoCall.pc = "idle"
  BY DEF NoCall
<1>2. /\ Done.attempt = 0 /\ Done.spent = [b \in Buckets |-> 0] /\ Done.pc = "done"
      /\ Failed.attempt = 0 /\ Failed.spent = [b \in Buckets |-> 0] /\ Failed.pc = "failed"
  BY DEF Done, Failed, NoCall
<1>3. QED
  BY <1>1, <1>2, UnitsType DEF Within, Buckets

(* Whatever a caller does with an answer, or with the lack of one.         *)
LEMMA AfterAnswerWithin ==
    ASSUME NEW k \in Call, CallOK(k), Within(k), k.pc = "sent", NEW next \in AfterAnswer(k)
    PROVE  Within(next)
<1> DEFINE Refresh(n) == IF n = 0 THEN Done ELSE Ask(k, "tracked", n)
           refreshes == {Refresh(n) : n \in 0 .. Tracked}
           nextPage == [Ask(k, "search", 0) EXCEPT !.pages = k.pages + 1]
           search == k.spent["SEARCH"]
           general == k.spent["GENERAL"]
           all == Units(SearchPages + Tracked)
<1>1. /\ search \in Nat /\ general \in Nat /\ k.attempt \in Nat /\ k.left \in Nat
      /\ k.pages \in Nat /\ k.stage \in Stages
      /\ Taken(k) = k.attempt + 1 /\ Taken(k) <= Attempts /\ Taken(k) \in Nat
      /\ Fits(k.stage, k.left, k.pages, Taken(k), k.spent)
  BY SpentType DEF Within
<1>2. /\ Attempts \in Nat /\ SearchPages \in Nat /\ Tracked \in Nat /\ all \in Nat
      /\ Units(SearchPages) \in Nat /\ Units(Tracked) \in Nat
      /\ Units(Tracked) <= all /\ Units(SearchPages) <= all
      /\ {"channels", "search", "videos", "tracked"} \subseteq Stages
  <2>1. /\ SearchPages + Tracked \in Nat
        /\ Tracked <= SearchPages + Tracked /\ SearchPages <= SearchPages + Tracked
    BY UnitsType
  <2>2. QED
    BY <2>1, UnitsType, UnitsGrow DEF Stages
<1>3. ASSUME NEW n \in Nat, search <= Units(SearchPages), general + Units(n) <= all
      PROVE  Within(Refresh(n))
  <2>1. CASE n = 0
    BY <2>1, NothingSpent
  <2>2. CASE n # 0
    <3>1. Units(n) \in Nat
      BY UnitsType
    <3>2. Fits("tracked", n, 0, 0, k.spent)
      BY <1>1, <1>2, <1>3, <2>2, <3>1 DEF Fits
    <3>3. QED
      BY <1>2, <2>2, <3>2, AskWithin
  <2>3. QED
    BY <2>1, <2>2
<1>4. ASSUME NEW n \in Nat, n > 0, search <= Units(SearchPages), general + Units(n + Tracked) <= all
      PROVE  Within(Ask(k, "videos", n))
  <2>1. Units(n + Tracked) \in Nat
    BY <1>2, UnitsType
  <2>2. Fits("videos", n, 0, 0, k.spent)
    BY <1>1, <1>2, <1>4, <2>1 DEF Fits
  <2>3. QED
    BY <1>2, <2>2, AskWithin
<1>5. CASE next = Failed
  BY <1>5, NothingSpent
<1>6. CASE k.attempt + 1 < Attempts /\ next = Retried(k)
  <2>1. next \in Call /\ next.pc = "reserve" /\ next.stage = k.stage /\ next.left = k.left
    BY <1>6, RetriedType
  <2>2. next.attempt = k.attempt + 1 /\ next.pages = k.pages /\ next.spent = k.spent
    <3>1. next = [k EXCEPT !.pc = "reserve", !.attempt = k.attempt + 1, !.at = Start]
      BY <1>6 DEF Retried
    <3>2. QED
      BY <3>1 DEF Call
  <2>3. Taken(next) = Taken(k)
    BY <1>1, <2>1, <2>2, SpentType
  <2>4. QED
    BY <1>1, <1>6, <2>1, <2>2, <2>3 DEF Within
<1>7. CASE next \in Following(k)
  <2>1. CASE k.stage = "channels"
    <3>1. next = Done
      BY <1>7, <2>1 DEF Following
    <3>2. QED
      BY <3>1, NothingSpent
  <2>2. CASE k.stage = "search"
    <3>1. k.pages < SearchPages /\ general = 0 /\ search <= Units(k.pages) + Attempts
      <4>1. k.pages < SearchPages /\ general = 0 /\ search <= Units(k.pages) + Taken(k)
        BY <1>1, <2>2 DEF Fits
      <4>2. Units(k.pages) \in Nat
        BY <1>1, UnitsType
      <4>3. QED
        BY <1>1, <1>2, <4>1, <4>2
    <3>2. search <= Units(k.pages + 1)
      BY <1>1, <3>1, UnitsGrow
    <3>3. k.pages + 1 \in Nat /\ k.pages + 1 <= SearchPages
      BY <1>1, <1>2, <3>1
    <3>4. Units(k.pages + 1) <= Units(SearchPages) /\ Units(k.pages + 1) \in Nat
      BY <1>2, <3>3, UnitsGrow, UnitsType
    <3>5. search <= Units(SearchPages)
      BY <1>1, <1>2, <3>2, <3>4
    <3>6. \/ k.pages + 1 < SearchPages /\ next = nextPage
          \/ \E n \in 1 .. (k.pages + 1) : next = Ask(k, "videos", n)
          \/ \E n \in 0 .. Tracked : next = Refresh(n)
      <4> HIDE DEF Refresh, nextPage
      <4>1. Following(k) = (IF k.pages + 1 < SearchPages THEN {nextPage} ELSE {})
               \cup {Ask(k, "videos", n) : n \in 1 .. (k.pages + 1)} \cup refreshes
        BY <2>2 DEF Following, Refresh, nextPage
      <4>2. QED
        BY <1>7, <4>1
    <3>7. CASE k.pages + 1 < SearchPages /\ next = nextPage
      <4> DEFINE a == Ask(k, "search", 0)
      <4>1. a \in Call /\ a.pc = "reserve" /\ a.stage = "search" /\ a.attempt = 0
            /\ a.spent = k.spent
        BY <1>2, AskType, AskKeeps
      <4> HIDE DEF a
      <4>2. next = [a EXCEPT !.pages = k.pages + 1]
        BY <3>7 DEF a
      <4>3. /\ next \in Call /\ next.pc = "reserve" /\ next.stage = "search" /\ next.attempt = 0
            /\ next.spent = k.spent /\ next.pages = k.pages + 1
        BY <3>3, <4>1, <4>2 DEF Call
      <4>4. Taken(next) = 0
        BY <4>3, SpentType
      <4>5. Fits("search", next.left, k.pages + 1, 0, k.spent)
        BY <1>1, <3>1, <3>2, <3>4, <3>7 DEF Fits
      <4>6. QED
        BY <4>3, <4>4, <4>5, UnitsType DEF Within
    <3>8. ASSUME NEW n \in 1 .. (k.pages + 1), next = Ask(k, "videos", n)
          PROVE  Within(next)
      <4>1. n \in Nat /\ n > 0 /\ n + Tracked \in Nat /\ SearchPages + Tracked \in Nat
            /\ n + Tracked <= SearchPages + Tracked
        BY <1>2, <3>3
      <4>2. Units(n + Tracked) <= all /\ Units(n + Tracked) \in Nat
        BY <4>1, UnitsGrow, UnitsType
      <4>3. general + Units(n + Tracked) <= all
        BY <1>1, <3>1, <4>2
      <4>4. QED
        BY <1>4, <3>5, <3>8, <4>1, <4>3
    <3>9. ASSUME NEW n \in 0 .. Tracked, next = Refresh(n)
          PROVE  Within(next)
      <4>1. n \in Nat /\ n <= Tracked
        BY <1>2
      <4>2. Units(n) <= Units(Tracked) /\ Units(n) \in Nat
        BY <1>2, <4>1, UnitsGrow, UnitsType
      <4>3. general + Units(n) <= all
        BY <1>1, <1>2, <3>1, <4>2
      <4> HIDE DEF Refresh
      <4>4. QED
        BY <1>3, <3>5, <3>9, <4>1, <4>3
    <3>10. QED
      BY <3>6, <3>7, <3>8, <3>9
  <2>3. CASE k.stage = "videos"
    <3>1. /\ k.left > 0 /\ search <= Units(SearchPages)
          /\ general + Units(k.left + Tracked) <= all + Taken(k)
      BY <1>1, <2>3 DEF Fits
    <3>2. k.left - 1 \in Nat /\ k.left - 1 + Tracked \in Nat
          /\ (k.left - 1 + Tracked) + 1 = k.left + Tracked
      BY <1>1, <1>2, <3>1
    <3>3. /\ Units(k.left + Tracked) = Units(k.left - 1 + Tracked) + Attempts
          /\ Units(k.left - 1 + Tracked) \in Nat
      BY <3>2, UnitsGrow, UnitsType
    <3>4. general + Units(k.left - 1 + Tracked) <= all
      BY <1>1, <1>2, <3>1, <3>3
    <3>5. \/ k.left > 1 /\ next = Ask(k, "videos", k.left - 1)
          \/ k.left = 1 /\ \E n \in 0 .. Tracked : next = Refresh(n)
      <4> HIDE DEF Refresh
      <4>1. Following(k) = IF k.left > 1 THEN {Ask(k, "videos", k.left - 1)} ELSE refreshes
        BY <2>3 DEF Following, Refresh
      <4>2. k.left > 1 \/ k.left = 1
        BY <1>1, <3>1
      <4>3. QED
        BY <1>7, <4>1, <4>2
    <3>6. CASE k.left > 1 /\ next = Ask(k, "videos", k.left - 1)
      <4>1. k.left - 1 > 0
        BY <1>1, <3>6
      <4>2. QED
        BY <1>4, <3>1, <3>2, <3>4, <3>6, <4>1
    <3>7. ASSUME k.left = 1, NEW n \in 0 .. Tracked, next = Refresh(n)
          PROVE  Within(next)
      <4>1. n \in Nat /\ n <= Tracked /\ k.left - 1 + Tracked = Tracked
        BY <1>2, <3>7
      <4>2. Units(n) <= Units(Tracked) /\ Units(n) \in Nat
        BY <1>2, <4>1, UnitsGrow, UnitsType
      <4>3. general + Units(n) <= all
        BY <1>1, <1>2, <3>4, <4>1, <4>2
      <4> HIDE DEF Refresh
      <4>4. QED
        BY <1>3, <3>1, <3>7, <4>1, <4>3
    <3>8. QED
      BY <3>5, <3>6, <3>7
  <2>4. CASE k.stage = "tracked"
    <3>1. /\ k.left > 0 /\ search <= Units(SearchPages)
          /\ general + Units(k.left) <= all + Taken(k)
      BY <1>1, <2>4 DEF Fits
    <3>2. k.left - 1 \in Nat /\ (k.left - 1) + 1 = k.left
      BY <1>1, <3>1
    <3>3. Units(k.left) = Units(k.left - 1) + Attempts /\ Units(k.left - 1) \in Nat
      BY <3>2, UnitsGrow, UnitsType
    <3>4. general + Units(k.left - 1) <= all
      BY <1>1, <1>2, <3>1, <3>3
    <3>5. next = Refresh(k.left - 1)
      BY <1>7, <2>4 DEF Following
    <3> HIDE DEF Refresh
    <3>6. QED
      BY <1>3, <3>1, <3>2, <3>4, <3>5
  <2>5. QED
    BY <1>1, <2>1, <2>2, <2>3, <2>4 DEF Stages
<1>8. QED
  BY <1>5, <1>6, <1>7 DEF AfterAnswer

(* Steps of one call.                                                      *)
LEMMA OneCallWithin ==
    ASSUME QInv, AllWithin, NEW c \in Callers, NEW k, Within(k), call' = [call EXCEPT ![c] = k]
    PROVE  AllWithin'
<1>1. call \in [Callers -> Call]
  BY Types
<1>2. \A e \in Callers : call'[e] = IF e = c THEN k ELSE call[e]
  BY <1>1
<1>3. \A e \in Callers : Within(call'[e])
  BY <1>2 DEF AllWithin
<1>4. QED
  BY <1>3 DEF AllWithin, Within, Taken

LEMMA BeginWithin ==
    ASSUME QInv, AllWithin, NEW c \in Callers, NEW mode \in Modes,
           NEW stage \in {"channels", "search"}, Begin(c, mode, stage)
    PROVE  AllWithin'
<1> DEFINE k == [NoCall EXCEPT !.pc = "reserve", !.mode = mode, !.stage = stage]
<1>1. NoCall.attempt = 0 /\ NoCall.pages = 0 /\ NoCall.spent = [b \in Buckets |-> 0]
  BY DEF NoCall
<1>2. /\ k \in Call /\ k.pc = "reserve" /\ k.stage = stage /\ k.attempt = 0 /\ k.pages = 0
      /\ k.spent["SEARCH"] = 0 /\ k.spent["GENERAL"] = 0
  BY <1>1, NoCallType DEF Call, Stages, Buckets
<1>3. call' = [call EXCEPT ![c] = k]
  BY DEF Begin
<1> HIDE DEF k
<1>4. Taken(k) = 0
  BY <1>2, SpentType
<1>5. Fits(k.stage, k.left, k.pages, Taken(k), k.spent)
  <2>1. Units(k.pages) \in Nat /\ k.pages < SearchPages
    BY <1>2, UnitsType
  <2>2. CASE stage = "channels"
    BY <1>2, <1>4, <2>2 DEF Fits
  <2>3. CASE stage = "search"
    BY <1>2, <1>4, <2>1, <2>3 DEF Fits
  <2>4. QED
    BY <2>2, <2>3
<1>6. Within(k)
  BY <1>2, <1>5, UnitsType DEF Within
<1>7. QED
  BY <1>3, <1>6, OneCallWithin

LEMMA CallStepsWithin ==
    ASSUME QInv, AllWithin, NEW c \in Callers, CallStep(c) \/ StatementFails(c) \/ Crash(c)
    PROVE  AllWithin'
<1> DEFINE j == call[c]
<1>1. /\ j \in Call /\ CallOK(j) /\ Within(j) /\ clock \in Instants
      /\ BucketFor(c) = BucketOf(j.stage)
  BY Types DEF QInv, AllWithin, BucketFor
<1>2. CASE ReserveUnit(c)
  <2> DEFINE b == BucketFor(c)
             f == [j.spent EXCEPT ![b] = @ + 1]
             k == [j EXCEPT !.pc = "send", !.at = clock, !.spent[b] = @ + 1]
  <2>1. call' = [call EXCEPT ![c] = k] /\ j.pc = "reserve"
    BY <1>2 DEF ReserveUnit, Grant
  <2>2. k = [j EXCEPT !.pc = "send", !.at = clock, !.spent = f]
    BY <1>1 DEF Call
  <2>3. /\ f["SEARCH"] = j.spent["SEARCH"] + (IF b = "SEARCH" THEN 1 ELSE 0)
        /\ f["GENERAL"] = j.spent["GENERAL"] + (IF b = "GENERAL" THEN 1 ELSE 0)
        /\ f \in [Buckets -> Nat]
    BY <1>1, SpentType, Types DEF Buckets
  <2>4. b = IF j.stage = "search" THEN "SEARCH" ELSE "GENERAL"
    BY <1>1 DEF BucketOf
  <2> HIDE DEF f, k, b
  <2>5. /\ k \in Call /\ k.pc = "send" /\ k.stage = j.stage /\ k.left = j.left /\ k.pages = j.pages
        /\ k.attempt = j.attempt /\ k.spent = f
    BY <1>1, <2>2, <2>3 DEF Call
  <2>6. Taken(k) = j.attempt + 1 /\ Taken(j) = j.attempt /\ Taken(k) \in Nat
    BY <1>1, <2>1, <2>5, SpentType
  <2>7. Fits(j.stage, j.left, j.pages, j.attempt, j.spent) /\ j.attempt < Attempts
    BY <1>1, <2>1, <2>6 DEF Within
  <2>8. Fits(j.stage, j.left, j.pages, j.attempt + 1, f)
    <3>1. /\ j.attempt \in Nat /\ j.left \in Nat /\ j.pages \in Nat /\ j.stage \in Stages
          /\ j.spent["SEARCH"] \in Nat /\ j.spent["GENERAL"] \in Nat
      BY <1>1, SpentType
    <3>2. /\ SearchPages \in Nat /\ Tracked \in Nat /\ Units(j.pages) \in Nat
          /\ Units(SearchPages) \in Nat /\ Units(SearchPages + Tracked) \in Nat
          /\ Units(j.left) \in Nat /\ Units(j.left + Tracked) \in Nat
      <4>1. SearchPages + Tracked \in Nat /\ j.left + Tracked \in Nat
        BY <3>1, UnitsType
      <4>2. QED
        BY <3>1, <4>1, UnitsType
    <3>3. CASE j.stage = "channels"
      BY <2>3, <2>4, <2>7, <3>1, <3>2, <3>3 DEF Fits
    <3>4. CASE j.stage = "search"
      BY <2>3, <2>4, <2>7, <3>1, <3>2, <3>4 DEF Fits
    <3>5. CASE j.stage = "videos"
      BY <2>3, <2>4, <2>7, <3>1, <3>2, <3>5 DEF Fits
    <3>6. CASE j.stage = "tracked"
      BY <2>3, <2>4, <2>7, <3>1, <3>2, <3>6 DEF Fits
    <3>7. QED
      BY <3>1, <3>3, <3>4, <3>5, <3>6 DEF Stages
  <2>9. Within(k)
    BY <2>5, <2>6, <2>7, <2>8 DEF Within
  <2>10. QED
    BY <2>1, <2>9, OneCallWithin
<1>3. ASSUME NEW k \in Call, k.stage = j.stage, k.left = j.left, k.pages = j.pages,
             k.attempt = j.attempt, k.spent = j.spent, Taken(k) = Taken(j),
             j.pc \in {"reserve", "send"}, k.pc \in {"deferred", "sent"},
             call' = [call EXCEPT ![c] = k]
      PROVE  AllWithin'
  <2>1. Within(k)
    BY <1>1, <1>3 DEF Within
  <2>2. QED
    BY <1>3, <2>1, OneCallWithin
<1>4. CASE Refuse(c)
  <2> DEFINE k == [j EXCEPT !.pc = "deferred", !.at = clock]
  <2>1. call' = [call EXCEPT ![c] = k] /\ j.pc = "reserve"
    BY <1>4, Types DEF Refuse
  <2>2. /\ k \in Call /\ k.pc = "deferred" /\ k.stage = j.stage /\ k.left = j.left
        /\ k.pages = j.pages /\ k.attempt = j.attempt /\ k.spent = j.spent
    BY <1>1 DEF Call
  <2> HIDE DEF k
  <2>3. Taken(k) = Taken(j)
    BY <1>1, <2>1, <2>2, SpentType
  <2>4. QED
    BY <1>3, <2>1, <2>2, <2>3
<1>5. CASE Send(c)
  <2> DEFINE k == [j EXCEPT !.pc = "sent"]
  <2>1. call' = [call EXCEPT ![c] = k] /\ j.pc = "send"
    BY <1>5, Types DEF Send
  <2>2. /\ k \in Call /\ k.pc = "sent" /\ k.stage = j.stage /\ k.left = j.left
        /\ k.pages = j.pages /\ k.attempt = j.attempt /\ k.spent = j.spent
    BY <1>1 DEF Call
  <2> HIDE DEF k
  <2>3. Taken(k) = Taken(j)
    BY <1>1, <2>1, <2>2, SpentType
  <2>4. QED
    BY <1>3, <2>1, <2>2, <2>3
<1>6. CASE ConsumeUnit(c)
  <2>1. PICK k \in AfterAnswer(j) : call' = [call EXCEPT ![c] = k]
    BY <1>6 DEF ConsumeUnit
  <2>2. j.pc = "sent"
    BY <1>6 DEF ConsumeUnit
  <2>3. Within(k)
    BY <1>1, <2>2, AfterAnswerWithin
  <2>4. QED
    BY <2>1, <2>3, OneCallWithin
<1>7. CASE \E k \in {Failed, NoCall} : call' = [call EXCEPT ![c] = k]
  BY <1>7, NothingSpent, OneCallWithin
<1>8. CASE NotReserved(c) \/ StatementFails(c) \/ Crash(c)
  BY <1>7, <1>8 DEF NotReserved, StatementFails, Grant, Crash
<1>9. QED
  BY <1>2, <1>4, <1>5, <1>6, <1>8 DEF CallStep

LEMMA SpentStep ==
    ASSUME QInv, AllWithin, [Next]_vars
    PROVE  AllWithin'
<1>1. Worker \in Callers
  BY PassAssumption
<1>2. CASE RefreshMetadata \/ FetchTarget
  <2>1. \E stage \in {"channels", "search"} : Begin(Worker, "SCHEDULED", stage)
    BY <1>2 DEF RefreshMetadata, FetchTarget
  <2>2. QED
    BY <1>1, <2>1, BeginWithin DEF Modes
<1>3. CASE MetadataRefreshed \/ TargetSynced \/ PassDies
  <2>1. call' = [call EXCEPT ![Worker] = NoCall]
    BY <1>3 DEF MetadataRefreshed, TargetSynced, PassDies
  <2>2. QED
    BY <1>1, <2>1, NothingSpent, OneCallWithin
<1>4. CASE UNCHANGED call
  BY <1>4 DEF AllWithin, Within, Taken
<1>5. CASE \/ StartPass \/ StartRun \/ SyncWithoutFetch \/ FinishRun \/ Disconnect \/ PassFails
           \/ Tick \/ UNCHANGED vars
  BY <1>4, <1>5 DEF StartPass, StartRun, SyncWithoutFetch, FinishRun, Disconnect, PassFails, Tick,
                    vars
<1>6. ASSUME NEW c \in Callers, ManualCall(c) PROVE AllWithin'
  <2>1. \E stage \in {"channels", "search"} : Begin(c, "MANUAL", stage)
    BY <1>6 DEF ManualCall
  <2>2. QED
    BY <2>1, BeginWithin DEF Modes
<1>7. ASSUME NEW c \in Callers, ManualEnds(c) PROVE AllWithin'
  BY <1>7, NothingSpent, OneCallWithin DEF ManualEnds
<1>8. ASSUME NEW c \in Callers, Gateway(c) PROVE AllWithin'
  BY <1>8, CallStepsWithin DEF Gateway
<1>9. QED
  BY <1>2, <1>3, <1>5, <1>6, <1>7, <1>8 DEF Next, PassStep

(* What fits is within the bounds of env.ts.                               *)
LEMMA WithinBounds ==
    ASSUME NEW k \in Call, Within(k)
    PROVE  k.spent["SEARCH"] <= SearchBound /\ k.spent["GENERAL"] <= GeneralBound
<1> DEFINE search == k.spent["SEARCH"]
           general == k.spent["GENERAL"]
           all == Units(SearchPages + Tracked)
<1>1. /\ search \in Nat /\ general \in Nat /\ k.left \in Nat /\ k.pages \in Nat
      /\ k.stage \in Stages /\ Taken(k) \in Nat /\ Taken(k) <= Attempts
  BY SpentType DEF Within
<1>2. /\ Attempts \in Nat /\ SearchPages \in Nat /\ Tracked \in Nat
      /\ SearchPages + Tracked \in Nat /\ 1 <= SearchPages + Tracked
  BY UnitsType
<1>3. /\ Units(SearchPages) \in Nat /\ all \in Nat /\ Units(1) = Attempts
      /\ Attempts <= all
  BY <1>2, UnitsType, UnitsGrow
<1>4. search <= Units(SearchPages) /\ general <= all
  <2>1. CASE k.pc \notin {"reserve", "send", "sent", "deferred"}
    BY <1>3, <2>1 DEF Within
  <2>2. CASE k.pc \in {"reserve", "send", "sent", "deferred"}
    <3>1. Fits(k.stage, k.left, k.pages, Taken(k), k.spent)
      BY <2>2 DEF Within
    <3>2. CASE k.stage = "channels"
      BY <1>1, <1>2, <1>3, <3>1, <3>2 DEF Fits
    <3>3. CASE k.stage = "search"
      <4>1. k.pages < SearchPages /\ general = 0 /\ search <= Units(k.pages) + Taken(k)
        BY <3>1, <3>3 DEF Fits
      <4>2. k.pages + 1 \in Nat /\ k.pages + 1 <= SearchPages
        BY <1>1, <1>2, <4>1
      <4>3. /\ Units(k.pages + 1) = Units(k.pages) + Attempts /\ Units(k.pages) \in Nat
            /\ Units(k.pages + 1) <= Units(SearchPages)
        BY <1>1, <1>2, <4>2, UnitsType, UnitsGrow
      <4>4. QED
        BY <1>1, <1>2, <1>3, <4>1, <4>3
    <3>4. ASSUME NEW n \in Nat, 1 <= n, general + Units(n) <= all + Taken(k)
          PROVE  general <= all
      <4>1. Units(n) \in Nat /\ Attempts <= Units(n)
        BY <1>3, <3>4, UnitsType, UnitsGrow
      <4>2. QED
        BY <1>1, <1>2, <1>3, <3>4, <4>1
    <3>5. CASE k.stage = "videos"
      <4>1. k.left + Tracked \in Nat /\ 1 <= k.left + Tracked
        BY <1>1, <1>2, <3>1, <3>5 DEF Fits
      <4>2. search <= Units(SearchPages) /\ general + Units(k.left + Tracked) <= all + Taken(k)
        BY <3>1, <3>5 DEF Fits
      <4>3. QED
        BY <3>4, <4>1, <4>2
    <3>6. CASE k.stage = "tracked"
      <4>1. 1 <= k.left /\ search <= Units(SearchPages)
            /\ general + Units(k.left) <= all + Taken(k)
        BY <1>1, <3>1, <3>6 DEF Fits
      <4>2. QED
        BY <1>1, <3>4, <4>1
    <3>7. QED
      BY <1>1, <3>2, <3>3, <3>5, <3>6 DEF Stages
  <2>3. QED
    BY <2>1, <2>2
<1>5. QED
  BY <1>4 DEF Units, SearchBound, GeneralBound

(* Pages, batches and attempts of one fetch take no more units of either   *)
(* bucket than calculateYouTubeDailyQuotaBounds counts for it, whatever    *)
(* the answers are and however many of the attempts fail.                  *)
THEOREM QuotaSpentWithinBounds == Spec => []SpentWithinBounds
<1>1. Init => AllWithin
  <2> SUFFICES ASSUME Init PROVE AllWithin
    OBVIOUS
  <2>1. \A c \in Callers : call[c] = NoCall
    BY DEF Init, QuotaInit
  <2>2. QED
    BY <2>1, NothingSpent DEF AllWithin
<1>2. IInv /\ AllWithin /\ [Next]_vars => AllWithin'
  BY SpentStep DEF IInv
<1>3. ASSUME IInv, AllWithin PROVE SpentWithinBounds
  <2>1. \A c \in Callers : call[c] \in Call /\ Within(call[c])
    BY <1>3, Types DEF IInv, AllWithin
  <2>2. QED
    BY <2>1, WithinBounds DEF SpentWithinBounds
<1>4. IInv /\ AllWithin => SpentWithinBounds
  BY <1>3
<1>5. QED
  BY <1>1, <1>2, <1>4, PassInvariant, PTL DEF Spec

-----------------------------------------------------------------------------
(* The reset of the quota. The bisection is a recursive function; what it  *)
(* computes is shown by descent, from the least distance of two arguments  *)
(* for which it would not hold.                                            *)

(* Every nonempty set of natural numbers has a least element.              *)
LEMMA Smallest ==
    ASSUME NEW S \in SUBSET Nat, S # {}
    PROVE  \E m \in S : \A n \in S : m <= n
<1> DEFINE R == OpToRel(<, Nat)
<1>1. IsWellFoundedOn(R, Nat)
  BY NatLessThanWellFounded
<1>2. \A x, y \in Nat : y < x => <<y, x>> \in R
  BY DEF OpToRel
<1> HIDE DEF R
<1>3. PICK m \in S : \A n \in S : ~ (<<n, m>> \in R)
  BY <1>1, WFMin
<1>4. \A n \in S : n \in Nat /\ m \in Nat /\ ~ (n < m)
  BY <1>2, <1>3
<1>5. QED
  BY <1>4

(* n is the first instant of the day after t's.                            *)
NextDay(t, n) == n \in DayStarts /\ t < n /\ \A d \in DayStarts : t < d => n <= d

LEMMA NextDayExists ==
    ASSUME NEW t \in Instants
    PROVE  \E n \in Nat : NextDay(t, n) /\ n <= t + Horizon + 2 * FullDay
<1> DEFINE S == {d \in DayStarts : t < d}
<1>1. PICK d \in DayStarts : t < d /\ d <= t + Horizon + 2 * FullDay
  BY DaysEndAssumption
<1>2. S \in SUBSET Nat /\ d \in S
  BY <1>1, QuotaAssumption
<1>3. PICK n \in S : \A e \in S : n <= e
  BY <1>2, Smallest
<1>4. n <= d /\ n \in Nat /\ d \in Nat /\ t + Horizon + 2 * FullDay \in Nat
  BY <1>2, <1>3, QuotaAssumption
<1>5. n <= t + Horizon + 2 * FullDay
  BY <1>1, <1>4
<1>6. QED
  BY <1>3, <1>4, <1>5 DEF NextDay

(* Of the days that began by x there is a last one.                        *)
LEMMA DateOfLater ==
    ASSUME NEW x \in Nat, NEW d \in DayStarts, d <= x
    PROVE  /\ DateAt(x) \in DayStarts /\ DateAt(x) \in Nat /\ DateAt(x) <= x
           /\ \A e \in DayStarts : e <= x => e <= DateAt(x)
<1> DEFINE S == {n \in Nat : x - n \in DayStarts /\ n <= x}
<1>1. DayStarts \subseteq Nat
  BY QuotaAssumption
<1>2. x - d \in S /\ S \in SUBSET Nat
  <2>1. d \in Nat /\ x - d \in Nat /\ x - (x - d) = d /\ x - d <= x
    BY <1>1
  <2>2. QED
    BY <2>1
<1>3. PICK m \in S : \A n \in S : m <= n
  BY <1>2, Smallest
<1>4. m \in Nat /\ x - m \in DayStarts /\ x - m <= x /\ x - m \in Nat
  BY <1>1, <1>3
<1>5. ASSUME NEW e \in DayStarts, e <= x PROVE e <= x - m
  <2>1. e \in Nat /\ x - e \in Nat /\ x - (x - e) = e /\ x - e <= x
    BY <1>1, <1>5
  <2>2. x - e \in S
    BY <2>1
  <2>3. m <= x - e
    BY <1>3, <2>2
  <2>4. QED
    BY <1>4, <2>1, <2>3
<1>6. \E b \in DayStarts : b <= x /\ \A e \in DayStarts : e <= x => e <= b
  BY <1>4, <1>5
<1>7. DateAt(x) \in DayStarts /\ DateAt(x) <= x /\ \A e \in DayStarts : e <= x => e <= DateAt(x)
  BY <1>6 DEF DateAt
<1>8. QED
  BY <1>1, <1>7

(* The date is t's until the next day begins, and another one from then.   *)
LEMMA DateUntilNextDay ==
    ASSUME NEW t \in Instants, NEW n \in Nat, NextDay(t, n), NEW x \in Nat, t <= x
    PROVE  DateAt(x) = DateAt(t) <=> x < n
<1> DEFINE today == DateAt(t)
<1>1. /\ t \in Nat /\ today \in DayStarts /\ today \in Nat /\ today <= t
      /\ \A e \in DayStarts : e <= t => e <= today
  BY DateType
<1> HIDE DEF today
<1>2. /\ DateAt(x) \in DayStarts /\ DateAt(x) \in Nat /\ DateAt(x) <= x
      /\ \A e \in DayStarts : e <= x => e <= DateAt(x)
  BY <1>1, DateOfLater
<1>3. n \in DayStarts /\ t < n /\ \A d \in DayStarts : t < d => n <= d
  BY DEF NextDay
<1>4. CASE x < n
  <2>1. ~ (t < DateAt(x))
    BY <1>2, <1>3, <1>4
  <2>2. DateAt(x) <= today
    BY <1>1, <1>2, <2>1
  <2>3. today <= DateAt(x)
    BY <1>1, <1>2
  <2>4. QED
    BY <1>1, <1>2, <1>4, <2>2, <2>3 DEF today
<1>5. CASE ~ (x < n)
  <2>1. n <= DateAt(x)
    BY <1>2, <1>3, <1>5
  <2>2. QED
    BY <1>1, <1>2, <1>3, <1>5, <2>1 DEF today
<1>6. QED
  BY <1>4, <1>5

(* What defines the bisection.                                             *)
Halves(f, t, end) ==
    f = [i \in (t .. end) \X (t .. end) |->
           IF i[2] - i[1] <= 1 THEN i[2]
           ELSE IF DateAt((i[1] + i[2]) \div 2) = DateAt(t) THEN f[<<(i[1] + i[2]) \div 2, i[2]>>]
           ELSE f[<<i[1], (i[1] + i[2]) \div 2>>]]

LEMMA BisectionIs == \A t, end : Bisection(t, end) = (CHOOSE f : Halves(f, t, end))[<<t, end>>]
  BY Zenon DEF Bisection, Halves

LEMMA Middle ==
    ASSUME NEW low \in Nat, NEW high \in Nat, high - low > 1
    PROVE  LET middle == (low + high) \div 2
           IN  middle \in Nat /\ low < middle /\ middle < high
  OBVIOUS

(* There is such a function: it finds the next day if that is between its  *)
(* arguments, and otherwise goes to one end.                               *)
Found(low, high, n) ==
    IF high - low <= 1 \/ high < n THEN high ELSE IF n <= low THEN low + 1 ELSE n

LEMMA BisectionExists ==
    ASSUME NEW t \in Instants, NEW n \in Nat, NextDay(t, n), NEW end \in Nat
    PROVE  \E f : Halves(f, t, end)
<1> DEFINE f == [i \in (t .. end) \X (t .. end) |-> Found(i[1], i[2], n)]
           E(i) == IF i[2] - i[1] <= 1 THEN i[2]
                   ELSE IF DateAt((i[1] + i[2]) \div 2) = DateAt(t)
                   THEN f[<<(i[1] + i[2]) \div 2, i[2]>>]
                   ELSE f[<<i[1], (i[1] + i[2]) \div 2>>]
<1>1. t \in Nat
  BY DateType
<1>2. ASSUME NEW low \in t .. end, NEW high \in t .. end
      PROVE  f[<<low, high>>] = Found(low, high, n)
  OBVIOUS
<1> HIDE DEF f
<1>3. ASSUME NEW low \in t .. end, NEW high \in t .. end
      PROVE  Found(low, high, n) = E(<<low, high>>)
  <2>1. low \in Nat /\ high \in Nat /\ t <= low /\ low <= end /\ high <= end
    BY <1>1
  <2>2. CASE high - low <= 1
    BY <2>1, <2>2 DEF Found
  <2>3. CASE high - low > 1
    <3>1. PICK middle : middle = (low + high) \div 2
      OBVIOUS
    <3>2. middle \in Nat /\ low < middle /\ middle < high
      BY <2>1, <2>3, <3>1, Middle
    <3>3. middle \in t .. end /\ t <= middle
      BY <1>1, <2>1, <3>2
    <3>4. DateAt(middle) = DateAt(t) <=> middle < n
      BY <3>2, <3>3, DateUntilNextDay
    <3>5. /\ f[<<middle, high>>] = Found(middle, high, n)
          /\ f[<<low, middle>>] = Found(low, middle, n)
      BY <1>2, <3>3
    <3>6. E(<<low, high>>) = IF middle < n THEN Found(middle, high, n) ELSE Found(low, middle, n)
      BY <2>1, <2>3, <3>1, <3>4, <3>5
    <3>7. Found(low, high, n)
            = IF middle < n THEN Found(middle, high, n) ELSE Found(low, middle, n)
      BY <2>1, <2>3, <3>2 DEF Found
    <3>8. QED
      BY <3>6, <3>7
  <2>4. QED
    BY <2>1, <2>2, <2>3
<1>4. \A i \in (t .. end) \X (t .. end) : Found(i[1], i[2], n) = E(i)
  <2> HIDE DEF E
  <2>1. \A i \in (t .. end) \X (t .. end) : /\ i[1] \in t .. end /\ i[2] \in t .. end
                                            /\ i = <<i[1], i[2]>>
    OBVIOUS
  <2>2. QED
    BY <1>3, <2>1
<1>5. f = [i \in (t .. end) \X (t .. end) |-> E(i)]
  BY <1>4 DEF f
<1>6. QED
  BY <1>5 DEF Halves

(* And any such function finds it, by descent on the distance.             *)
LEMMA BisectionFinds ==
    ASSUME NEW t \in Instants, NEW n \in Nat, NextDay(t, n), NEW end \in Nat, n <= end,
           NEW f, Halves(f, t, end)
    PROVE  f[<<t, end>>] = n
<1> DEFINE Miss(low, high) == low < n /\ n <= high /\ f[<<low, high>>] # n
           S == {m \in Nat : \E low, high \in t .. end : Miss(low, high) /\ high - low = m}
<1>1. t \in Nat /\ t < n
  BY DateType DEF NextDay
<1>2. ASSUME NEW low \in t .. end, NEW high \in t .. end, Miss(low, high)
      PROVE  \E a, b \in t .. end : Miss(a, b) /\ b - a < high - low
  <2>1. low \in Nat /\ high \in Nat /\ t <= low
    BY <1>1
  <2>2. <<low, high>> \in (t .. end) \X (t .. end)
    OBVIOUS
  <2>3. PICK middle : middle = (low + high) \div 2
    OBVIOUS
  <2>4. f[<<low, high>>] = IF high - low <= 1 THEN high
                           ELSE IF DateAt(middle) = DateAt(t) THEN f[<<middle, high>>]
                           ELSE f[<<low, middle>>]
    BY <2>2, <2>3 DEF Halves
  <2>5. high - low > 1
    <3>1. CASE high - low <= 1
      BY <1>2, <2>1, <2>4, <3>1
    <3>2. QED
      BY <2>1, <3>1
  <2>6. middle \in Nat /\ low < middle /\ middle < high
    BY <2>1, <2>3, <2>5, Middle
  <2>7. middle \in t .. end /\ t <= middle
    BY <1>1, <2>1, <2>6
  <2>8. DateAt(middle) = DateAt(t) <=> middle < n
    BY <2>6, <2>7, DateUntilNextDay
  <2>9. CASE middle < n
    <3>1. Miss(middle, high) /\ high - middle < high - low
      BY <1>2, <2>1, <2>4, <2>5, <2>6, <2>8, <2>9
    <3>2. QED
      BY <2>7, <3>1
  <2>10. CASE ~ (middle < n)
    <3>1. Miss(low, middle) /\ middle - low < high - low
      BY <1>2, <2>1, <2>4, <2>5, <2>6, <2>8, <2>10
    <3>2. QED
      BY <2>7, <3>1
  <2>11. QED
    BY <2>9, <2>10
<1>3. \A low, high \in t .. end : Miss(low, high) => high - low \in Nat
  BY <1>1
<1>4. CASE S = {}
  <2>1. t \in t .. end /\ end \in t .. end
    BY <1>1
  <2>2. ~ Miss(t, end)
    <3> HIDE DEF Miss
    <3>1. QED
      BY <1>3, <1>4, <2>1
  <2>3. QED
    BY <1>1, <2>2
<1>5. CASE S # {}
  <2> HIDE DEF Miss
  <2>1. PICK m \in S : \A k \in S : m <= k
    BY <1>5, Smallest
  <2>2. PICK low \in t .. end, high \in t .. end : Miss(low, high) /\ high - low = m
    BY <2>1
  <2>3. PICK a \in t .. end, b \in t .. end : Miss(a, b) /\ b - a < high - low
    BY <1>2, <2>2
  <2>4. b - a \in S /\ b - a < m /\ m \in Nat /\ b - a \in Nat
    BY <1>3, <2>1, <2>2, <2>3
  <2>5. QED
    BY <2>1, <2>4
<1>6. QED
  BY <1>4, <1>5

(* nextQuotaResetAt is the first instant of the next day.                  *)
LEMMA ResetIsNextDay ==
    ASSUME NEW t \in Instants
    PROVE  DateAt(NextReset(t)) = NextReset(t) /\ DateAt(NextReset(t) - 1) = DateAt(t)
<1>1. PICK n \in Nat : NextDay(t, n) /\ n <= t + Horizon + 2 * FullDay
  BY NextDayExists
<1>2. /\ t \in Nat /\ Horizon \in Nat /\ FullDay \in Nat /\ t < n /\ n \in DayStarts
      /\ n - 1 \in Nat /\ t <= n - 1
  BY <1>1, DateType, QuotaAssumption DEF NextDay
<1> DEFINE Later(k) == t + Horizon + k * FullDay
           Differs(k) == DateAt(Later(k)) # DateAt(t)
           days == CHOOSE k \in 0 .. 2 : /\ Differs(k)
                                         /\ \A j \in 0 .. (k - 1) : DateAt(Later(j)) = DateAt(t)
<1>3. ASSUME NEW k \in 0 .. 2
      PROVE  Later(k) \in Nat /\ t <= Later(k) /\ (Differs(k) <=> n <= Later(k))
  <2>1. Later(k) \in Nat /\ t <= Later(k)
    <3>1. k * FullDay \in Nat
      BY <1>2
    <3>2. QED
      BY <1>2, <3>1
  <2>2. DateAt(Later(k)) = DateAt(t) <=> Later(k) < n
    BY <1>1, <2>1, DateUntilNextDay
  <2>3. QED
    BY <2>1, <2>2
<1>4. Differs(2)
  BY <1>1, <1>3
<1> DEFINE end == Later(days)
<1>5. NextReset(t) = Bisection(t, end)
  BY DEF NextReset
<1>6. days \in 0 .. 2 /\ Differs(days)
  <2> HIDE DEF Later
  <2>1. \E k \in 0 .. 2 : /\ Differs(k)
                          /\ \A j \in 0 .. (k - 1) : DateAt(Later(j)) = DateAt(t)
    <3>1. CASE Differs(0)
      BY <3>1
    <3>2. CASE ~ Differs(0) /\ Differs(1)
      BY <3>2
    <3>3. CASE ~ Differs(0) /\ ~ Differs(1)
      BY <1>4, <3>3
    <3>4. QED
      BY <3>1, <3>2, <3>3
  <2>2. QED
    BY <2>1
<1> HIDE DEF days
<1>7. end \in Nat /\ t <= end /\ n <= end
  BY <1>3, <1>6
<1> HIDE DEF end
<1>8. NextReset(t) = n
  <2>1. PICK f : Halves(f, t, end)
    BY <1>1, <1>7, BisectionExists
  <2>2. Halves(CHOOSE g : Halves(g, t, end), t, end)
    BY <2>1
  <2>3. QED
    BY <1>1, <1>5, <1>7, <2>2, BisectionIs, BisectionFinds
<1>9. DateAt(n) = n
  <2>1. /\ DateAt(n) \in DayStarts /\ DateAt(n) \in Nat /\ DateAt(n) <= n
        /\ \A e \in DayStarts : e <= n => e <= DateAt(n)
    BY <1>2, DateOfLater
  <2>2. QED
    BY <1>2, <2>1
<1>10. DateAt(n - 1) = DateAt(t)
  BY <1>1, <1>2, DateUntilNextDay
<1>11. QED
  BY <1>8, <1>9, <1>10

(* A refused request is to be made again at the first instant of the day   *)
(* after the one it was refused on, however long these days are.           *)
THEOREM QuotaRetryAtReset == Spec => []RetryAtReset
<1>1. ASSUME IInv PROVE RetryAtReset
  <2>1. \A c \in Callers : call[c].at \in Instants
    BY <1>1, Types DEF IInv
  <2>2. QED
    BY <2>1, ResetIsNextDay DEF RetryAtReset, DateOf
<1>2. IInv => RetryAtReset
  BY <1>1
<1>3. QED
  BY <1>2, PassInvariant, PTL
=============================================================================
