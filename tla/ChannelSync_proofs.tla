------------------------- MODULE ChannelSync_proofs -------------------------
(***************************************************************************)
(* Proofs about ChannelSync for any number of subscribers, any number of   *)
(* changes of the broadcast, any window and any bound on the clock: the    *)
(* rows never go back, fetches are a window apart, a sync that is not      *)
(* deferred lists rows that are fresh for it, and without deferral its     *)
(* success leaves the calendar up to date. The last part proves what the   *)
(* lease promises, on which all of this rests, from SyncLease.             *)
(***************************************************************************)
EXTENDS ChannelSync, SyncLease, TLAPS

(* What a sync j of subscription s knows, by how far it has come: while it *)
(* fetches under the lease nobody else has refreshed the channel, what it  *)
(* fetched is not older than the row, and what it goes on with is fresh.   *)
Knows(s, j) ==
    /\ j.pc # "idle" => j.at > 0
    /\ j.pc \in {"start", "fetch", "commit"} /\ holder = s => ~ Fresh(j.at)
    /\ j.pc = "commit" => j.seen.state \in State /\ j.seen.state <= youtube.state
    /\ j.pc = "commit" /\ holder = s /\ row.state # None => j.seen.state >= row.state
    /\ (j.pc \in {"list", "upsert", "map", "save"} \/ (j.pc = "leave" /\ ~ j.failed))
         /\ ~ j.deferred => Fresh(j.at)

(* The row is a past or the present state of the broadcast.                *)
RowKnown ==
    /\ youtube.state \in State
    /\ row.state # None => row.state <= youtube.state

IInv == TypeOK /\ RowKnown /\ \A s \in Sub : Knows(s, sync[s])

LEMMA InitIInv == Init => IInv
  BY ParametersAssumption
     DEF Init, IInv, TypeOK, RowKnown, Knows, Time, None, State, Broadcast, SyncState,
         Place, NoSync, NoBroadcast, Fresh

(* A step of one sync that leaves rows, channel and lease alone.           *)
LEMMA OneSync ==
    ASSUME IInv, NEW s \in Sub, NEW j \in SyncState, Knows(s, j),
           sync' = [sync EXCEPT ![s] = j],
           clock' \in Time, lastCalendarSyncAt' \in [Sub -> Time],
           event' \in [Sub -> State \cup {None}], mapping' \in [Sub -> State \cup {None}],
           UNCHANGED <<youtube, row, channel, holder>>
    PROVE  IInv'
<1>1. TypeOK'
  BY DEF IInv, TypeOK
<1>2. RowKnown'
  BY DEF IInv, RowKnown
<1>3. \A t \in Sub : sync'[t] = IF t = s THEN j ELSE sync[t]
  BY DEF IInv, TypeOK
<1>4. \A t \in Sub : Knows(t, sync'[t])
  BY <1>3 DEF IInv
<1>5. \A t \in Sub : Knows(t, sync[t])'
  BY <1>4 DEF Knows, Fresh
<1>6. QED
  BY <1>1, <1>2, <1>5 DEF IInv

(* A sync that ends knows nothing any more.                                *)
LEMMA NoSyncKnows == NoSync \in SyncState /\ \A s \in Sub : Knows(s, NoSync)
  BY ParametersAssumption
     DEF NoSync, SyncState, Knows, Place, Time, Broadcast, NoBroadcast, State, None

-----------------------------------------------------------------------------

(* The reads, the calendar steps and the end of a sync.                    *)
LEMMA ReadIInv ==
    ASSUME IInv, NEW s \in Sub,
           \/ Start(s) \/ Recheck(s) \/ Fetch(s) \/ WaitForSnapshot(s)
           \/ ListBroadcasts(s) \/ Upsert(s) \/ SaveMapping(s) \/ SaveResult(s)
           \/ CalendarFails(s) \/ Crash(s)
    PROVE  IInv'
<1>1. /\ sync[s] \in SyncState /\ Knows(s, sync[s])
      /\ sync \in [Sub -> SyncState] /\ clock \in Time
      /\ lastCalendarSyncAt \in [Sub -> Time]
      /\ event \in [Sub -> State \cup {None}] /\ mapping \in [Sub -> State \cup {None}]
      /\ channel.version \in Nat /\ youtube \in Broadcast /\ row.state \in State \cup {None}
  BY DEF IInv, TypeOK
<1>2. CASE Start(s)
  <2> DEFINE j == [NoSync EXCEPT !.pc = IF Fresh(clock + 1) THEN "list" ELSE "acquire",
                                 !.at = clock + 1, !.since = lastCalendarSyncAt[s],
                                 !.base = IF Fresh(clock + 1) THEN 0 ELSE channel.version]
  <2>1. clock + 1 \in Time /\ clock + 1 > 0
    BY <1>1, <1>2, ParametersAssumption DEF Start, Time
  <2>2. j \in SyncState
    BY <1>1, <2>1, NoSyncKnows DEF SyncState, NoSync, Place
  <2>3. Knows(s, j)
    BY <2>1 DEF Knows, NoSync
  <2>4. sync' = [sync EXCEPT ![s] = j] /\ clock' = clock + 1
        /\ UNCHANGED <<youtube, row, channel, holder, lastCalendarSyncAt, event, mapping>>
    BY <1>2 DEF Start
  <2> HIDE DEF j
  <2>5. QED
    BY <1>1, <2>1, <2>2, <2>3, <2>4, OneSync
<1>3. CASE Recheck(s)
  <2> DEFINE j == [sync[s] EXCEPT !.pc = IF Fresh(sync[s].at) THEN "leave" ELSE "start"]
  <2>1. j \in SyncState
    BY <1>1 DEF SyncState, Place
  <2>2. Knows(s, j)
    BY <1>1, <1>3 DEF Knows, SyncState, Recheck
  <2>3. sync' = [sync EXCEPT ![s] = j]
        /\ UNCHANGED <<clock, youtube, row, channel, holder, lastCalendarSyncAt, event, mapping>>
    BY <1>1, <1>3 DEF Recheck, Goto
  <2> HIDE DEF j
  <2>4. QED
    BY <1>1, <2>1, <2>2, <2>3, OneSync
<1>4. CASE Fetch(s)
  <2>1. UNCHANGED <<clock, youtube, row, channel, holder, lastCalendarSyncAt, event, mapping>>
        /\ sync[s].pc = "fetch"
    BY <1>4 DEF Fetch
  <2>2. PICK j \in {[sync[s] EXCEPT !.pc = "commit", !.seen = youtube],
                    [sync[s] EXCEPT !.pc = "defer"], [sync[s] EXCEPT !.pc = "fail"]} :
           sync' = [sync EXCEPT ![s] = j]
    BY <1>1, <1>4 DEF Fetch, Goto
  <2>3. j \in SyncState
    BY <1>1, <2>2 DEF SyncState, Place
  <2>4. Knows(s, j)
    <3>1. youtube.state \in State /\ (row.state # None => row.state <= youtube.state)
          /\ youtube.state \in Nat /\ (row.state # None => row.state \in Nat)
      BY <1>1, ParametersAssumption DEF IInv, RowKnown, State
    <3>2. j.at = sync[s].at
      BY <1>1, <2>2 DEF SyncState
    <3>3. CASE j = [sync[s] EXCEPT !.pc = "commit", !.seen = youtube]
      <4>1. j.pc = "commit" /\ j.seen = youtube
        BY <1>1, <3>3 DEF SyncState
      <4>2. QED
        BY <1>1, <2>1, <3>1, <3>2, <4>1 DEF Knows
    <3>4. CASE j # [sync[s] EXCEPT !.pc = "commit", !.seen = youtube]
      <4>1. j.pc \in {"defer", "fail"}
        BY <1>1, <2>2, <3>4 DEF SyncState
      <4>2. QED
        BY <1>1, <2>1, <3>2, <4>1 DEF Knows
    <3>5. QED
      BY <3>3, <3>4
  <2>5. QED
    BY <1>1, <2>1, <2>2, <2>3, <2>4, OneSync
<1>5. CASE WaitForSnapshot(s)
  <2>1. UNCHANGED <<clock, youtube, row, channel, holder, lastCalendarSyncAt, event, mapping>>
        /\ sync[s].pc = "wait"
    BY <1>5 DEF WaitForSnapshot
  <2>2. PICK d \in BOOLEAN :
           /\ sync' = [sync EXCEPT ![s] = [sync[s] EXCEPT !.pc = "list", !.base = 0, !.deferred = d]]
           /\ d \/ Fresh(sync[s].at)
    BY <1>1, <1>5 DEF WaitForSnapshot, ToList, Completed
  <2> DEFINE j == [sync[s] EXCEPT !.pc = "list", !.base = 0, !.deferred = d]
  <2>3. j \in SyncState
    BY <1>1, <2>2 DEF SyncState, Place
  <2>4. Knows(s, j)
    BY <1>1, <2>1, <2>2 DEF Knows, SyncState
  <2> HIDE DEF j
  <2>5. QED
    BY <1>1, <2>1, <2>2, <2>3, <2>4, OneSync DEF j
<1>6. CASE ListBroadcasts(s)
  <2>1. UNCHANGED <<clock, youtube, row, channel, holder, lastCalendarSyncAt, event, mapping>>
        /\ sync[s].pc = "list"
    BY <1>6 DEF ListBroadcasts
  <2>p. PICK p \in {"upsert", "save"} :
           sync' = [sync EXCEPT ![s].pc = p, ![s].item = row.state, ![s].since = 0]
    BY <1>6 DEF ListBroadcasts
  <2> DEFINE j == [sync[s] EXCEPT !.pc = p, !.item = row.state, !.since = 0]
  <2>2. j \in SyncState
    <3>1. 0 \in Time
      BY ParametersAssumption DEF Time
    <3>2. QED
      BY <1>1, <3>1 DEF SyncState, Place
  <2>3. Knows(s, j)
    BY <1>1, <2>1 DEF Knows, SyncState
  <2>4. sync' = [sync EXCEPT ![s] = j]
    BY <1>1, <2>p
  <2> HIDE DEF j
  <2>5. QED
    BY <1>1, <2>1, <2>2, <2>3, <2>4, OneSync
<1>7. CASE Upsert(s) \/ SaveMapping(s)
  <2>1. UNCHANGED <<clock, youtube, row, channel, holder, lastCalendarSyncAt>>
        /\ sync[s].pc \in {"upsert", "map"}
    BY <1>7 DEF Upsert, SaveMapping
  <2>2. PICK p \in {"map", "save"} : sync' = [sync EXCEPT ![s] = [sync[s] EXCEPT !.pc = p]]
    BY <1>1, <1>7 DEF Upsert, SaveMapping, Goto
  <2> DEFINE j == [sync[s] EXCEPT !.pc = p]
  <2>3. j \in SyncState
    BY <1>1, <2>2 DEF SyncState, Place
  <2>4. Knows(s, j)
    BY <1>1, <2>1, <2>2 DEF Knows, SyncState
  <2>5. sync[s].item \in State \cup {None}
    BY <1>1 DEF SyncState
  <2>6. event' \in [Sub -> State \cup {None}] /\ mapping' \in [Sub -> State \cup {None}]
    BY <1>1, <1>7, <2>5 DEF Upsert, SaveMapping
  <2> HIDE DEF j
  <2>7. QED
    BY <1>1, <2>1, <2>2, <2>3, <2>4, <2>6, OneSync DEF j
<1>8. CASE SaveResult(s) \/ CalendarFails(s) \/ Crash(s)
  <2>1. UNCHANGED <<clock, youtube, row, channel, holder, event, mapping>>
        /\ sync' = [sync EXCEPT ![s] = NoSync]
    BY <1>8 DEF SaveResult, CalendarFails, Crash
  <2>2. lastCalendarSyncAt' \in [Sub -> Time]
    BY <1>1, <1>8 DEF SaveResult, CalendarFails, Crash, SyncState
  <2>3. QED
    BY <1>1, <2>1, <2>2, NoSyncKnows, OneSync
<1>9. QED
  BY <1>2, <1>3, <1>4, <1>5, <1>6, <1>7, <1>8

(* The steps on the lease and on the channel row.                          *)
LEMMA FetchIInv ==
    ASSUME IInv, NEW s \in Sub,
           Acquire(s) \/ StartFetch(s) \/ Commit(s) \/ FinishFetch(s) \/ Leave(s)
    PROVE  IInv'
<1>1. /\ sync[s] \in SyncState /\ Knows(s, sync[s])
      /\ sync \in [Sub -> SyncState] /\ clock \in Time
      /\ lastCalendarSyncAt \in [Sub -> Time]
      /\ event \in [Sub -> State \cup {None}] /\ mapping \in [Sub -> State \cup {None}]
      /\ channel \in [succeeded : Time, version : Nat,
                      status : {"none", "RUNNING", "SUCCESS", "DEFERRED", "FAILED"}]
      /\ RowKnown /\ \A t \in Sub : Knows(t, sync[t])
      /\ row \in [state : State \cup {None}, ended : Time, updated : Time]
      /\ holder \in Sub \cup {Nobody}
  BY DEF IInv, TypeOK
<1>2. CASE Acquire(s)
  <2>1. CASE holder = Nobody
    <3> DEFINE j == [sync[s] EXCEPT !.pc = "recheck"]
    <3>1. j \in SyncState /\ j.pc = "recheck" /\ j.at = sync[s].at
      BY <1>1 DEF SyncState, Place
    <3>2. /\ holder' = s /\ sync' = [sync EXCEPT ![s] = j]
          /\ UNCHANGED <<clock, youtube, row, channel, lastCalendarSyncAt, event, mapping>>
      BY <1>1, <1>2, <2>1 DEF Acquire, Goto
    <3> HIDE DEF j
    <3>3. TypeOK' /\ RowKnown'
      BY <3>1, <3>2 DEF IInv, TypeOK, RowKnown
    <3>4. ASSUME NEW t \in Sub
          PROVE  Knows(t, sync[t])'
      <4>1. CASE t = s
        <5>1. sync'[t] = j /\ j.at > 0
          BY <1>1, <1>2, <3>1, <3>2, <4>1 DEF Knows, Acquire
        <5>2. QED
          BY <3>1, <5>1 DEF Knows
      <4>2. CASE t # s
        <5>1. sync'[t] = sync[t] /\ holder' # t /\ Knows(t, sync[t])
          BY <1>1, <3>2, <4>2
        <5>2. QED
          BY <3>2, <5>1 DEF Knows, Fresh
      <4>3. QED
        BY <4>1, <4>2
    <3>5. QED
      BY <3>3, <3>4 DEF IInv
  <2>2. CASE holder # Nobody
    <3> DEFINE j == [sync[s] EXCEPT !.pc = "wait"]
    <3>1. j \in SyncState /\ j.pc = "wait" /\ j.at = sync[s].at
      BY <1>1 DEF SyncState, Place
    <3>2. /\ sync' = [sync EXCEPT ![s] = j]
          /\ UNCHANGED <<clock, youtube, row, channel, holder, lastCalendarSyncAt, event, mapping>>
      BY <1>1, <1>2, <2>2 DEF Acquire, Goto
    <3>3. Knows(s, j)
      BY <1>1, <1>2, <3>1 DEF Knows, Acquire
    <3> HIDE DEF j
    <3>4. QED
      BY <1>1, <3>1, <3>2, <3>3, OneSync
  <2>3. QED
    BY <2>1, <2>2
<1>3. CASE StartFetch(s) \/ FinishFetch(s)
  <2>1. /\ channel' \in [succeeded : Time, version : Nat,
                         status : {"none", "RUNNING", "SUCCESS", "DEFERRED", "FAILED"}]
        /\ channel'.succeeded = channel.succeeded
    BY <1>1, <1>3 DEF StartFetch, FinishFetch
  <2>2. UNCHANGED <<clock, youtube, row, holder, lastCalendarSyncAt, event, mapping>>
    BY <1>3 DEF StartFetch, FinishFetch
  <2>3. PICK j \in {[sync[s] EXCEPT !.pc = "fetch"],
                    [sync[s] EXCEPT !.pc = "leave", !.failed = TRUE],
                    [sync[s] EXCEPT !.pc = "leave", !.deferred = sync[s].pc = "defer",
                                    !.failed = sync[s].pc = "fail"]} :
           /\ sync' = [sync EXCEPT ![s] = j]
           /\ \/ sync[s].pc = "start" /\ j.pc = "fetch"
              \/ sync[s].pc = "start" /\ j.pc = "leave" /\ j.failed
              \/ sync[s].pc \in {"defer", "fail"} /\ j.pc = "leave" /\ (j.failed \/ j.deferred)
    <3>1. CASE StartFetch(s) /\ Fenced(s)
      <4> DEFINE j == [sync[s] EXCEPT !.pc = "fetch"]
      <4>1. sync' = [sync EXCEPT ![s] = j] /\ sync[s].pc = "start" /\ j.pc = "fetch"
        BY <1>1, <3>1 DEF StartFetch, Goto, SyncState
      <4>2. QED
        BY <4>1
    <3>2. CASE StartFetch(s) /\ ~ Fenced(s)
      <4> DEFINE j == [sync[s] EXCEPT !.pc = "leave", !.failed = TRUE]
      <4>1. sync' = [sync EXCEPT ![s] = j] /\ sync[s].pc = "start" /\ j.pc = "leave" /\ j.failed
        BY <1>1, <3>2 DEF StartFetch, Fail, SyncState
      <4>2. QED
        BY <4>1
    <3>3. CASE FinishFetch(s)
      <4> DEFINE j == [sync[s] EXCEPT !.pc = "leave", !.deferred = sync[s].pc = "defer",
                                      !.failed = sync[s].pc = "fail"]
      <4>1. sync' = [sync EXCEPT ![s] = j] /\ sync[s].pc \in {"defer", "fail"}
        BY <1>1, <3>3 DEF FinishFetch
      <4>2. j.pc = "leave" /\ (j.failed \/ j.deferred)
        BY <1>1, <4>1 DEF SyncState
      <4>3. QED
        BY <4>1, <4>2
    <3>4. QED
      BY <1>3, <3>1, <3>2, <3>3
  <2>j. j \in SyncState /\ j.at = sync[s].at
    BY <1>1, <2>3 DEF SyncState, Place
  <2>4. TypeOK' /\ RowKnown'
    BY <2>1, <2>2, <2>3, <2>j DEF IInv, TypeOK, RowKnown
  <2>5. Knows(s, j)
    BY <1>1, <2>3, <2>j DEF Knows
  <2>6. \A t \in Sub : Knows(t, sync'[t])
    BY <1>1, <2>3, <2>5
  <2>7. \A t \in Sub : Knows(t, sync[t])'
    BY <2>1, <2>2, <2>6 DEF Knows, Fresh
  <2>8. QED
    BY <2>4, <2>7 DEF IInv
<1>4. CASE Commit(s)
  <2>1. CASE Fenced(s)
    <3> DEFINE j == [sync[s] EXCEPT !.pc = "leave", !.seen = NoBroadcast]
    <3>1. /\ sync[s].at \in Time /\ sync[s].at > 0 /\ sync[s].pc = "commit" /\ holder = s
          /\ sync[s].seen \in Broadcast /\ sync[s].seen.state \in State
      BY <1>1, <1>4, <2>1 DEF Commit, Knows, SyncState, Fenced
    <3>2. /\ j \in SyncState /\ j.pc = "leave" /\ j.at = sync[s].at
          /\ j.deferred = sync[s].deferred
      <4>1. NoBroadcast \in Broadcast
        BY NoSyncKnows, ParametersAssumption DEF NoBroadcast, Broadcast, State, None, Time
      <4>2. QED
        BY <1>1, <4>1 DEF SyncState, Place
    <3>3. /\ sync' = [sync EXCEPT ![s] = j]
          /\ row' = [state |-> sync[s].seen.state, ended |-> sync[s].seen.ended,
                     updated |-> IF row.state = sync[s].seen.state
                                    THEN row.updated ELSE sync[s].at]
          /\ channel' = [succeeded |-> sync[s].at, version |-> channel.version + 1,
                         status |-> "SUCCESS"]
          /\ UNCHANGED <<clock, youtube, holder, lastCalendarSyncAt, event, mapping>>
      BY <1>1, <1>4, <2>1 DEF Commit
    <3> HIDE DEF j
    <3>4. /\ row' \in [state : State \cup {None}, ended : Time, updated : Time]
          /\ row'.state = sync[s].seen.state
      BY <1>1, <3>1, <3>3 DEF Broadcast
    <3>5. /\ channel' \in [succeeded : Time, version : Nat,
                           status : {"none", "RUNNING", "SUCCESS", "DEFERRED", "FAILED"}]
          /\ channel'.succeeded = sync[s].at
      BY <1>1, <3>1, <3>3
    <3>6. TypeOK'
      BY <1>1, <3>2, <3>3, <3>4, <3>5 DEF IInv, TypeOK
    <3>7. sync[s].seen.state <= youtube.state
      BY <1>1, <3>1 DEF Knows
    <3>8. RowKnown'
      BY <1>1, <3>1, <3>3, <3>4, <3>7 DEF RowKnown
    <3>9. \A at \in Time : Fresh(at) => Fresh(at)'
      BY <1>1, <3>1, <3>5, ParametersAssumption DEF Knows, Fresh, Time
    <3>10. Knows(s, sync[s])'
      <4>1. Fresh(sync[s].at)'
        BY <3>1, <3>2, <3>3, <3>5, <1>1, ParametersAssumption DEF Fresh, Time
      <4>2. sync'[s] = j
        BY <1>1, <3>3
      <4>3. channel'.succeeded = sync[s].at /\ sync[s].at \in Nat /\ Window \in Nat \ {0}
        BY <3>1, <3>5, ParametersAssumption DEF Time
      <4>4. QED
        BY <3>1, <3>2, <4>2, <4>3 DEF Knows, Fresh
    <3>11. ASSUME NEW t \in Sub, t # s
           PROVE  Knows(t, sync[t])'
      <4>1. /\ sync'[t] = sync[t] /\ holder' # t /\ Knows(t, sync[t])
            /\ sync[t].at \in Time /\ UNCHANGED youtube
        BY <1>1, <3>1, <3>3, <3>11 DEF SyncState
      <4>2. Fresh(sync[t].at) => Fresh(sync[t].at)'
        BY <1>1, <3>1, <3>5, ParametersAssumption, <4>1 DEF Knows, Fresh, Time
      <4>3. QED
        BY <4>1, <4>2 DEF Knows, Fresh
    <3>12. QED
      BY <3>6, <3>8, <3>10, <3>11 DEF IInv
  <2>2. CASE ~ Fenced(s)
    <3> DEFINE j == [sync[s] EXCEPT !.pc = "fail"]
    <3>1. j \in SyncState /\ j.pc = "fail" /\ j.at = sync[s].at
      BY <1>1 DEF SyncState, Place
    <3>2. /\ sync' = [sync EXCEPT ![s] = j]
          /\ UNCHANGED <<clock, youtube, row, channel, holder, lastCalendarSyncAt, event, mapping>>
      BY <1>1, <1>4, <2>2 DEF Commit, Goto
    <3>3. Knows(s, j)
      BY <1>1, <1>4, <3>1 DEF Knows, Commit
    <3> HIDE DEF j
    <3>4. QED
      BY <1>1, <3>1, <3>2, <3>3, OneSync
  <2>3. QED
    BY <2>1, <2>2
<1>5. CASE Leave(s)
  <2>1. /\ UNCHANGED <<clock, youtube, row, channel, lastCalendarSyncAt, event, mapping>>
        /\ holder' \in {holder, Nobody} /\ sync[s].pc = "leave"
    BY <1>5 DEF Leave
  <2>2. PICK j \in {NoSync, [sync[s] EXCEPT !.pc = "list", !.base = 0,
                                             !.deferred = sync[s].deferred]} :
           /\ sync' = [sync EXCEPT ![s] = j]
           /\ j # NoSync => ~ sync[s].failed
    BY <1>1, <1>5 DEF Leave, ToList
  <2>3. j \in SyncState
    <3>1. [sync[s] EXCEPT !.pc = "list", !.base = 0, !.deferred = sync[s].deferred]
             \in SyncState
      BY <1>1 DEF SyncState, Place
    <3>2. QED
      BY <2>2, <3>1, NoSyncKnows
  <2>4. Knows(s, j)
    <3>1. CASE j = NoSync
      BY <3>1, NoSyncKnows
    <3>2. CASE j # NoSync
      <4>1. j.pc = "list" /\ j.at = sync[s].at /\ j.deferred = sync[s].deferred
            /\ ~ sync[s].failed
        BY <1>1, <2>2, <3>2 DEF SyncState
      <4>2. QED
        BY <1>1, <2>1, <4>1 DEF Knows
    <3>3. QED
      BY <3>1, <3>2
  <2>5. TypeOK' /\ RowKnown'
    BY <1>1, <2>1, <2>2, <2>3 DEF IInv, TypeOK, RowKnown
  <2>6. \A t \in Sub : Knows(t, sync'[t])
    BY <1>1, <2>2, <2>4
  <2>7. \A t \in Sub : holder' = t => holder = t
    BY <2>1, ParametersAssumption
  <2>8. \A t \in Sub : Knows(t, sync[t])'
    BY <2>1, <2>6, <2>7 DEF Knows, Fresh
  <2>9. QED
    BY <2>5, <2>8 DEF IInv
<1>6. QED
  BY <1>2, <1>3, <1>4, <1>5

-----------------------------------------------------------------------------

(* Steps outside the syncs; a lease that lapses only takes knowledge away. *)
LEMMA WorldIInv ==
    ASSUME IInv, Lapse \/ Change \/ Tick \/ \E s \in Sub : UserDeletesEvent(s)
    PROVE  IInv'
<1>1. CASE Lapse
  <2>1. TypeOK' /\ RowKnown'
    BY <1>1 DEF Lapse, IInv, TypeOK, RowKnown
  <2>2. \A t \in Sub : holder' # t
    BY <1>1, ParametersAssumption DEF Lapse
  <2>3. \A t \in Sub : Knows(t, sync[t])'
    BY <1>1, <2>2 DEF Lapse, IInv, Knows, Fresh
  <2>4. QED
    BY <2>1, <2>3 DEF IInv
<1>2. CASE Change
  <2>1. /\ youtube.state \in State /\ youtube.state + 1 \in State
        /\ youtube' = [state |-> youtube.state + 1,
                       ended |-> IF youtube.state + 1 = Final THEN clock ELSE 0]
        /\ UNCHANGED <<clock, row, channel, holder, sync, lastCalendarSyncAt, event, mapping>>
    BY <1>2, ParametersAssumption DEF Change, IInv, RowKnown, State
  <2>2. clock \in Time /\ 0 \in Time
    BY ParametersAssumption DEF IInv, TypeOK, Time
  <2>3. youtube' \in Broadcast
    BY <2>1, <2>2 DEF Broadcast
  <2>4. TypeOK'
    BY <2>1, <2>3 DEF IInv, TypeOK
  <2>5. RowKnown'
    BY <2>1, ParametersAssumption DEF IInv, TypeOK, RowKnown, State, None
  <2>6. \A t \in Sub : Knows(t, sync[t])'
    <3>1. ASSUME NEW t \in Sub
          PROVE  Knows(t, sync[t])'
      <4>1. Knows(t, sync[t]) /\ youtube'.state = youtube.state + 1
        BY <2>1 DEF IInv
      <4>2. sync[t].pc = "commit" => sync[t].seen.state <= youtube'.state
        BY <2>1, <4>1, ParametersAssumption DEF Knows, State
      <4>3. QED
        BY <2>1, <4>1, <4>2 DEF Knows, Fresh
    <3>2. QED
      BY <3>1
  <2>7. QED
    BY <2>4, <2>5, <2>6 DEF IInv
<1>3. CASE Tick
  <2>1. clock' \in Time
        /\ UNCHANGED <<youtube, row, channel, holder, sync, lastCalendarSyncAt, event, mapping>>
    BY <1>3, ParametersAssumption DEF Tick, IInv, TypeOK, Time
  <2>2. TypeOK' /\ RowKnown'
    BY <2>1 DEF IInv, TypeOK, RowKnown
  <2>3. \A t \in Sub : Knows(t, sync[t])'
    BY <2>1 DEF IInv, Knows, Fresh
  <2>4. QED
    BY <2>2, <2>3 DEF IInv
<1>4. CASE \E s \in Sub : UserDeletesEvent(s)
  <2>1. event' \in [Sub -> State \cup {None}]
        /\ UNCHANGED <<clock, youtube, row, channel, holder, sync, lastCalendarSyncAt, mapping>>
    BY <1>4 DEF UserDeletesEvent, IInv, TypeOK
  <2>2. TypeOK' /\ RowKnown'
    BY <2>1 DEF IInv, TypeOK, RowKnown
  <2>3. \A t \in Sub : Knows(t, sync[t])'
    BY <2>1 DEF IInv, Knows, Fresh
  <2>4. QED
    BY <2>2, <2>3 DEF IInv
<1>5. QED
  BY <1>1, <1>2, <1>3, <1>4

LEMMA StepIInv == IInv /\ [Next]_vars => IInv'
<1> SUFFICES ASSUME IInv, [Next]_vars
             PROVE  IInv'
  OBVIOUS
<1>1. CASE Next
  BY <1>1, ReadIInv, FetchIInv, WorldIInv DEF Next
<1>2. CASE UNCHANGED vars
  BY <1>2 DEF vars, IInv, TypeOK, RowKnown, Knows, Fresh
<1>3. QED
  BY <1>1, <1>2

(* The inductive invariant holds in every reachable state.                 *)
THEOREM ChannelInvariant == Spec => []IInv
  BY InitIInv, StepIInv, PTL DEF Spec

(* Every variable keeps its type: in particular no state is null where the *)
(* code would dereference it.                                              *)
THEOREM ChannelTypeOK == Spec => []TypeOK
  BY ChannelInvariant, PTL DEF IInv

(* For any number of subscribers, a sync that is not deferred lists rows   *)
(* of a snapshot that was fresh for it.                                    *)
THEOREM ChannelSuccessIsFresh == Spec => []SuccessIsFresh
<1>1. IInv => SuccessIsFresh
  BY DEF IInv, Knows, SuccessIsFresh
<1>2. QED
  BY <1>1, ChannelInvariant, PTL

(* The row and the channel change in Commit under the lease only.          *)
LEMMA CommitOnly ==
    ASSUME IInv, [Next]_vars
    PROVE  \/ /\ row' = row /\ channel'.version = channel.version
              /\ channel'.succeeded = channel.succeeded
           \/ \E s \in Sub :
                 /\ sync[s].pc = "commit" /\ holder = s /\ Knows(s, sync[s])
                 /\ row'.state = sync[s].seen.state
                 /\ channel'.succeeded = sync[s].at /\ sync[s].at \in Time
<1>1. ASSUME NEW s \in Sub, Commit(s), Fenced(s)
      PROVE  /\ sync[s].pc = "commit" /\ holder = s /\ Knows(s, sync[s])
             /\ row'.state = sync[s].seen.state
             /\ channel'.succeeded = sync[s].at /\ sync[s].at \in Time
  BY <1>1 DEF Commit, Fenced, IInv, TypeOK, SyncState
<1>2. ASSUME NEW s \in Sub, Commit(s), ~ Fenced(s)
      PROVE  row' = row /\ channel' = channel
  BY <1>2 DEF Commit
<1>3. ASSUME NEW s \in Sub, StartFetch(s) \/ FinishFetch(s)
      PROVE  /\ row' = row /\ channel'.version = channel.version
             /\ channel'.succeeded = channel.succeeded
  BY <1>3 DEF StartFetch, FinishFetch, IInv, TypeOK
<1>4. ASSUME NEW s \in Sub,
             \/ Start(s) \/ Acquire(s) \/ Recheck(s) \/ Fetch(s) \/ Leave(s)
             \/ WaitForSnapshot(s) \/ ListBroadcasts(s) \/ Upsert(s) \/ SaveMapping(s)
             \/ SaveResult(s) \/ CalendarFails(s) \/ Crash(s) \/ UserDeletesEvent(s)
      PROVE  row' = row /\ channel' = channel
  BY <1>4 DEF Start, Acquire, Recheck, Fetch, Leave, WaitForSnapshot, ListBroadcasts, Upsert,
              SaveMapping, SaveResult, CalendarFails, Crash, UserDeletesEvent
<1>5. ASSUME Lapse \/ Change \/ Tick \/ UNCHANGED vars
      PROVE  row' = row /\ channel' = channel
  BY <1>5 DEF Lapse, Change, Tick, vars
<1>6. QED
  BY <1>1, <1>2, <1>3, <1>4, <1>5 DEF Next

(* For any number of subscribers and any interleaving of lost leases and   *)
(* crashes, no commit takes a row back to an older state.                  *)
THEOREM ChannelRowNeverGoesBack == Spec => RowNeverGoesBack
<1>1. ASSUME IInv, [Next]_vars, row.state # None
      PROVE  row'.state # None /\ row'.state >= row.state
  <2>1. row.state \in State
    BY <1>1 DEF IInv, TypeOK
  <2>2. CASE row' = row
    BY <2>1, <2>2, <1>1, ParametersAssumption DEF State
  <2>3. ASSUME NEW s \in Sub, sync[s].pc = "commit", holder = s, Knows(s, sync[s]),
               row'.state = sync[s].seen.state
        PROVE  row'.state # None /\ row'.state >= row.state
    BY <1>1, <2>3, ParametersAssumption DEF Knows, State, None
  <2>4. QED
    BY <1>1, <2>2, <2>3, CommitOnly
<1>2. IInv /\ [Next]_vars => [row.state # None => row'.state # None /\ row'.state >= row.state]_vars
  BY <1>1
<1>3. QED
  BY <1>2, ChannelInvariant, PTL DEF Spec, RowNeverGoesBack

(* For any number of subscribers, successful fetches belong to syncs that  *)
(* began at least a window apart.                                          *)
THEOREM ChannelOneFetchPerWindow == Spec => OneFetchPerWindow
<1>1. ASSUME IInv, [Next]_vars, channel'.version # channel.version, channel.succeeded # 0
      PROVE  channel'.succeeded >= channel.succeeded + Window
  <2>1. channel.succeeded \in Time
    BY <1>1 DEF IInv, TypeOK
  <2>2. PICK s \in Sub : /\ sync[s].pc = "commit" /\ holder = s /\ Knows(s, sync[s])
                         /\ channel'.succeeded = sync[s].at /\ sync[s].at \in Time
    BY <1>1, CommitOnly
  <2>3. ~ (sync[s].at < channel.succeeded + Window)
    BY <1>1, <2>2 DEF Knows, Fresh
  <2>4. QED
    BY <2>1, <2>2, <2>3, ParametersAssumption DEF Time
<1>2. IInv /\ [Next]_vars
         => [channel'.version # channel.version /\ channel.succeeded # 0
                => channel'.succeeded >= channel.succeeded + Window]_vars
  BY <1>1
<1>3. QED
  BY <1>2, ChannelInvariant, PTL DEF Spec, OneFetchPerWindow

-----------------------------------------------------------------------------
(* A fetch that was announced is on record until its holder ends it.       *)
Fetching == {"fetch", "commit", "defer", "fail"}
Announced ==
    \A s \in Sub : sync[s].pc \in Fetching /\ holder = s => channel.status = "RUNNING"

LEMMA AnnouncedStep ==
    ASSUME IInv, Announced, [Next]_vars
    PROVE  Announced'
<1>1. sync \in [Sub -> SyncState] /\ Nobody \notin Sub
  BY ParametersAssumption DEF IInv, TypeOK
<1>2. ASSUME NEW s \in Sub, UNCHANGED channel, holder' \in {holder, Nobody, s},
             \A t \in Sub \ {s} : sync'[t] = sync[t],
             sync'[s].pc \in Fetching => sync[s].pc \in Fetching /\ holder' = holder
      PROVE  Announced'
  BY <1>1, <1>2 DEF Announced
<1>3. ASSUME NEW s \in Sub, Start(s) \/ SaveResult(s) \/ CalendarFails(s) \/ Crash(s)
      PROVE  Announced'
  <2>1. /\ \A t \in Sub \ {s} : sync'[t] = sync[t]
        /\ sync'[s].pc \notin Fetching
    <3>1. CASE Start(s)
      <4>1. PICK place \in {"list", "acquire"}, base \in {0, channel.version} :
               sync' = [sync EXCEPT ![s] = [NoSync EXCEPT !.pc = place, !.at = clock + 1,
                                              !.since = lastCalendarSyncAt[s], !.base = base]]
        BY <3>1 DEF Start
      <4>2. QED
        BY <1>1, <4>1 DEF NoSync, Fetching
    <3>2. CASE SaveResult(s) \/ CalendarFails(s) \/ Crash(s)
      BY <1>1, <3>2 DEF SaveResult, CalendarFails, Crash, NoSync, Fetching
    <3>3. QED
      BY <1>3, <3>1, <3>2
  <2>2. UNCHANGED <<channel, holder>>
    BY <1>3 DEF Start, SaveResult, CalendarFails, Crash
  <2>3. QED
    BY <1>2, <2>1, <2>2
<1>4. ASSUME NEW s \in Sub, WaitForSnapshot(s) \/ ListBroadcasts(s) \/ Upsert(s) \/ SaveMapping(s)
                            \/ Recheck(s)
      PROVE  Announced'
  <2>1. /\ \A t \in Sub \ {s} : sync'[t] = sync[t]
        /\ sync'[s].pc \notin Fetching
    <3>1. CASE ListBroadcasts(s)
      <4>1. PICK p \in {"upsert", "save"} :
               sync' = [sync EXCEPT ![s].pc = p, ![s].item = row.state, ![s].since = 0]
        BY <3>1 DEF ListBroadcasts
      <4>2. QED
        BY <1>1, <4>1 DEF Fetching, SyncState
    <3>2. CASE ~ ListBroadcasts(s)
      BY <1>1, <1>4, <3>2 DEF WaitForSnapshot, ToList, Upsert, SaveMapping, Recheck, Goto,
                              Fetching, SyncState
    <3>3. QED
      BY <3>1, <3>2
  <2>2. UNCHANGED <<channel, holder>>
    BY <1>4 DEF WaitForSnapshot, ListBroadcasts, Upsert, SaveMapping, Recheck
  <2>3. QED
    BY <1>2, <2>1, <2>2
<1>5. ASSUME NEW s \in Sub, Acquire(s) PROVE Announced'
  <2>1. /\ \A t \in Sub \ {s} : sync'[t] = sync[t]
        /\ sync'[s].pc \notin Fetching
    BY <1>1, <1>5 DEF Acquire, Goto, Fetching, SyncState
  <2>2. UNCHANGED channel /\ holder' \in {holder, s}
    BY <1>5 DEF Acquire
  <2>3. QED
    BY <1>2, <2>1, <2>2
<1>6. ASSUME NEW s \in Sub, Leave(s) PROVE Announced'
  <2>1. /\ \A t \in Sub \ {s} : sync'[t] = sync[t]
        /\ sync'[s].pc \notin Fetching
    BY <1>1, <1>6 DEF Leave, ToList, NoSync, Fetching, SyncState
  <2>2. UNCHANGED channel /\ holder' \in {holder, Nobody}
    BY <1>6 DEF Leave
  <2>3. QED
    BY <1>2, <2>1, <2>2
<1>7. ASSUME NEW s \in Sub, Fetch(s) PROVE Announced'
  <2>1. sync[s].pc = "fetch" /\ \A t \in Sub \ {s} : sync'[t] = sync[t]
    BY <1>1, <1>7 DEF Fetch, Goto
  <2>2. UNCHANGED <<channel, holder>>
    BY <1>7 DEF Fetch
  <2>3. QED
    BY <1>2, <2>1, <2>2 DEF Fetching
<1>8. ASSUME NEW s \in Sub, StartFetch(s) PROVE Announced'
  <2>1. CASE Fenced(s)
    <3>1. channel' = [channel EXCEPT !.status = "RUNNING"] /\ holder' = holder
      BY <1>8, <2>1 DEF StartFetch
    <3>2. channel'.status = "RUNNING"
      BY <3>1 DEF IInv, TypeOK
    <3>3. QED
      BY <3>2 DEF Announced
  <2>2. CASE ~ Fenced(s)
    <3>1. UNCHANGED <<channel, holder>> /\ Fail(s)
      BY <1>8, <2>2 DEF StartFetch
    <3>2. /\ \A t \in Sub \ {s} : sync'[t] = sync[t]
          /\ sync'[s].pc \notin Fetching
      BY <1>1, <3>1 DEF Fail, Fetching, SyncState
    <3>3. QED
      BY <1>2, <3>1, <3>2
  <2>3. QED
    BY <2>1, <2>2
<1>9. ASSUME NEW s \in Sub, Commit(s) \/ FinishFetch(s) PROVE Announced'
  <2>1. /\ sync[s].pc \in Fetching /\ \A t \in Sub \ {s} : sync'[t] = sync[t]
        /\ UNCHANGED holder
    BY <1>1, <1>9 DEF Commit, FinishFetch, Goto, Fetching
  <2>2. CASE Fenced(s)
    <3>1. sync'[s].pc = "leave"
      BY <1>1, <1>9, <2>2 DEF Commit, FinishFetch, SyncState
    <3>2. QED
      BY <2>1, <2>2, <3>1 DEF Announced, Fenced, Fetching
  <2>3. CASE ~ Fenced(s)
    <3>1. UNCHANGED channel
      BY <1>9, <2>3 DEF Commit, FinishFetch
    <3>2. QED
      BY <1>2, <2>1, <3>1
  <2>4. QED
    BY <2>2, <2>3
<1>10. CASE Lapse
  BY <1>1, <1>10 DEF Lapse, Announced
<1>11. CASE Change \/ Tick \/ UNCHANGED vars \/ \E s \in Sub : UserDeletesEvent(s)
  BY <1>11 DEF Change, Tick, vars, UserDeletesEvent, Announced
<1>12. QED
  BY <1>3, <1>4, <1>5, <1>6, <1>7, <1>8, <1>9, <1>10, <1>11 DEF Next

(* Every step is one the store promises, or none for the rows.             *)
LEMMA SnapshotStep ==
    ASSUME IInv, Announced, [Next]_vars
    PROVE  [Snapshot!Next]_<<row, channel>>
<1>1. ASSUME NEW s \in Sub, Commit(s), Fenced(s) PROVE Snapshot!Next
  <2>1. /\ sync[s] \in SyncState /\ sync[s].pc = "commit" /\ holder = s /\ Knows(s, sync[s])
        /\ channel.succeeded \in Time
    BY <1>1 DEF Commit, Fenced, IInv, TypeOK
  <2>2. /\ sync[s].seen.state \in 0 .. Final /\ sync[s].seen.ended \in Time /\ sync[s].at \in Time
    BY <2>1 DEF Knows, SyncState, Broadcast, State
  <2>3. channel.status = "RUNNING"
    BY <2>1 DEF Announced, Fetching
  <2>4. sync[s].at > channel.succeeded
    BY <2>1, <2>2, ParametersAssumption DEF Knows, Fresh, Time
  <2>5. Snapshot!CommitSnapshot(sync[s].seen.state, sync[s].seen.ended, sync[s].at)
    BY <1>1, <2>3, <2>4 DEF Commit, Snapshot!CommitSnapshot, Snapshot!Upserted
  <2>6. QED
    BY <2>2, <2>5 DEF Snapshot!Next
<1>2. ASSUME NEW s \in Sub, Commit(s), ~ Fenced(s)
      PROVE  row' = row /\ channel' = channel
  BY <1>2 DEF Commit
<1>3. ASSUME NEW s \in Sub, StartFetch(s) PROVE Snapshot!Next \/ UNCHANGED <<row, channel>>
  BY <1>3 DEF StartFetch, Snapshot!Next, Snapshot!StartFetch
<1>4. ASSUME NEW s \in Sub, FinishFetch(s) PROVE Snapshot!Next \/ UNCHANGED <<row, channel>>
  <2>1. CASE Fenced(s)
    <3>1. channel.status = "RUNNING" /\ UNCHANGED row
      BY <1>4, <2>1 DEF FinishFetch, Announced, Fenced, Fetching
    <3>2. PICK status \in {"DEFERRED", "FAILED"} : channel' = [channel EXCEPT !.status = status]
      BY <1>4, <2>1 DEF FinishFetch
    <3>3. QED
      BY <3>1, <3>2 DEF Snapshot!Next, Snapshot!FinishFetch
  <2>2. CASE ~ Fenced(s)
    BY <1>4, <2>2 DEF FinishFetch
  <2>3. QED
    BY <2>1, <2>2
<1>5. ASSUME NEW s \in Sub,
             \/ Start(s) \/ Acquire(s) \/ Recheck(s) \/ Fetch(s) \/ Leave(s)
             \/ WaitForSnapshot(s) \/ ListBroadcasts(s) \/ Upsert(s) \/ SaveMapping(s)
             \/ SaveResult(s) \/ CalendarFails(s) \/ Crash(s) \/ UserDeletesEvent(s)
      PROVE  row' = row /\ channel' = channel
  BY <1>5 DEF Start, Acquire, Recheck, Fetch, Leave, WaitForSnapshot, ListBroadcasts, Upsert,
              SaveMapping, SaveResult, CalendarFails, Crash, UserDeletesEvent
<1>6. ASSUME Lapse \/ Change \/ Tick \/ UNCHANGED vars
      PROVE  row' = row /\ channel' = channel
  BY <1>6 DEF Lapse, Change, Tick, vars
<1>7. QED
  BY <1>1, <1>2, <1>3, <1>4, <1>5, <1>6 DEF Next

(* Fetches under leases that lapse and workers that die implement the      *)
(* store's promise: a fetch ends once, as a later version or as an error.  *)
THEOREM ChannelImplementsSnapshot == Spec => ImplementsSnapshot
<1>1. Init => Announced /\ Snapshot!Init
  BY ParametersAssumption DEF Init, Announced, NoSync, Fetching, Snapshot!Init, None, Snapshot!None
<1>2. IInv /\ Announced /\ [Next]_vars => Announced' /\ [Snapshot!Next]_<<row, channel>>
  BY AnnouncedStep, SnapshotStep
<1>3. QED
  BY <1>1, <1>2, ChannelInvariant, PTL DEF Spec, ImplementsSnapshot, Snapshot!Spec, Snapshot!vars

-----------------------------------------------------------------------------
(* The calendar of a subscription none of whose syncs is deferred.         *)

(* The mapping of s is that of the row, unless the row has changed since   *)
(* the sync that saved lastCalendarSyncAt began.                           *)
Mapped(s) ==
    /\ row.state = None => mapping[s] = None
    /\ lastCalendarSyncAt[s] # 0 => Fresh(lastCalendarSyncAt[s])
    /\ lastCalendarSyncAt[s] <= clock
    /\ lastCalendarSyncAt[s] # 0 /\ mapping[s] # None /\ row.updated <= lastCalendarSyncAt[s]
          => mapping[s] = row.state

(* What the running sync j of s has to do, or did: it began after the last *)
(* one that saved; the row it saw is the row until that changes with a     *)
(* later time; and a mapping there is in the end is that of the row it saw.*)
Listing(s, j) ==
    /\ j.pc # "idle" => /\ j.since \in {0, lastCalendarSyncAt[s]}
                        /\ lastCalendarSyncAt[s] <= j.at /\ j.at <= clock
    /\ j.pc \in {"upsert", "map"} => j.item # None
    /\ j.pc \in {"upsert", "map", "save"} /\ j.item # None
          => row.state # None /\ (row.updated <= j.at => row.state = j.item)
    /\ j.pc = "save" /\ mapping[s] # None => mapping[s] = j.item

Current(s) == Mapped(s) /\ Listing(s, sync[s])

LEMMA InitCurrent == ASSUME Init, NEW s \in Sub PROVE Current(s)
  BY ParametersAssumption DEF Init, Current, Mapped, Listing, NoSync, Fresh, None

(* The types the steps below rest on.                                      *)
LEMMA Typed ==
    ASSUME IInv, NEW s \in Sub
    PROVE  /\ sync \in [Sub -> SyncState] /\ sync[s] \in SyncState
           /\ sync[s].at \in Nat /\ sync[s].since \in Nat
           /\ sync[s].item \in State \cup {None}
           /\ clock \in Nat /\ lastCalendarSyncAt[s] \in Nat
           /\ lastCalendarSyncAt \in [Sub -> Time] /\ mapping \in [Sub -> State \cup {None}]
           /\ row.updated \in Nat /\ row.state \in State \cup {None}
           /\ channel.succeeded \in Nat /\ None \notin State
  BY ParametersAssumption DEF IInv, TypeOK, SyncState, Time, State, None

(* A step that leaves the row, the times and the mapping of s alone.       *)
LEMMA CurrentSync ==
    ASSUME IInv, NEW s \in Sub, Current(s), NEW j, Listing(s, j), sync'[s] = j,
           UNCHANGED row, channel'.succeeded = channel.succeeded,
           clock' \in Nat, clock' >= clock, j.pc = "idle" \/ j.at \in Nat,
           mapping'[s] = mapping[s], lastCalendarSyncAt'[s] = lastCalendarSyncAt[s]
    PROVE  Current(s)'
<1>1. Mapped(s)'
  <2>1. lastCalendarSyncAt[s] \in Nat /\ clock \in Nat
    BY Typed
  <2>2. QED
    BY <2>1 DEF Current, Mapped, Fresh
<1>2. Listing(s, sync[s])'
  <2>1. clock \in Nat
    BY Typed
  <2>2. QED
    BY <2>1 DEF Listing
<1>3. QED
  BY <1>1, <1>2 DEF Current

(* The row changes only under the lease, with a time after that of every   *)
(* sync for which the channel was fresh; a row that is over stays.         *)
LEMMA CommitCurrent ==
    ASSUME IInv, NEW s \in Sub, Current(s), ~ sync[s].deferred,
           NEW t \in Sub, Commit(t), Fenced(t)
    PROVE  Current(s)'
<1> DEFINE at == sync[t].at
           seen == sync[t].seen.state
<1>1. /\ row'.state = seen
      /\ row'.updated = IF row.state = seen THEN row.updated ELSE at
      /\ channel'.succeeded = at
      /\ UNCHANGED <<clock, mapping, lastCalendarSyncAt>>
  BY DEF Commit
<1>sync. /\ sync'[t].pc = "leave" /\ sync'[t].at = at /\ sync'[t].since = sync[t].since
      /\ \A r \in Sub \ {t} : sync'[r] = sync[r]
  <2>1. sync' = [sync EXCEPT ![t].pc = "leave", ![t].seen = NoBroadcast]
    BY DEF Commit
  <2>2. QED
    BY <2>1, Typed DEF SyncState
<1>2. /\ at \in Nat /\ at > 0 /\ ~ Fresh(at) /\ seen \in State
      /\ row.state # None => seen >= row.state
  BY Typed DEF IInv, Knows, Commit, Fenced
<1>3. \A past \in Nat : Fresh(past) => past < at
  BY <1>2, Typed, ParametersAssumption DEF Fresh
<1>4. \A past \in Nat : Fresh(past) => at # 0 /\ past < at + Window
  BY <1>2, <1>3, ParametersAssumption
<1>5. Mapped(s)'
  <2> DEFINE last == lastCalendarSyncAt[s]
  <2>1. last \in Nat /\ lastCalendarSyncAt'[s] = last /\ mapping'[s] = mapping[s]
    BY Typed, <1>1
  <2>2. row'.state # None
    BY <1>1, <1>2, Typed
  <2>3. last # 0 => Fresh(last)'
    BY <1>1, <1>4, <2>1 DEF Current, Mapped, Fresh
  <2>4. last # 0 /\ row'.updated <= last => row'.updated = row.updated /\ row'.state = row.state
    BY <1>1, <1>2, <1>3, <2>1 DEF Current, Mapped
  <2>5. QED
    BY <1>1, <2>1, <2>2, <2>3, <2>4 DEF Current, Mapped
<1>6. Listing(s, sync[s])'
  <2>1. CASE t = s
    <3>1. sync'[s].pc = "leave" /\ sync'[s].at = sync[s].at /\ sync'[s].since = sync[s].since
      BY <1>sync, <2>1
    <3>2. sync[s].pc = "commit"
      BY <2>1 DEF Commit
    <3>3. QED
      BY <1>1, <3>1, <3>2 DEF Current, Listing
  <2>2. CASE t # s
    <3>1. sync'[s] = sync[s] /\ mapping'[s] = mapping[s]
          /\ lastCalendarSyncAt'[s] = lastCalendarSyncAt[s] /\ clock' = clock
      BY <1>1, <1>sync, <2>2
    <3>2. row'.state # None
      BY <1>1, <1>2, Typed
    <3>3. sync[s].pc \in {"upsert", "map", "save"} /\ row'.updated <= sync[s].at
             => row'.state = row.state /\ row'.updated = row.updated
      <4>1. sync[s].pc \in {"upsert", "map", "save"} => sync[s].at < at
        BY <1>3, Typed DEF IInv, Knows
      <4>2. QED
        BY <1>1, <1>2, <4>1, Typed
    <3>4. QED
      BY <3>1, <3>2, <3>3 DEF Current, Listing
  <2>3. QED
    BY <2>1, <2>2
<1>7. QED
  BY <1>5, <1>6 DEF Current

(* A step of the sync of s itself.                                         *)
LEMMA OwnCurrent ==
    ASSUME IInv, NEW s \in Sub, Current(s), ~ sync[s].deferred, ~ sync'[s].deferred,
           \/ Start(s) \/ Acquire(s) \/ Recheck(s) \/ StartFetch(s) \/ Fetch(s)
           \/ (Commit(s) /\ ~ Fenced(s)) \/ FinishFetch(s) \/ Leave(s) \/ WaitForSnapshot(s)
           \/ ListBroadcasts(s) \/ Upsert(s) \/ SaveMapping(s) \/ SaveResult(s)
           \/ CalendarFails(s) \/ Crash(s)
    PROVE  Current(s)'
<1> USE Typed
<1> DEFINE k == sync'[s]
<1>1. CASE Start(s)
  <2>1. PICK place \in {"list", "acquire"}, base \in {0, channel.version} :
           sync' = [sync EXCEPT ![s] = [NoSync EXCEPT !.pc = place, !.at = clock + 1,
                                          !.since = lastCalendarSyncAt[s], !.base = base]]
    BY <1>1 DEF Start
  <2>2. k.pc \in {"list", "acquire"} /\ k.at = clock + 1 /\ k.since = lastCalendarSyncAt[s]
    BY <2>1 DEF NoSync
  <2>3. clock' = clock + 1 /\ UNCHANGED <<row, channel, lastCalendarSyncAt, mapping>>
    BY <1>1 DEF Start
  <2>4. Mapped(s)'
    BY <2>3 DEF Current, Mapped, Fresh
  <2>5. lastCalendarSyncAt[s] <= clock
    BY DEF Current, Mapped
  <2>6. Listing(s, sync[s])'
    BY <2>2, <2>3, <2>5 DEF Listing
  <2>7. QED
    BY <2>4, <2>6 DEF Current
<1>2. CASE \/ Acquire(s) \/ Recheck(s) \/ StartFetch(s) \/ Fetch(s)
           \/ (Commit(s) /\ ~ Fenced(s)) \/ FinishFetch(s) \/ Leave(s) \/ WaitForSnapshot(s)
  <2>1. /\ k.pc \notin {"upsert", "map", "save"}
        /\ k.pc # "idle" => k.at = sync[s].at /\ k.since = sync[s].since /\ sync[s].pc # "idle"
    <3>1. CASE Acquire(s) \/ Recheck(s) \/ StartFetch(s)
      BY <3>1 DEF Acquire, Recheck, StartFetch, Goto, Fail, SyncState
    <3>2. CASE Fetch(s)
      BY <3>2 DEF Fetch, Goto, SyncState
    <3>3. CASE Commit(s) /\ ~ Fenced(s)
      BY <3>3 DEF Commit, Goto, SyncState
    <3>4. CASE FinishFetch(s)
      BY <3>4 DEF FinishFetch, SyncState
    <3>5. CASE Leave(s)
      BY <3>5 DEF Leave, ToList, NoSync, SyncState
    <3>6. CASE WaitForSnapshot(s)
      BY <3>6 DEF WaitForSnapshot, ToList, SyncState
    <3>7. QED
      BY <1>2, <3>1, <3>2, <3>3, <3>4, <3>5, <3>6
  <2>2. /\ UNCHANGED <<row, clock, lastCalendarSyncAt, mapping>>
        /\ channel'.succeeded = channel.succeeded
    BY <1>2 DEF Acquire, Recheck, StartFetch, Fetch, Commit, FinishFetch, Leave,
                WaitForSnapshot, IInv, TypeOK
  <2>3. Listing(s, k)
    BY <2>1 DEF Current, Listing
  <2>4. k.pc = "idle" \/ k.at \in Nat
    BY <2>1
  <2> HIDE DEF k
  <2>5. sync'[s] = k
    BY DEF k
  <2>6. QED
    BY <2>2, <2>3, <2>4, <2>5, CurrentSync
<1>3. CASE ListBroadcasts(s)
  <2>p. PICK listed \in BOOLEAN :
           /\ MustList(s) => listed
           /\ listed => MayList(s)
           /\ sync' = [sync EXCEPT ![s].pc = IF listed THEN "upsert" ELSE "save",
                                   ![s].item = row.state, ![s].since = 0]
    BY <1>3 DEF ListBroadcasts
  <2>1. /\ k.pc = IF listed THEN "upsert" ELSE "save"
        /\ k.item = row.state /\ k.since = 0 /\ k.at = sync[s].at
    BY <2>p DEF SyncState
  <2>2. /\ UNCHANGED <<row, clock, channel, lastCalendarSyncAt, mapping>>
        /\ sync[s].pc = "list"
    BY <1>3 DEF ListBroadcasts
  <2>3. CASE listed
    <3>1. row.state # None
      BY <2>p, <2>3 DEF MayList, MustList
    <3>2. Listing(s, k)
      BY <2>1, <2>2, <2>3, <3>1 DEF Current, Listing
    <3> HIDE DEF k
    <3>3. sync'[s] = k
      BY DEF k
    <3>4. QED
      BY <2>1, <2>2, <3>2, <3>3, CurrentSync
  <2>4. CASE ~ listed
    <3>1. mapping[s] # None => mapping[s] = row.state
      BY <2>p, <2>2, <2>4 DEF MustList, Current, Mapped, Listing
    <3>2. Listing(s, k)
      BY <2>1, <2>2, <2>4, <3>1 DEF Current, Listing
    <3> HIDE DEF k
    <3>3. sync'[s] = k
      BY DEF k
    <3>4. QED
      BY <2>1, <2>2, <3>2, <3>3, CurrentSync
  <2>5. QED
    BY <2>3, <2>4
<1>4. CASE Upsert(s)
  <2>1. /\ k.pc \in {"map", "save"}
        /\ k.pc = "save" => ~ (ShouldSync(s) /\ Outdated(s))
        /\ k.item = sync[s].item /\ k.since = sync[s].since /\ k.at = sync[s].at
    BY <1>4 DEF Upsert, Goto, SyncState
  <2>2. /\ UNCHANGED <<row, clock, channel, lastCalendarSyncAt, mapping>>
        /\ sync[s].pc = "upsert"
    BY <1>4 DEF Upsert
  <2>3. k.pc = "save" /\ mapping[s] # None => mapping[s] = k.item
    BY <2>1 DEF ShouldSync, Outdated
  <2>4. Listing(s, k)
    BY <2>1, <2>2, <2>3 DEF Current, Listing
  <2> HIDE DEF k
  <2>5. sync'[s] = k
    BY DEF k
  <2>6. QED
    BY <2>1, <2>2, <2>4, <2>5, CurrentSync
<1>5. CASE SaveMapping(s)
  <2>1. k.pc = "save" /\ k.item = sync[s].item /\ k.since = sync[s].since /\ k.at = sync[s].at
    BY <1>5 DEF SaveMapping, Goto, SyncState
  <2>2. /\ UNCHANGED <<row, clock, channel, lastCalendarSyncAt>>
        /\ sync[s].pc = "map" /\ mapping'[s] = sync[s].item
    BY <1>5 DEF SaveMapping
  <2>3. /\ sync[s].item # None /\ row.state # None
        /\ row.updated <= sync[s].at => row.state = sync[s].item
        /\ lastCalendarSyncAt[s] <= sync[s].at /\ sync[s].at <= clock
        /\ sync[s].since \in {0, lastCalendarSyncAt[s]}
    BY <2>2 DEF Current, Listing
  <2>4. Mapped(s)'
    BY <2>2, <2>3 DEF Current, Mapped, Fresh
  <2>5. Listing(s, sync[s])'
    BY <2>1, <2>2, <2>3 DEF Listing
  <2>6. QED
    BY <2>4, <2>5 DEF Current
<1>6. CASE SaveResult(s)
  <2>1. /\ lastCalendarSyncAt'[s] = sync[s].at /\ k = NoSync
        /\ UNCHANGED <<row, clock, channel, mapping>> /\ sync[s].pc = "save"
    BY <1>6 DEF SaveResult
  <2>2. Fresh(sync[s].at) /\ sync[s].at <= clock
    BY <2>1 DEF IInv, Knows, Current, Listing
  <2>3. mapping[s] # None /\ row.updated <= sync[s].at => mapping[s] = row.state
    BY <2>1 DEF Current, Listing
  <2>4. Mapped(s)'
    BY <2>1, <2>2, <2>3 DEF Current, Mapped, Fresh
  <2>5. Listing(s, sync[s])'
    BY <2>1 DEF Listing, NoSync
  <2>6. QED
    BY <2>4, <2>5 DEF Current
<1>7. CASE CalendarFails(s) \/ Crash(s)
  <2>1. UNCHANGED <<row, clock, channel, mapping, lastCalendarSyncAt>> /\ sync'[s] = NoSync
    BY <1>7 DEF CalendarFails, Crash
  <2>2. Listing(s, NoSync) /\ NoSync.pc = "idle"
    BY DEF Listing, NoSync
  <2>3. QED
    BY <2>1, <2>2, CurrentSync
<1>8. QED
  BY <1>1, <1>2, <1>3, <1>4, <1>5, <1>6, <1>7

(* A step of another sync that does not commit, of its user or of time.    *)
LEMMA OtherCurrent ==
    ASSUME IInv, NEW s \in Sub, Current(s),
           \/ UNCHANGED vars \/ Lapse \/ Change \/ Tick
           \/ \E t \in Sub : UserDeletesEvent(t)
           \/ \E t \in Sub \ {s} :
                 \/ Start(t) \/ Acquire(t) \/ Recheck(t) \/ StartFetch(t) \/ Fetch(t)
                 \/ (Commit(t) /\ ~ Fenced(t)) \/ FinishFetch(t) \/ Leave(t)
                 \/ WaitForSnapshot(t) \/ ListBroadcasts(t) \/ Upsert(t) \/ SaveMapping(t)
                 \/ SaveResult(t) \/ CalendarFails(t) \/ Crash(t)
    PROVE  Current(s)'
<1> USE Typed
<1>1. CASE UNCHANGED vars \/ Lapse \/ Change \/ Tick \/ \E t \in Sub : UserDeletesEvent(t)
  <2>1. /\ UNCHANGED <<row, channel, sync, lastCalendarSyncAt, mapping>>
        /\ clock' \in {clock, clock + 1}
    BY <1>1 DEF vars, Lapse, Change, Tick, UserDeletesEvent
  <2>2. Listing(s, sync[s])
    BY DEF Current
  <2>3. QED
    BY <2>1, <2>2, CurrentSync
<1>2. ASSUME NEW t \in Sub \ {s},
             \/ Start(t) \/ Acquire(t) \/ Recheck(t) \/ StartFetch(t) \/ Fetch(t)
             \/ (Commit(t) /\ ~ Fenced(t)) \/ FinishFetch(t) \/ Leave(t)
             \/ WaitForSnapshot(t) \/ ListBroadcasts(t) \/ Upsert(t) \/ SaveMapping(t)
             \/ SaveResult(t) \/ CalendarFails(t) \/ Crash(t)
      PROVE  Current(s)'
  <2>1. /\ UNCHANGED row /\ channel'.succeeded = channel.succeeded
        /\ clock' \in {clock, clock + 1}
    BY <1>2 DEF Start, Acquire, Recheck, StartFetch, Fetch, Commit, FinishFetch, Leave,
                WaitForSnapshot, ListBroadcasts, Upsert, SaveMapping, SaveResult,
                CalendarFails, Crash, IInv, TypeOK
  <2>2. mapping'[s] = mapping[s] /\ lastCalendarSyncAt'[s] = lastCalendarSyncAt[s]
    BY <1>2 DEF Start, Acquire, Recheck, StartFetch, Fetch, Commit, FinishFetch, Leave,
                WaitForSnapshot, ListBroadcasts, Upsert, SaveMapping, SaveResult,
                CalendarFails, Crash
  <2>3. sync'[s] = sync[s]
    BY <1>2 DEF Start, Acquire, Recheck, StartFetch, Fetch, Commit, FinishFetch, Leave,
                WaitForSnapshot, ListBroadcasts, Upsert, SaveMapping, SaveResult,
                CalendarFails, Crash, Goto, ToList, Fail
  <2>4. Listing(s, sync[s])
    BY DEF Current
  <2>5. QED
    BY <2>1, <2>2, <2>3, <2>4, CurrentSync
<1>3. QED
  BY <1>1, <1>2

LEMMA StepCurrent ==
    ASSUME IInv, NEW s \in Sub, Current(s), ~ sync[s].deferred, ~ sync'[s].deferred,
           [Next]_vars
    PROVE  Current(s)'
<1>1. CASE UNCHANGED vars \/ Lapse \/ Change \/ Tick
  BY <1>1, OtherCurrent
<1>2. ASSUME NEW t \in Sub,
             \/ Start(t) \/ Acquire(t) \/ Recheck(t) \/ StartFetch(t) \/ Fetch(t)
             \/ Commit(t) \/ FinishFetch(t) \/ Leave(t) \/ WaitForSnapshot(t)
             \/ ListBroadcasts(t) \/ Upsert(t) \/ SaveMapping(t) \/ SaveResult(t)
             \/ CalendarFails(t) \/ Crash(t) \/ UserDeletesEvent(t)
      PROVE  Current(s)'
  <2>1. CASE Commit(t) /\ Fenced(t)
    BY <2>1, CommitCurrent
  <2>2. CASE ~ (Commit(t) /\ Fenced(t)) /\ t = s
    BY <1>2, <2>2, OwnCurrent, OtherCurrent
  <2>3. CASE ~ (Commit(t) /\ Fenced(t)) /\ t # s
    BY <1>2, <2>3, OtherCurrent
  <2>4. QED
    BY <2>1, <2>2, <2>3
<1>3. QED
  BY <1>1, <1>2 DEF Next

(* What a sync of s that is not deferred promises when it succeeds.        *)
UpToDate(s) ==
    sync[s].pc = "save" /\ ~ sync[s].deferred /\ mapping[s] # None
       => mapping[s] = sync[s].item

(* A subscription none of whose syncs is deferred misses no change of the  *)
(* broadcast, whatever the other subscribers of the channel go through:    *)
(* their deferrals, failures, lost leases and crashes do not hide the      *)
(* changes they fetched or fetched too late.                               *)
THEOREM ChannelUpToDateAlone ==
    ASSUME NEW s \in Sub
    PROVE  Spec /\ []~ sync[s].deferred => []UpToDate(s)
<1>1. Init => Current(s)
  BY InitCurrent
<1>2. IInv /\ Current(s) /\ ~ sync[s].deferred /\ (~ sync[s].deferred)' /\ [Next]_vars
         => Current(s)'
  BY StepCurrent
<1>3. Current(s) => UpToDate(s)
  BY DEF Current, Listing, UpToDate
<1>4. QED
  BY <1>1, <1>2, <1>3, ChannelInvariant, PTL DEF Spec

(* For any number of subscribers: as long as no sync is deferred, a        *)
(* successful one leaves the calendar as the rows it listed were.          *)
NoneDeferred == \A s \in Sub : ~ sync[s].deferred

THEOREM ChannelSuccessIsUpToDate == Spec /\ []NoneDeferred => []SuccessIsUpToDate
<1> DEFINE AllCurrent == \A s \in Sub : Current(s)
<1>1. Init => AllCurrent
  BY InitCurrent
<1>2. IInv /\ AllCurrent /\ NoneDeferred /\ NoneDeferred' /\ [Next]_vars => AllCurrent'
  BY StepCurrent DEF NoneDeferred
<1>3. AllCurrent => SuccessIsUpToDate
  BY DEF Current, Listing, SuccessIsUpToDate
<1>4. QED
  <2> HIDE DEF AllCurrent
  <2>1. QED
    BY <1>1, <1>2, <1>3, ChannelInvariant, PTL DEF Spec

(* Deferrals come from the quota and from waits that time out only: where  *)
(* there are none, no sync is deferred, and the theorems above apply.      *)
THEOREM ChannelNoneDeferred ==
    ASSUME MayDefer = FALSE
    PROVE  Spec => []NoneDeferred
<1> DEFINE Undeferred == \A s \in Sub : ~ sync[s].deferred /\ sync[s].pc # "defer"
<1>1. Init => Undeferred
  <2>1. ~ NoSync.deferred /\ NoSync.pc # "defer"
    BY DEF NoSync
  <2>2. QED
    BY <2>1 DEF Init
<1>2. ASSUME IInv, Undeferred, [Next]_vars
      PROVE  Undeferred'
  <2>1. CASE UNCHANGED vars \/ Lapse \/ Change \/ Tick \/ \E t \in Sub : UserDeletesEvent(t)
    <3>1. sync' = sync
      BY <2>1 DEF vars, Lapse, Change, Tick, UserDeletesEvent
    <3>2. QED
      BY <1>2, <3>1
  <2>2. ASSUME NEW s \in Sub,
               \/ Start(s) \/ Acquire(s) \/ Recheck(s) \/ StartFetch(s) \/ Fetch(s)
               \/ Commit(s) \/ FinishFetch(s) \/ Leave(s) \/ WaitForSnapshot(s)
               \/ ListBroadcasts(s) \/ Upsert(s) \/ SaveMapping(s) \/ SaveResult(s)
               \/ CalendarFails(s) \/ Crash(s)
        PROVE  Undeferred'
    <3> USE <1>2, Typed
    <3>1. ~ sync[s].deferred /\ sync[s].pc # "defer"
      OBVIOUS
    <3>2. \A t \in Sub \ {s} : sync'[t] = sync[t]
      BY <2>2 DEF Start, Acquire, Recheck, StartFetch, Fetch, Commit, FinishFetch, Leave,
                  WaitForSnapshot, ListBroadcasts, Upsert, SaveMapping, SaveResult,
                  CalendarFails, Crash, Goto, ToList, Fail
    <3>3. ~ sync'[s].deferred /\ sync'[s].pc # "defer"
      <4>1. CASE Start(s)
        <5>1. PICK place \in {"list", "acquire"}, base \in {0, channel.version} :
                 sync' = [sync EXCEPT ![s] = [NoSync EXCEPT !.pc = place, !.at = clock + 1,
                                                !.since = lastCalendarSyncAt[s], !.base = base]]
          BY <4>1 DEF Start
        <5>2. QED
          BY <5>1 DEF NoSync
      <4>2. CASE Acquire(s) \/ Recheck(s) \/ StartFetch(s)
        BY <3>1, <4>2 DEF Acquire, Recheck, StartFetch, Goto, Fail, SyncState
      <4>3. CASE Fetch(s)
        BY <3>1, <4>3 DEF Fetch, Goto, SyncState
      <4>4. CASE Commit(s) \/ FinishFetch(s)
        BY <3>1, <4>4 DEF Commit, FinishFetch, Goto, SyncState
      <4>5. CASE Leave(s) \/ WaitForSnapshot(s)
        BY <3>1, <4>5 DEF Leave, WaitForSnapshot, ToList, NoSync, SyncState
      <4>6. CASE Upsert(s) \/ SaveMapping(s)
        BY <3>1, <4>6 DEF Upsert, SaveMapping, Goto, SyncState
      <4>l. CASE ListBroadcasts(s)
        <5>1. PICK p \in {"upsert", "save"} :
                 sync' = [sync EXCEPT ![s].pc = p, ![s].item = row.state, ![s].since = 0]
          BY <4>l DEF ListBroadcasts
        <5>2. QED
          BY <3>1, <5>1 DEF SyncState
      <4>7. CASE SaveResult(s) \/ CalendarFails(s) \/ Crash(s)
        BY <4>7 DEF SaveResult, CalendarFails, Crash, NoSync
      <4>8. QED
        BY <2>2, <4>1, <4>2, <4>3, <4>4, <4>5, <4>6, <4>l, <4>7
    <3>4. QED
      BY <3>2, <3>3
  <2>3. QED
    BY <1>2, <2>1, <2>2 DEF Next
<1>3. Undeferred => NoneDeferred
  BY DEF NoneDeferred
<1>4. IInv /\ Undeferred /\ [Next]_vars => Undeferred'
  BY <1>2
<1>5. QED
  <2> HIDE DEF Undeferred
  <2>1. QED
    BY <1>1, <1>3, <1>4, ChannelInvariant, PTL DEF Spec

-----------------------------------------------------------------------------
(* Proofs, for any set of attempts and any time to live: the lease row     *)
(* always belongs to the latest grant, writes under the lease follow the   *)
(* order of the grants, a live lease is not taken from its owner, and the  *)
(* table implements FencedResource.                                        *)

(* What OwnerIsLatest needs to be inductive: grants are numbered up to     *)
(* grants, attempts that did not reach the row have none, and the absent   *)
(* row is always the same.                                                 *)
LeaseIInv ==
    /\ LeaseTypeOK
    /\ lease.owner = NoToken => lease = NoRow
    /\ \A t \in Token :
          /\ granted[t] <= grants
          /\ pc[t] \in {"idle", "insert"} => granted[t] = 0
          /\ lease.owner = t =>
                /\ granted[t] = grants
                /\ pc[t] \in {"read", "held", "lost", "crashed"}
                /\ pc[t] \in {"held", "lost"} => lease.version = version[t]
    /\ written <= grants

LEMMA InitLease == LeaseInit => LeaseIInv
  BY TokenAssumption, TTLAssumption DEF LeaseInit, LeaseIInv, LeaseTypeOK, NoRow, AttemptPlace

(* Every step keeps the invariant.                                         *)
LEMMA StepLease == LeaseIInv /\ [LeaseNext]_leaseVars => LeaseIInv'
<1> SUFFICES ASSUME LeaseIInv, [LeaseNext]_leaseVars
             PROVE  LeaseIInv'
  OBVIOUS
<1> USE TokenAssumption, TTLAssumption DEF LeaseIInv, LeaseTypeOK, AttemptPlace, NoRow, MoveTo
<1>1. CASE DatabaseTick
  BY <1>1 DEF DatabaseTick
<1>2. ASSUME NEW t \in Token, UpdateExpired(t)
      PROVE  LeaseIInv'
  <2>1. CASE Expired /\ TakeRow(t, lease.version + 1) /\ pc' = [pc EXCEPT ![t] = "read"]
    BY <1>2, <2>1 DEF UpdateExpired, Expired, TakeRow
  <2>2. CASE ~ Expired /\ pc' = [pc EXCEPT ![t] = "insert"] /\ UNCHANGED <<lease, granted, grants>>
    BY <1>2, <2>2 DEF UpdateExpired
  <2>3. QED
    BY <1>2, <2>1, <2>2 DEF UpdateExpired
<1>3. ASSUME NEW t \in Token, InsertFresh(t)
      PROVE  LeaseIInv'
  BY <1>3 DEF InsertFresh, TakeRow
<1>4. ASSUME NEW t \in Token, ReadBack(t)
      PROVE  LeaseIInv'
  BY <1>4 DEF ReadBack
<1>5. ASSUME NEW t \in Token, Renew(t)
      PROVE  LeaseIInv'
  BY <1>5 DEF Renew, Valid, Owns
<1>6. ASSUME NEW t \in Token, FencedWrite(t)
      PROVE  LeaseIInv'
  BY <1>6 DEF FencedWrite
<1>7. ASSUME NEW t \in Token, Release(t)
      PROVE  LeaseIInv'
  BY <1>7 DEF Release, Owns
<1>8. ASSUME NEW t \in Token, CrashAttempt(t)
      PROVE  LeaseIInv'
  BY <1>8 DEF CrashAttempt
<1>9. CASE UNCHANGED leaseVars
  BY <1>9 DEF leaseVars
<1>10. QED
  BY <1>1, <1>2, <1>3, <1>4, <1>5, <1>6, <1>7, <1>8, <1>9 DEF LeaseNext

(* The inductive invariant holds in every reachable state.                 *)
THEOREM LeaseInvariant == LeaseSpec => []LeaseIInv
  BY InitLease, StepLease, PTL DEF LeaseSpec

(* Variables keep their types, whatever the number of attempts.            *)
THEOREM LeaseTypes == LeaseSpec => []LeaseTypeOK
<1>1. LeaseIInv => LeaseTypeOK
  BY DEF LeaseIInv
<1>2. QED
  BY <1>1, LeaseInvariant, PTL

(* The row always belongs to the latest grant.                             *)
THEOREM LeaseOwnerIsLatest == LeaseSpec => []OwnerIsLatest
<1>1. LeaseIInv => OwnerIsLatest
  BY DEF LeaseIInv, OwnerIsLatest, LeaseTypeOK, NoRow
<1>2. QED
  BY <1>1, LeaseInvariant, PTL

(* A write is made by the latest grant, so after every earlier write.      *)
THEOREM LeaseFencedInOrder == LeaseSpec => FencedInOrder
<1>1. LeaseIInv /\ [LeaseNext]_leaseVars => [written' >= written]_leaseVars
  <2> SUFFICES ASSUME LeaseIInv, LeaseNext
               PROVE  written' >= written
    BY DEF leaseVars
  <2> USE DEF LeaseIInv, LeaseTypeOK
  <2>1. ASSUME NEW t \in Token, FencedWrite(t)
        PROVE  written' >= written
    BY <2>1 DEF FencedWrite, Valid, Owns
  <2>2. CASE UNCHANGED written
    BY <2>2
  <2>3. QED
    BY <2>1, <2>2 DEF LeaseNext, DatabaseTick, UpdateExpired, InsertFresh, ReadBack, Renew,
                      Release, CrashAttempt
<1>2. QED
  BY <1>1, LeaseInvariant, PTL DEF FencedInOrder, LeaseSpec

(* No step of anybody else ends a lease that has time left.                *)
THEOREM LeaseNotStolen == LeaseSpec => LiveLeaseNotStolen
<1> DEFINE Kept(t) == lease.owner = t /\ lease.left > 0 /\ lease'.owner # t
                         => pc[t] # "done" /\ pc'[t] = "done"
<1>1. LeaseIInv /\ [LeaseNext]_leaseVars => [\A t \in Token : Kept(t)]_leaseVars
  <2> SUFFICES ASSUME LeaseIInv, LeaseNext, NEW t \in Token,
                      lease.owner = t, lease.left > 0, lease'.owner # t
               PROVE  pc[t] # "done" /\ pc'[t] = "done"
    BY DEF leaseVars
  <2> USE TokenAssumption, TTLAssumption DEF LeaseIInv, LeaseTypeOK, NoRow
  <2>1. ASSUME NEW u \in Token, UpdateExpired(u) \/ InsertFresh(u)
        PROVE  FALSE
    BY <2>1 DEF UpdateExpired, InsertFresh, Expired
  <2>2. ASSUME NEW u \in Token, Renew(u)
        PROVE  FALSE
    BY <2>2 DEF Renew
  <2>3. ASSUME NEW u \in Token, Release(u)
        PROVE  pc[t] # "done" /\ pc'[t] = "done"
    BY <2>3 DEF Release, Owns, MoveTo
  <2>4. ASSUME NEW u \in Token, ReadBack(u) \/ FencedWrite(u) \/ CrashAttempt(u)
        PROVE  FALSE
    BY <2>4 DEF ReadBack, FencedWrite, CrashAttempt
  <2>5. CASE DatabaseTick
    BY <2>5 DEF DatabaseTick
  <2>6. QED
    BY <2>1, <2>2, <2>3, <2>4, <2>5 DEF LeaseNext
<1>2. QED
  BY <1>1, LeaseInvariant, PTL DEF LiveLeaseNotStolen, LeaseSpec

-----------------------------------------------------------------------------

(* The initial table is the initial abstract resource.                     *)
LEMMA RefineLeaseInit == LeaseInit => Abstract!Init
  BY DEF LeaseInit, Abstract!Init, Holder, NoRow

(* Every step of the table is a grant, a lapse, a write or a stutter.      *)
LEMMA RefineLeaseStep == LeaseIInv /\ [LeaseNext]_leaseVars => [Abstract!Next]_(Abstract!vars)
<1> SUFFICES ASSUME LeaseIInv, [LeaseNext]_leaseVars
             PROVE  Abstract!Next \/ UNCHANGED Abstract!vars
  OBVIOUS
<1> USE TokenAssumption, TTLAssumption
    DEF LeaseIInv, LeaseTypeOK, NoRow, Holder, Abstract!Next, Abstract!vars
<1>1. CASE DatabaseTick
  <2>1. CASE lease.left = 1
    BY <1>1, <2>1 DEF DatabaseTick, Abstract!Lapse
  <2>2. CASE lease.left # 1
    BY <1>1, <2>2 DEF DatabaseTick
  <2>3. QED
    BY <2>1, <2>2
<1>2. ASSUME NEW t \in Token, UpdateExpired(t)
      PROVE  Abstract!Next \/ UNCHANGED Abstract!vars
  <2>1. CASE Expired /\ TakeRow(t, lease.version + 1)
    <3>1. Abstract!Grant(t)
      BY <1>2, <2>1 DEF UpdateExpired, Expired, TakeRow, Abstract!Grant
    <3>2. QED
      BY <3>1
  <2>2. CASE UNCHANGED <<lease, granted, grants>>
    BY <1>2, <2>2 DEF UpdateExpired
  <2>3. QED
    BY <1>2, <2>1, <2>2 DEF UpdateExpired
<1>3. ASSUME NEW t \in Token, InsertFresh(t)
      PROVE  Abstract!Next \/ UNCHANGED Abstract!vars
  <2>1. CASE lease = NoRow /\ TakeRow(t, 1)
    <3>1. Abstract!Grant(t)
      BY <1>3, <2>1 DEF InsertFresh, TakeRow, Abstract!Grant
    <3>2. QED
      BY <3>1
  <2>2. CASE UNCHANGED <<lease, granted, grants>>
    BY <1>3, <2>2 DEF InsertFresh
  <2>3. QED
    BY <1>3, <2>1, <2>2 DEF InsertFresh
<1>4. ASSUME NEW t \in Token, ReadBack(t) \/ CrashAttempt(t)
      PROVE  Abstract!Next \/ UNCHANGED Abstract!vars
  BY <1>4 DEF ReadBack, CrashAttempt
<1>5. ASSUME NEW t \in Token, Renew(t)
      PROVE  Abstract!Next \/ UNCHANGED Abstract!vars
  BY <1>5 DEF Renew, Valid
<1>6. ASSUME NEW t \in Token, FencedWrite(t)
      PROVE  Abstract!Next \/ UNCHANGED Abstract!vars
  <2>1. CASE Valid(t)
    <3>1. Abstract!Write(t)
      BY <1>6, <2>1 DEF FencedWrite, Valid, Owns, Abstract!Write
    <3>2. QED
      BY <3>1
  <2>2. CASE ~ Valid(t)
    BY <1>6, <2>2 DEF FencedWrite
  <2>3. QED
    BY <2>1, <2>2
<1>7. ASSUME NEW t \in Token, Release(t)
      PROVE  Abstract!Next \/ UNCHANGED Abstract!vars
  <2>1. CASE Owns(t) /\ lease.left > 0
    BY <1>7, <2>1 DEF Release, Owns, Abstract!Lapse
  <2>2. CASE ~ (Owns(t) /\ lease.left > 0)
    BY <1>7, <2>2 DEF Release, Owns
  <2>3. QED
    BY <2>1, <2>2
<1>8. CASE UNCHANGED leaseVars
  BY <1>8 DEF leaseVars
<1>9. QED
  BY <1>1, <1>2, <1>3, <1>4, <1>5, <1>6, <1>7, <1>8 DEF LeaseNext

(* The three statements of acquireSyncLease, the renewals, the fenced      *)
(* transactions and the conditional delete implement the abstract fenced   *)
(* resource.                                                               *)
THEOREM LeaseImplementsFencedResource == LeaseSpec => ImplementsFencedResource
  BY RefineLeaseInit, RefineLeaseStep, LeaseInvariant, PTL
     DEF LeaseSpec, ImplementsFencedResource, Abstract!Spec
=============================================================================
