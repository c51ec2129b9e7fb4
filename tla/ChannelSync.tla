---------------------------- MODULE ChannelSync -----------------------------
(***************************************************************************)
(* One YouTube channel shared by several subscriptions: who fetches it     *)
(* (lease "youtube-channel:<id>"), how the fetched snapshot is committed,  *)
(* how the others wait for it or go on with the cached broadcasts, and how *)
(* each subscription brings its Google Calendar and its mapping up to the  *)
(* broadcast rows (syncSubscription in sync-service.ts, from its first     *)
(* read to saveSyncResult).                                                *)
(*                                                                         *)
(* A channel has one broadcast here; rows of different broadcasts do not   *)
(* influence each other, and a commit writes all of them in a transaction. *)
(* A broadcast is a number that grows when YouTube changes it; Final is    *)
(* COMPLETED with an actual end, everything before is still to come.       *)
(* Syncs of one subscription exclude each other by the subscription lease, *)
(* so there is one sync per subscription; SyncLease shows what the channel *)
(* lease promises: it is granted to one at a time and may lapse any moment.*)
(***************************************************************************)
EXTENDS Naturals

CONSTANTS
    Sub,       \* subscriptions of the channel
    Nobody,    \* no holder
    Final,     \* the last state of the broadcast
    Window,    \* a snapshot is fresh for so many ticks (5 minutes in the code)
    MaxClock,  \* bound on the clock
    Connected, \* subscriptions of users who are not reauthRequired
    MayDefer,  \* may a fetch or a wait be deferred?
    UserEdits  \* do users remove events in Google Calendar?

ASSUME ParametersAssumption ==
    /\ Final \in Nat \ {0} /\ Window \in Nat \ {0} /\ MaxClock \in Nat \ {0}
    /\ Connected \subseteq Sub
    /\ MayDefer \in BOOLEAN /\ UserEdits \in BOOLEAN
    /\ Nobody \notin Sub

VARIABLES
    clock,    \* clock.now()
    youtube,  \* the broadcast as YouTube has it: state, time it ended
    row,      \* the ScheduledBroadcast row: state, endAt of a final one, sourceUpdatedAt
    channel,  \* the YouTubeChannel row: lastFetchSucceededAt, snapshotVersion, lastFetchStatus
    holder,   \* holder of the channel lease
    sync,     \* the running sync of each subscription
    lastCalendarSyncAt,
    event,    \* the event in the user's Google Calendar
    mapping   \* the CalendarEventMapping row, as the state its hash stands for

vars == <<clock, youtube, row, channel, holder, sync, lastCalendarSyncAt, event, mapping>>

Time == 0 .. MaxClock      \* 0 is null
None == Final + 1          \* no event, mapping, row or item
State == 0 .. Final
Place == {"idle", "acquire", "recheck", "start", "fetch", "commit", "defer", "fail",
          "leave", "wait", "list", "upsert", "map", "save"}
Broadcast == [state : State \cup {None}, ended : Time]
SyncState == [pc : Place, at : Time, since : Time, base : Nat, failed : BOOLEAN,
              deferred : BOOLEAN, seen : Broadcast, item : State \cup {None}]

NoBroadcast == [state |-> None, ended |-> 0]
NoSync == [pc |-> "idle", at |-> 0, since |-> 0, base |-> 0, failed |-> FALSE,
           deferred |-> FALSE, seen |-> NoBroadcast, item |-> None]

TypeOK ==
    /\ clock \in Time
    /\ youtube \in Broadcast
    /\ row \in [state : State \cup {None}, ended : Time, updated : Time]
    /\ channel \in [succeeded : Time, version : Nat,
                    status : {"none", "RUNNING", "SUCCESS", "DEFERRED", "FAILED"}]
    /\ holder \in Sub \cup {Nobody}
    /\ sync \in [Sub -> SyncState]
    /\ lastCalendarSyncAt \in [Sub -> Time]
    /\ event \in [Sub -> State \cup {None}]
    /\ mapping \in [Sub -> State \cup {None}]

Init ==
    /\ clock = 0
    /\ youtube = [state |-> 0, ended |-> 0]
    /\ row = [state |-> None, ended |-> 0, updated |-> 0]
    /\ channel = [succeeded |-> 0, version |-> 0, status |-> "none"]
    /\ holder = Nobody
    /\ sync = [s \in Sub |-> NoSync]
    /\ lastCalendarSyncAt = [s \in Sub |-> 0]
    /\ event = [s \in Sub |-> None]
    /\ mapping = [s \in Sub |-> None]

Goto(s, place) == sync' = [sync EXCEPT ![s].pc = place]

-----------------------------------------------------------------------------
(* From the first reads to a snapshot to go on with.                       *)

(* channelIsFresh: fetched successfully less than 5 minutes before the     *)
(* start of this sync, or after it.                                        *)
Fresh(at) == channel.succeeded # 0 /\ at < channel.succeeded + Window

(* Reads of the subscription with its channel, and of the clock; no two    *)
(* syncs start in the same millisecond.                                    *)
Start(s) ==
    LET now == clock + 1 IN
    /\ sync[s].pc = "idle" /\ clock < MaxClock
    /\ clock' = now
    /\ sync' = [sync EXCEPT ![s] =
                  [NoSync EXCEPT !.pc = IF Fresh(now) THEN "list" ELSE "acquire",
                                 !.at = now, !.since = lastCalendarSyncAt[s],
                                 !.base = IF Fresh(now) THEN 0 ELSE channel.version]]
    /\ UNCHANGED <<youtube, row, channel, holder, lastCalendarSyncAt, event, mapping>>

Acquire(s) ==
    /\ sync[s].pc = "acquire"
    /\ IF holder = Nobody THEN holder' = s /\ Goto(s, "recheck")
                          ELSE Goto(s, "wait") /\ UNCHANGED holder
    /\ UNCHANGED <<clock, youtube, row, channel, lastCalendarSyncAt, event, mapping>>

(* A mutant: the grant of the lease is taken as a reason to fetch.         *)
RecheckNever(s) ==
    /\ sync[s].pc = "recheck"
    /\ Goto(s, "start")
    /\ UNCHANGED <<clock, youtube, row, channel, holder, lastCalendarSyncAt, event, mapping>>

(* Somebody may have fetched between the first read and the grant.         *)
Recheck(s) ==
    /\ sync[s].pc = "recheck"
    /\ Goto(s, IF Fresh(sync[s].at) THEN "leave" ELSE "start")
    /\ UNCHANGED <<clock, youtube, row, channel, holder, lastCalendarSyncAt, event,
                   mapping>>

(* A mutant: the transactions do not look at the lease.                    *)
NotFenced(s) == TRUE

(* The lease check inside the transactions on the channel.                 *)
Fenced(s) == holder = s

Fail(s) == sync' = [sync EXCEPT ![s].pc = "leave", ![s].failed = TRUE]
ToList(s, deferred) ==
    sync' = [sync EXCEPT ![s].pc = "list", ![s].base = 0, ![s].deferred = deferred]

StartFetch(s) ==
    /\ sync[s].pc = "start"
    /\ IF Fenced(s) THEN channel' = [channel EXCEPT !.status = "RUNNING"] /\ Goto(s, "fetch")
                    ELSE Fail(s) /\ UNCHANGED channel
    /\ UNCHANGED <<clock, youtube, row, holder, lastCalendarSyncAt, event, mapping>>

(* listUpcoming and refreshBroadcasts; the quota may be used up, and any   *)
(* call may fail.                                                          *)
Fetch(s) ==
    /\ sync[s].pc = "fetch"
    /\ \/ sync' = [sync EXCEPT ![s].pc = "commit", ![s].seen = youtube]
       \/ MayDefer /\ Goto(s, "defer")
       \/ Goto(s, "fail")
    /\ UNCHANGED <<clock, youtube, row, channel, holder, lastCalendarSyncAt, event,
                   mapping>>

(* renewSyncLease, and commitChannelSnapshot: rows, sourceUpdatedAt of the *)
(* changed ones, and the channel in one transaction under the lease.  The  *)
(* time it stamps is the start of this sync.                               *)
Commit(s) ==
    /\ sync[s].pc = "commit"
    /\ IF Fenced(s)
          THEN /\ row' = [state |-> sync[s].seen.state, ended |-> sync[s].seen.ended,
                          updated |-> IF row.state = sync[s].seen.state
                                         THEN row.updated ELSE sync[s].at]
               /\ channel' = [succeeded |-> sync[s].at, version |-> channel.version + 1,
                              status |-> "SUCCESS"]
               /\ sync' = [sync EXCEPT ![s].pc = "leave", ![s].seen = NoBroadcast]
          ELSE Goto(s, "fail") /\ UNCHANGED <<row, channel>>
    /\ UNCHANGED <<clock, youtube, holder, lastCalendarSyncAt, event, mapping>>

(* A mutant: the end of a fetch is recorded whoever holds the lease.       *)
FinishFetchUnfenced(s) ==
    /\ sync[s].pc \in {"defer", "fail"}
    /\ channel' = [channel EXCEPT !.status = IF sync[s].pc = "defer" THEN "DEFERRED"
                                                                    ELSE "FAILED"]
    /\ sync' = [sync EXCEPT ![s].pc = "leave", ![s].deferred = sync[s].pc = "defer",
                            ![s].failed = sync[s].pc = "fail"]
    /\ UNCHANGED <<clock, youtube, row, holder, lastCalendarSyncAt, event, mapping>>

(* finishChannelFetch: after a deferral the sync goes on with the rows it  *)
(* has, after an error it does not.                                        *)
FinishFetch(s) ==
    /\ sync[s].pc \in {"defer", "fail"}
    /\ channel' = IF ~ Fenced(s) THEN channel
                     ELSE [channel EXCEPT !.status = IF sync[s].pc = "defer" THEN "DEFERRED"
                                                                             ELSE "FAILED"]
    /\ sync' = [sync EXCEPT ![s].pc = "leave", ![s].deferred = sync[s].pc = "defer",
                            ![s].failed = sync[s].pc = "fail"]
    /\ UNCHANGED <<clock, youtube, row, holder, lastCalendarSyncAt, event, mapping>>

(* The finally block around the fetch: releaseSyncLease.  A failed sync    *)
(* ends here; it leaves lastCalendarSyncAt alone.                          *)
Leave(s) ==
    /\ sync[s].pc = "leave"
    /\ holder' = IF Fenced(s) THEN Nobody ELSE holder
    /\ IF sync[s].failed THEN sync' = [sync EXCEPT ![s] = NoSync]
                         ELSE ToList(s, sync[s].deferred)
    /\ UNCHANGED <<clock, youtube, row, channel, lastCalendarSyncAt, event, mapping>>

(* A mutant: any successful fetch will do.                                 *)
CompletedByStatus(s) == channel.status = "SUCCESS"

(* What waitForSnapshot polls for.                                         *)
Completed(s) ==
    channel.version > sync[s].base /\ Fresh(sync[s].at) /\ channel.status = "SUCCESS"

(* The lease was taken: wait for its snapshot, or give up after 30 seconds *)
(* and go on with the rows there are.                                      *)
WaitForSnapshot(s) ==
    /\ sync[s].pc = "wait"
    /\ \/ Completed(s) /\ ToList(s, FALSE)
       \/ MayDefer /\ ToList(s, TRUE)
    /\ UNCHANGED <<clock, youtube, row, channel, holder, lastCalendarSyncAt, event,
                   mapping>>

-----------------------------------------------------------------------------
(* From the rows to the calendar.                                          *)

(* listBroadcastsForSync takes a row that changed since the last calendar  *)
(* sync or whose end is not past, and every row the first time.            *)
MustList(s) ==
    /\ row.state # None
    /\ \/ sync[s].since = 0 \/ row.updated > sync[s].since
       \/ row.state = Final /\ row.ended >= sync[s].at

(* The planned end of a broadcast that is not over may be past or not.     *)
MayList(s) == MustList(s) \/ row.state \notin {None, Final}

(* The query; item is the row it saw, listed or not.  A user who has to    *)
(* connect Google again gets no further than this (CalendarFails).  Rows   *)
(* older than the retention are left out here and in CalendarCleanup's     *)
(* read.                                                                   *)
ListBroadcasts(s) ==
    /\ sync[s].pc = "list" /\ s \in Connected
    /\ \E listed \in BOOLEAN :
          /\ MustList(s) => listed
          /\ listed => MayList(s)
          /\ sync' = [sync EXCEPT ![s].pc = IF listed THEN "upsert" ELSE "save",
                                  ![s].item = row.state, ![s].since = 0]
    /\ UNCHANGED <<clock, youtube, row, channel, holder, lastCalendarSyncAt, event,
                   mapping>>

(* A mutant: existing events of finished broadcasts are left alone.        *)
ShouldSyncMapped(s) == sync[s].item # Final

(* shouldSyncCalendarEvent: with a mapping always, else only what is still *)
(* to come.                                                                *)
ShouldSync(s) == mapping[s] # None \/ sync[s].item # Final

(* The event has to be written: the hash differs or eventExists says no.   *)
Outdated(s) == mapping[s] # sync[s].item \/ event[s] = None

(* upsertEvent: PATCH, or POST under the deterministic id.                 *)
Upsert(s) ==
    /\ sync[s].pc = "upsert"
    /\ IF ShouldSync(s) /\ Outdated(s)
          THEN event' = [event EXCEPT ![s] = sync[s].item] /\ Goto(s, "map")
          ELSE Goto(s, "save") /\ UNCHANGED event
    /\ UNCHANGED <<clock, youtube, row, channel, holder, lastCalendarSyncAt, mapping>>

SaveMapping(s) ==
    /\ sync[s].pc = "map"
    /\ mapping' = [mapping EXCEPT ![s] = sync[s].item]
    /\ Goto(s, "save")
    /\ UNCHANGED <<clock, youtube, row, channel, holder, lastCalendarSyncAt, event>>

(* saveSyncResult with SUCCESS or DEFERRED: both set lastCalendarSyncAt to *)
(* the start of the sync.                                                  *)
SaveResult(s) ==
    /\ sync[s].pc = "save"
    /\ lastCalendarSyncAt' = [lastCalendarSyncAt EXCEPT ![s] = sync[s].at]
    /\ sync' = [sync EXCEPT ![s] = NoSync]
    /\ UNCHANGED <<clock, youtube, row, channel, holder, event, mapping>>

(* A calendar or database call fails, or the subscription lease is lost:   *)
(* the sync is FAILED and lastCalendarSyncAt stays.                        *)
CalendarFails(s) ==
    /\ sync[s].pc \in {"list", "upsert", "map", "save"}
    /\ sync' = [sync EXCEPT ![s] = NoSync]
    /\ UNCHANGED <<clock, youtube, row, channel, holder, lastCalendarSyncAt, event,
                   mapping>>

(* The worker dies; its channel lease stays until it lapses.               *)
Crash(s) ==
    /\ sync[s].pc # "idle"
    /\ sync' = [sync EXCEPT ![s] = NoSync]
    /\ UNCHANGED <<clock, youtube, row, channel, holder, lastCalendarSyncAt, event,
                   mapping>>

-----------------------------------------------------------------------------
(* The world.                                                              *)

Lapse ==
    /\ holder # Nobody
    /\ holder' = Nobody
    /\ UNCHANGED <<clock, youtube, row, channel, sync, lastCalendarSyncAt, event,
                   mapping>>

Change ==
    /\ youtube.state # Final
    /\ youtube' = [state |-> youtube.state + 1,
                   ended |-> IF youtube.state + 1 = Final THEN clock ELSE 0]
    /\ UNCHANGED <<clock, row, channel, holder, sync, lastCalendarSyncAt, event, mapping>>

Tick ==
    /\ clock < MaxClock
    /\ clock' = clock + 1
    /\ UNCHANGED <<youtube, row, channel, holder, sync, lastCalendarSyncAt, event,
                   mapping>>

(* The user removes the event in Google Calendar.                          *)
UserDeletesEvent(s) ==
    /\ UserEdits /\ event[s] # None
    /\ event' = [event EXCEPT ![s] = None]
    /\ UNCHANGED <<clock, youtube, row, channel, holder, sync, lastCalendarSyncAt,
                   mapping>>

Next ==
    \/ Lapse \/ Change \/ Tick
    \/ \E s \in Sub :
          \/ Start(s) \/ Acquire(s) \/ Recheck(s) \/ StartFetch(s) \/ Fetch(s)
          \/ Commit(s) \/ FinishFetch(s) \/ Leave(s) \/ WaitForSnapshot(s)
          \/ ListBroadcasts(s) \/ Upsert(s) \/ SaveMapping(s) \/ SaveResult(s)
          \/ CalendarFails(s) \/ Crash(s) \/ UserDeletesEvent(s)

Spec == Init /\ [][Next]_vars

-----------------------------------------------------------------------------

(* docs/architecture/synchronization.md: a stale owner's snapshot is       *)
(* refused.  However late or crashed a fetching worker is, a row is never  *)
(* overwritten with an older state of the broadcast than it has.           *)
RowNeverGoesBack ==
    [][row.state # None => row'.state # None /\ row'.state >= row.state]_vars

(* Subscribers share a fetch: two successful fetches of the channel belong *)
(* to syncs that began at least 5 minutes apart, whichever of them waited, *)
(* lost its lease or crashed in between.                                   *)
OneFetchPerWindow ==
    [][channel'.version # channel.version /\ channel.succeeded # 0
          => channel'.succeeded >= channel.succeeded + Window]_vars

(* "待機中に完了しなければDEFERREDでありSUCCESSにしない": a sync that ends *)
(* without DEFERRED listed the rows of a snapshot that was fresh for it.   *)
SuccessIsFresh ==
    \A s \in Sub :
        sync[s].pc \in {"list", "upsert", "map", "save"} /\ ~ sync[s].deferred
            => Fresh(sync[s].at)

(* What a SUCCESS result promises: a broadcast the calendar has a mapping  *)
(* for is there as it was committed when the rows were listed, also when   *)
(* it is over: no subscriber misses a change that another one fetched.     *)
SuccessIsUpToDate ==
    \A s \in Sub :
        sync[s].pc = "save" /\ ~ sync[s].deferred /\ mapping[s] # None
            => mapping[s] = sync[s].item

(* A fetch that was announced ends once, as a version or as an error, and  *)
(* versions belong to later and later syncs: workers that lost their lease *)
(* or died leave no version and no status behind that others would take    *)
(* for the result of the fetch they wait for.                              *)
Snapshot == INSTANCE ChannelSnapshot
ImplementsSnapshot == Snapshot!Spec
=============================================================================
