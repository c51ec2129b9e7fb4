# Formal models of oshi-schedule

oshi-schedule keeps one dedicated Google Calendar per user up to date with the
scheduled broadcasts of the YouTube channels the user subscribes to. An API
(`apps/api`), a queue and its worker, and an hourly pass (`apps/worker`) share
one PostgreSQL database and call YouTube, Google and Supabase; a web page polls
the API; a second Lambda and a set of commands switch the staging environment on
and off. Much of what can go wrong there happens between processes: two workers
on one job, a snapshot that overtakes another one, an account deletion that dies
half way. This directory holds TLA+ models of that part, configurations with
which TLC checks them on small instances, and proofs checked by TLAPS for every
instance.

`PROJECT.json` has the machine-readable index: components, runs, mutants, the
source lines behind each definition, hazards and theorems.

Source paths below are relative to `apps/api/src` unless they say otherwise;
OS = `application/oshi-service.ts`, SS = `application/sync-service.ts`,
PS = `infrastructure/database/prisma-store.ts`,
MS = `infrastructure/database/memory-store.ts`,
GC = `infrastructure/google-calendar/google-calendar-gateway.ts`,
YG = `infrastructure/youtube/youtube-data-gateway.ts`.

## 1. The system

### Components

| Component | State | Operations | Talks to |
|---|---|---|---|
| Sync lease (PS 878-921) | table `SyncLease`: key, ownerToken, version, expiresAt | `acquireSyncLease`, `renewSyncLease`, `releaseSyncLease`, the lease check inside fenced transactions | everything that must not run twice: subscription sync, channel fetch, account deletion |
| Sync jobs (OS 75-190, SS 83-240 and 439-511, PS 1019-1230, `apps/worker/src`) | `SyncRun`, `SyncTargetResult`, status fields of `UserChannelSubscription`, SQS messages | `queueSubscription`, `dispatch`, `runTargeted`, `runPendingManual`, `claimSyncRun`, `heartbeatSyncRun`, `finishSyncTarget/Run`, `maintainSyncRuns` | API -> queue -> worker; hourly pass; lease |
| Channel fetch and calendar reconciliation (SS 170-460, PS 586-866, `domain/scheduling.ts`) | `YouTubeChannel`, `ScheduledBroadcast`, `CalendarEventMapping`, the events in Google Calendar | freshness check, fetch, `commitChannelSnapshot`, `waitForSnapshot`, `listBroadcastsForSync`, `upsertEvent`, `saveMapping`, `saveSyncResult` | lease of the channel, YouTube, Google Calendar |
| Account deletion (OS 220-319, PS 147-203) | `AccountDeletionRequest` (the tombstone), `User`, calendar, grant, Supabase user | `deleteAccount`: calendar, grant, rows, login, completion | lease of the subject, Google, Supabase |
| Onboarding and reconnection (OS 45-73, PS 118-126 and 221-269, GC 28-177) | `User`, `GoogleCredential`, access tokens in memory, calendar, grant | `onboard`, `verifyGrant`, `saveCredential`, `ensureCalendar`, `completeOnboarding`, `rejectAuthorizationFailure` | Google; tombstone; jobs of the worker |
| Registration and removal of channels (OS 75-114, 193-214) | subscriptions, at most three per user | `resolve`, `register`, `setStatus`, `remove` | jobs, quota, cleanup tasks, Google Calendar |
| Cleanup tasks and data retention (SS 49-74, PS 365-488) | `CalendarCleanupTask` | `maintainYouTubeData`, `queueCalendarCleanup`, `retryCalendarCleanup` | Google Calendar |
| YouTube quota (`infrastructure/youtube`, PS 922-962) | `YouTubeQuotaUsage` per Pacific day and bucket | `reserveYouTubeQuota`, `consumeYouTubeQuota`, `nextQuotaResetAt` | every call to YouTube |
| Hourly pass (SS 513-589, `apps/worker/src/scheduled-worker.ts`) | the `SCHEDULED` run | `runScheduled` | all of the above |
| Dashboard (`apps/web/src/components/dashboard.tsx`, `lib/api.ts`) | React state: list, busy key, dialog, watches | `load`, `sync`, `resolve`, `register`, `watchSync` | the HTTP API |
| Staging power (`scripts/aws`, `infra/lib/oshi-schedule-stack.ts`) | SSM parameters, ECS service, RDS instance, schedule | `wakeStaging`, `sleepStaging`, `collectStatus`, `runAutoSleep` | AWS |
| In-memory store (MS) | all tables | the `Store` interface, each method without an await | tests, local mode |
| Graceful shutdown (`shutdown.ts`), rate limiting, encryption, authentication, configuration, HTTP layer, deployment | little or none of their own | | |

### Where it is hard

* *Interleavings without transactions.* `acquireSyncLease` is three SQL
  statements; the outcome of a sync is written to subscription, target and run
  in three transactions; `deleteAccount` reads the tombstone before it has its
  lease; `remove` deletes events without the lease of the sync that writes them.
* *At-least-once delivery.* A message comes again after 90 minutes, at most
  three times, while the hourly pass recovers the same runs from the database.
  The 3-second time limit of a send may fail for the API although the queue
  took the message.
* *Late holders of a lease.* A worker that slept past its lease goes on: its
  writes must be refused, or be harmless.
* *Several clocks' worth of time.* Rows are stamped with the start of the sync
  that fetched them and compared with the start of somebody else's; the quota
  day changes in the middle of a call, and is 23, 24 or 25 hours long.
* *Partial failure.* Every outside call may have its effect and lose its
  answer; every process may end between two steps (a Lambda function is stopped
  after 14 minutes).
* *State read and used later.* Access tokens outlive the grant, the auto-sleep
  acts on a deadline it read before, a page shows what an older answer said.
* *Things that must get through.* A queued run has to end, a deletion that is
  asked for again has to complete, an orphaned event has to go, a page has to
  unlock, a woken environment has to sleep again.

What makes each part correct:

* lease: writes under it follow the order of the grants, and a live one is not
  stolen;
* jobs: a run has one worker, its rows agree, its outcome is final, it ends;
* channel: rows never go back, one fetch per window, `SUCCESS` means fresh rows
  and a calendar that shows them;
* deletion: steps in order, nothing left over when it is `COMPLETED`, and it
  completes;
* connection: nobody is asked to connect again without a reason, no second
  calendar, and a lost connection is noticed;
* registration and cleanup: never more channels than allowed, every event has a
  row by which it is found again, and an event nobody wants goes;
* quota and pass: neither the budget nor the scheduled reserve is broken, a
  deferral names the reset, and run status and exit code agree;
* dashboard: a card that says "syncing" is being watched, and nothing stays
  locked;
* staging: the reported state was true, steps keep their order, and what was
  woken sleeps again.

## 2. Modules

| Module | Models | Used by |
|---|---|---|
| `SyncLease` | one key of the lease table, statement by statement | `MCSyncLease`, `ChannelSync_proofs` |
| `SyncJob` | runs, targets, messages, workers, recovery, maintenance | `MCSyncJob`, `SyncJob_proofs` |
| `ChannelSync` | one channel, several subscribers: fetch, commit, wait, calendar | `MCChannelSync`, `ChannelSync_proofs` |
| `AccountDeletion` | deletion saga, with onboarding and calendar creation beside it | `MCAccountDeletion`, `AccountDeletion_proofs` |
| `GoogleConnection` | onboarding, tokens, `reauthRequired`, `ensureCalendar` | `MCGoogleConnection`, `GoogleConnection_proofs` |
| `CalendarCleanup` | registration, removal, sync writes, retention, cleanup tasks | `MCCalendarCleanup`, `CalendarCleanup_proofs` |
| `YouTubeGateway` | every call to YouTube under the quota | `ScheduledPass` |
| `ScheduledPass` | the hourly pass and manual callers on top of `YouTubeGateway` | `MCScheduledPass`, `ScheduledPass_proofs` |
| `Dashboard` | the page, its handlers and watches | `MCDashboard`, `Dashboard_proofs` |
| `StagingPower` | staging commands and the auto-sleep Lambda | `MCStagingPower`, `StagingPower_proofs` |

Six abstract specifications say what a component promises to its callers; each
is shown to be implemented by the detailed one.

| Abstract | Says | Implemented by |
|---|---|---|
| `FencedResource` | a resource granted to one attempt at a time, written by its holder only | `SyncLease` |
| `JobStore` | the operations of the store on runs and targets, one step each but for maintenance | `SyncJob` |
| `ChannelSnapshot` | an announced fetch ends once, as a new version or as an error | `ChannelSync` |
| `DeletionSaga` | one procedure that begins once and records its steps in order | `AccountDeletion` |
| `CalendarRegistry` | registrations, mappings and tasks as atomic operations | `CalendarCleanup` |
| `QuotaLedger` | units granted within a limit and consumed once | `ScheduledPass` (through `YouTubeGateway`) |

The abstract operations are those of `MemoryStore` without their locks and
leases: each is one step there because no method has an await inside. The detailed modules
follow `PrismaStore`, with its statements and transactions. The refinements
therefore also say that the two stores do not differ in what a caller can see of
these tables, but for the differences listed in section 5. Maintenance is the one
operation of `JobStore` in more than one step, because `PrismaStore` acts by id on
what it read before.

`ScheduledPass` EXTENDS `YouTubeGateway`. The others compose by what they
promise: `SyncLease` shows that the SQL keeps `FencedResource`, and the
other modules use exactly that (a holder or nobody; a grant may lapse at
any moment; a fenced transaction happens only for the holder).

One step of a model is one database transaction or one outside call, because
those are the points between which other processes run; in `Dashboard` it is
what runs between two awaits. A step carries all that the transaction does.
Names follow the source: `Enqueue` is `enqueueSyncRun`, `Commit` is
`commitChannelSnapshot` and so on; the "map" of `PROJECT.json` gives the lines.

### SyncLease

`lease` is the table row; its `left` is `expiresAt - CURRENT_TIMESTAMP` in ticks.
`UpdateExpired`, `InsertFresh` and `ReadBack` are the three statements of
`acquireSyncLease`; `Renew`, `Release` and `FencedWrite` are the conditions of
`renewSyncLease`, `releaseSyncLease` and of the transactions that lock the row
before they write. `DatabaseTick` is the clock of the database: a row with `left = 0` is expired but present. Every attempt
brings a new `randomUUID()`, so a token is used once. `granted`, `grants` and
`written` are history variables. The names of this module differ from those of
`ChannelSync` (`LeaseSpec`, `leaseVars`), because one module proves both.

### SyncJob

`run` and `target` are the two rows of a job, `sub` the status fields of the
subscription, `api` what the request that queued the run does next, `msg` how
many deliveries the message has left, `job` what each worker does, with the
program counter over the awaits of `runTargeted` and `syncSubscription`. Runs are
numbered in the order of `queuedAt`, the last one `newest`: the hourly pass recovers
the oldest `PassLimit` first. `Left` runs of users in `Deleted` may be there from the
beginning. `FindStale`, `FailTargets` and `FailRuns` are the statements of
`maintainSyncRuns` under READ COMMITTED, with the ids and the row locks of the
transaction in `sweep`; `AbortMaintenance` is its rollback. `overtaken` is a history
variable: the runs that were claimed after maintenance had read them as stale
and that it failed nevertheless, until their worker wrote the outcome.
Ages of heartbeats are the three ranges the code tells apart (under 30 minutes,
under 24 hours, over). `Release` belongs to the `finally` block and `Wrap` to the
`catch` block of `runTargeted`. The work on channel and calendar is not here: a
sync ends in `SUCCESS`, `DEFERRED` or `FAILED`. A worker never outlives its run's
heartbeat or its subscription lease (14 minutes against 30 and 15;
`apps/api/src/infrastructure/env.ts` and `infra/lib/serverless-stack.ts`), which
is what `GetOld` and `ExpireLease` assume. `Purge` only takes runs of which no
request, message or worker is left, after 90 days.

### ChannelSync

One broadcast with states `0 .. Final`; `row` is the `ScheduledBroadcast` row,
`channel` the `YouTubeChannel` row, `sync` what each subscription's sync knows:
its start `at`, the `lastCalendarSyncAt` it read (`since`), the version it waits
from (`base`), what it fetched (`seen`) and what it listed (`item`). `Start`
takes a tick, so no two syncs start at the same instant. Event and mapping hold
the state they show, which is what `sourceHash` stands for. A broadcast that is not
over may have its planned end behind it, and is then listed if it changed
(`MustList`, `MayList`).

### AccountDeletion

`tomb` is the tombstone with its set of recorded steps; `req` each request with
the copies it took of tombstone, user id and calendar *before* the lease;
`cals`, `grant`, `auth` the outside world. `Mark` is `markAccountDeletionStep`
with the lease check of its transaction. The actors "onboard" and "sync" create
and save calendars. `pending` says whether the user has mappings, and tasks of another
calendar than that of the tombstone, which make the calendar step refuse
(`StillPending`): a sync maps events (`MapEvent`), a removal or the retention takes
mappings away, with or without a task (`Unmap`), and the hourly pass does the
tasks (`Cleanup`). `Answers404` lets TLC look at
both answers Google may give for a calendar that is gone: `deleteCalendar`
accepts 410 and refuses 404. The hourly purge of completed tombstones after 30
days is left out.

### GoogleConnection

`grants` is what Google makes of each consent: all scopes, some of them, or
revoked since. `cred` is the stored credential, named by its grant, `cache` the
access token each process keeps (`accessTokens`), `call` an onboarding or a job of the
worker with the copies it read. `Exchange` is `exchangeRefreshToken`, which only
an `invalid_grant` or a missing scope turns into a mark on the user; `Fail` is every
other failure. `Delete` is `deleteManagedEvent`, which marks the user on a 401 and
on any 403 whose reason is not a limit of rates or quotas; `denied` remembers that
one of the latter came under a good grant. `Check` and `Create` are the GET and the POST of
`ensureCalendar`, `Keep` is `setCalendarId`. `locked` are stored tokens that no key decrypts.
`astray` collects the calendars of the situations in which the code can
lose one: a POST whose answer did not arrive or whose call ended before it stored
the id, and two calls that read the User row before the other one wrote it.

### CalendarCleanup

`subs`, `known`, `rows`, `mapping`, `tasks` are the tables, `event` Google's
calendar. Tasks have ids, because `deleteCalendarCleanupTask` goes by the id it
read and the task may be another one by then; `order` is their `createdAt`.
`Register`, `Count` and `Create` are `createSubscription` under the lock of the
User row (the transaction is SERIALIZABLE besides, which alone would keep the limit
as well); `RemoveChannel` .. `RemoveSubscription` are the awaits of `remove`; `Decide`,
`Upsert` and `Save` are the loop of a sync over what it listed;
`MaintainYouTubeData` is one transaction. `unsaved` marks the events of a sync
that ended between `upsertEvent` and `saveMapping`.

### YouTubeGateway and ScheduledPass

`usage` are the rows of `YouTubeQuotaUsage`. `ReserveUnit`, `Send` and
`ConsumeUnit` are one attempt of one request: a unit is reserved before it and
consumed after it, on the day of the attempt's start, whatever the answer. A
crash or a failed statement leaves the unit reserved. `DateAt` is `quotaDateAt`
over a set of instants at which days begin, `NextReset` the bisection of
`nextQuotaResetAt`. `ScheduledPass` adds the loop over channels with old
metadata, the targets one by one, the status of the run (`RunStatus`, SS 570)
and the exit code (`ExitCode`, `scheduled-worker.ts`). Manual callers do a
resolve or a fetch. That fetches of one channel exclude each other is the
subject of `ChannelSync` and not assumed here.

### Dashboard

`list`, `busy`, `dialog` and `spinner` are React state (`channels`, `busy`,
`dialogOpen` with `preview`, `syncStates`), `load` the running calls of `load`, `op` the handler that
holds the busy key, `watch` the calls of `watchSync`. `server` is the API as far
as its answers go. A request may be answered late, with an error, or have its
effect and lose its answer.

### StagingPower

Each command is a route through stages (`Route`); a stage is one call to AWS, or
a wait that ends when the resource shows the awaited state, and it may fail or the
command may be interrupted at any of them. `Proceeds` is AWS finishing
what was asked; `Disturbed` what happens without the commands: AWS starts an
instance after seven days or modifies one, a task ends, somebody enables the
schedule. `Activate` is phase 2 of the rollout. A status is read in the order of
`collectStatus`: activation, API, database, schedule. `touched` tells whether anybody
else changed the world during a command: `ReportIsTrue` and `InOrder` are about
commands that were left alone, beside which only AWS gets on with what it was asked.

## 3. Runs

`tlc -workers 2 -config X.cfg MCmodule` for each line; sizes are distinct states.

| Run | Instance | Question | States |
|---|---|---|---|
| `lease` | three attempts, TTL 2 | are writes under a lease ordered and live leases safe, and do the three statements implement `FencedResource`? | 3.7 K |
| `job` | two runs of one subscription, two workers, 2 deliveries, 1 crash, maintenance | one worker per run, agreeing rows, final outcomes, writes by the lease owner; `JobStore` | 0.79 M |
| `job_ends` | a run behind one of a deleted user, batch of one, one worker, 1 crash, sends that time out | does every run its user waits for end? | 0.26 M |
| `channel` | two subscribers, states 0..2, window 2, clock to 6, calendars not connected | fresh, ordered, shared snapshots; `ChannelSnapshot` | 1.9 M |
| `channel_calendar` | two subscribers, states 0..1, window 1, clock to 4, no deferral, users remove events | does a `SUCCESS` bring the calendar up to date? | 1.9 M |
| `deletion` | two requests, the user revokes or deletes the calendar | what `COMPLETED` means; `DeletionSaga` | 0.25 M |
| `deletion_connect` | one request beside onboarding and sync, 2 calendars, 2 user rows | is the calendar of the request gone although the user connects again, and does the deletion complete? | 0.69 M |
| `scheduled_pass` | the pass and a manual caller, budgets 2 and 3, reserve 2, a change of day | quota, deferrals and reports; `QuotaLedger` | 0.82 M |
| `cleanup` | two channels, limit 1, one event, two requests, one of which removes | who answers for an event; `CalendarRegistry` | 0.27 M |
| `google_connection` | one onboarding, one job, 2 grants, 2 calendars | reasons for asking to reconnect, second calendars, unnoticed losses | 0.3 M |
| `dashboard` | one subscription, two watches, one refresh | spinner without watch, locked page | 0.3 M |
| `staging` | one operator and the Lambda, 2 hours, 1 disturbance | true status, order of steps, sleep after a wake | 0.36 M |

### Bounds

* Two of everything that competes is what the hazards need: one late or dead
  actor and one that takes over; the lease has three attempts because a stale
  holder, its successor and the successor's successor after a re-created row
  differ.
* `job`: two deliveries give one redelivery; one crash leaves one run half
  written. `SendOutcomes` is `{"ok"}` there: with failing sends `OutcomeStays`
  and `TargetFollowsRun` do not hold (section 5), so that run says what the jobs
  promise as long as the queue takes the messages. Two constraints of `MCSyncJob` cut
  states off: hourly passes do not overlap and sync beside one run (`OnePass`), and a
  subscription that was paused or removed has no second run (`OneRunOfTheLeft`). The
  theorems have neither bound and cover what is cut off.
* `job_ends`: `Left` = 1 and `PassLimit` = 1 stand for ten runs of deleted users and a
  batch of ten, the case in which a newer run does not get its turn; the same run is
  in the batch when the older one is being worked on or has ended. A message
  that times out and is never delivered is a failed send, so `{"ok", "timeout"}` has
  every outcome. One worker, and users who do nothing, keep fairness over
  0.26 M states tractable: worker steps wait for nobody, a refused lease ends the
  job, and a run whose subscription went ends at its first check.
* `channel`: window 2 and clock 6 allow three fetches in three windows, and a
  late one among them; three states of the broadcast let a row go back by one
  or by two. With calendars disconnected the last steps are cut off; they are
  the subject of `channel_calendar`, where `Final` is 1 and clock 4 allows four
  syncs of two subscribers.
* `deletion_connect`: two calendars and two user rows are one of each before
  and one after; a third brings only a second repetition of connecting. It has one
  request at a time, which may be repeated, and the user leaves the Google account
  alone (`UserActs` off): overlap and revocation are in `deletion`, and for
  `SnapshotCalendarGone` in the proof. `Answers404` is off, see section 5.
* `scheduled_pass`: days of 5, 3 and 4 ticks stand for 25, 23 and 24 hours; the
  pass runs just before and just after the midnight between the first two. Two
  attempts give one retry; one search page and one batch of tracked videos give a
  call with three requests in two buckets. The budgets are so small that every
  refusal happens: manual calls stop at the reserve, the pass at the budget. One
  target is fetched and one is not, which gives every combination of results
  two targets can have. One fault is a crash or a statement that fails.
* `cleanup`: one event is enough for all races about it, because syncs, removals
  and tasks treat events independently; two channels and limit 1 are what
  `WithinLimit` needs. Batch 1 makes the pass take tasks in turns. Ids are taken
  from a set large enough for a new one at any time.
* `google_connection`: one consent before and one after a revocation; one
  calendar before and one after. Two onboardings at a time are covered by the
  proofs only.
* `dashboard`: two watches of one card, which is where they disturb each other;
  `Limit` 1 makes the button of the dialog come and go; two attempts stand for
  `maxAttempts`.
* `staging`: two hours let a deadline pass while a command runs, one disturbance
  is an instance that AWS starts or modifies, a task that ends, a schedule somebody
  enables, or a failure of the Lambda.
* Symmetry is used in safety runs only (`job`, `lease`, `channel`,
  `channel_calendar`, `deletion`).
* Deadlock is looked for in `job`, where something can always happen. It is off
  where the instance really stops: attempts are made once, clocks, passes,
  consents and calendars are bounded, a removed subscription does not come back,
  and after a completed deletion there is nothing to delete.

### Fairness

* `SyncJob`: each worker that does not crash takes its next step (weak); crashes
  are bounded by `MaxCrash`. Heartbeats get old, leases of the dead expire and
  cooldowns pass (weak: time). The hourly pass comes again for ever, and a worker
  is free for it now and then, so that recovery of a run *that is among the oldest `PassLimit`* (`InBatch`) and the sync of an
  active subscription are strongly fair. Maintenance runs every hour and is not rolled
  back for ever. An API request gets on or dies (weak). Nothing is assumed about the
  message queue, `Renew`, users or crashes: a message may never come, and a run
  still ends.
* `AccountDeletion`: `<>[][Calm]_vars`, that is, from some time on no process
  dies, no running request loses its lease, and no call fails but for a reason in
  the state (a lease of somebody else, pending tasks, a missing grant, a 404).
  Before that anything may go wrong any number of times. In the calm the user
  repeats the request and each request goes on (weak). Leases of dead requests
  lapse, and cleanup tasks get done. `DeletionCompletes` says that no earlier
  failure leaves a state from which repetition cannot get through, but for the one it
  names (section 5).
* `CalendarCleanup`: retention and the pass over the tasks come again every hour
  (weak), broadcasts end and syncs get on (weak: time, and the 14 minutes of a Lambda). The
  deletion at Google and of the task is strongly fair for each event at the
  head of the batch: it may fail any number of times, but not for ever.
* `GoogleConnection`: the worker tries again for ever (weak) and its calls get on;
  `Exchange`, `Token` and `Mark` are strongly fair, since Google or the database
  may fail any number of times but not for ever. Access tokens expire
  (weak). Nothing is assumed of users or of the API. That the worker tries again
  takes for granted that there is something to do for the user, an active subscription or
  a cleanup task: the loss is not noticed while all subscriptions are paused and
  nothing is to be deleted, and then nothing needs the grant either.
* `Dashboard`: a handler or watch that waits for an answer or a timer gets on
  (weak). This takes for granted that a `fetch` ends, with an answer or an error;
  the page sets no time limit of its own. Nothing is assumed of runs: a run may
  never end.
* `StagingPower`: time passes, AWS finishes what was asked, and the Lambda is
  invoked every hour and takes its steps (all weak); its failures are
  bounded by `Disturbances`. Nothing is assumed of operators, who may leave any
  command at any step.

### Mutants

Each property of a run has a mutant in "mutants": a plausible bug in one
mapped definition (a dropped expiry check, a fenced write without its fence, a
recheck left out, a maintenance that forgets the targets, a task dropped with a mapping it does not belong to, a bisection that starts too
early), for which TLC finds the property violated under the run's own
configuration. The operators stand before the definitions they replace, and
their comments begin with "A mutant". Type invariants are not among the
properties of the runs; they are proved (section 4).

## 4. Proofs

TLAPS checks the proofs for every value of the constants: any number of
attempts, workers, runs, subscribers, requests, callers, grants, any window,
budget and bound. They rest on the named `ASSUME`s of the modules, which say
that names differ, bounds are natural numbers, switches are Booleans, that a
reserve is not above its budget (`env.ts` refuses to start otherwise), that
every instant has a day, and that days end within the time the search for the
next one looks at (of any time zone they take 25 hours at most).

Each safety property and each action property of the runs is the statement of a theorem.
Four of them have a hypothesis, which says in the formula what the configuration
of their run says by its constants, and for each of the hypotheses there is a
theorem that it holds where the constants say so:

| Property | Theorem | Hypothesis | holds by |
|---|---|---|---|
| `TargetFollowsRun`, `OutcomeStays` | `JobTargetFollowsRun`, `JobOutcomeStays` | `SendsSucceed`: no request is in the `catch` block of `dispatch` | `SendsSucceedWhen`, when `SendOutcomes` is `{"ok"}` |
| `SuccessIsUpToDate` | `ChannelSuccessIsUpToDate` | `NoneDeferred`: no sync went on without a fresh snapshot | `ChannelNoneDeferred`, when `MayDefer` is off |
| `CompletedMeansGone` | `DeletionCompletedMeansGone` | `Quiet`: nobody onboards or syncs beside the deletion | `DeletionQuiet`, when `Onboards` and `Syncs` are off |

Without the hypotheses the four do not hold; section 5 says what happens.

* `SyncLease` (in `ChannelSync_proofs`): `LeaseTypes`, `LeaseOwnerIsLatest`,
  `LeaseFencedInOrder`, `LeaseNotStolen`, `LeaseImplementsFencedResource`.
  `OwnerIsLatest` alone is not inductive: a grant that was never made must not have
  a number, and an absent row must carry nothing of its last tenant. `LeaseIInv` adds
  that grants are numbered up to `grants`, that attempts before their insert have
  none, that the owner is at a place where it can still use the row, and
  `written <= grants`. Order of writes then follows because the writer is the last
  one granted. The refinement maps the holder to the owner of a row with time left;
  each statement is a `Grant`, a `Lapse`, a `Write` or a stutter.
* `SyncJob_proofs`: `JobInvariant`, `JobTypeOK`, `JobOneWorkerPerRun`,
  `JobImplementsStore`, `JobSavedByOwner`, `JobTargetFollowsRun`,
  `JobOutcomeStays`, `SendsSucceedWhen`. A claim
  looks only at the row, so the invariant has to say what the row looks like
  while somebody works on the run: `RUNNING` with a fresh heartbeat, or finished
  (`WorkedOn`); neither can be claimed. `Numbered` says that runs are queued in the
  order of their numbers, and `Swept` what maintenance may rely on in its second
  and third statement: the target rows it has written were RUNNING and nobody else
  writes them, and they are those of all runs that still have had no heartbeat. This
  covers every outcome of a send, which the `job` run switches off. For the refinement each
  step is one operation of the store or leaves runs and targets alone: by the
  invariant the outcome that is saved is terminal and its run is known. For
  `SavedByOwner`, `HInv` ties the places of a worker to the lease: from `begin` to
  `saveSub` the lease is its own and live, every run that can be claimed is for a
  subscription, and the run of a dispatching request exists. The two that need sends
  to succeed rest on `FollowInv`: a run is `RUNNING` until its worker saves the
  outcome, and its target is terminal by then (`Unsaved`), and an active target
  says what the run says (`TargetAgrees`). A redelivered message, a recovery and a
  maintenance between the two transactions all keep it, except for the runs in
  `overtaken`, about which the properties say how far the exception goes: it begins
  with a claim that maintenance did not see, and ends with the one outcome its worker
  writes. The writes of the `catch` block do not keep it.
* `ChannelSync_proofs`: `ChannelInvariant`, `ChannelTypeOK`,
  `ChannelSuccessIsFresh`, `ChannelRowNeverGoesBack`, `ChannelOneFetchPerWindow`,
  `ChannelImplementsSnapshot`, `ChannelUpToDateAlone`, `ChannelSuccessIsUpToDate`,
  `ChannelNoneDeferred`. `Knows` says, place by place, what a sync may rely
  on: while it holds the channel lease nobody else refreshed the channel since
  its recheck, what it fetched is not older than the row, and what it goes on
  with is fresh. The rest is that only the holder commits. For the refinement
  one fact is added (`Announced`): the fetch of the lease holder is on record as
  `RUNNING`, so what it ends was announced. For `SuccessIsUpToDate`, `Current` says of one
  subscription that its mapping shows the row unless the row was changed after the
  last sync of that subscription (`Mapped`), and of a sync past its listing that it
  has what was changed (`Listing`). It holds since a commit that changes the row
  carries a time after every time for which the channel had been fresh, so no sync
  that went on as fresh can have moved `lastCalendarSyncAt` past it.
  `ChannelUpToDateAlone` is stronger than the run: a subscription misses nothing if
  its own syncs are not deferred, whatever becomes of those of the other subscribers.
* `AccountDeletion_proofs`: `DeletionInvariant`, `DeletionTypeOK`,
  `DeletionStepsInOrder`, `DeletionSnapshotCalendarGone`,
  `DeletionImplementsSaga`, `DeletionCompletedMeansGone`, `DeletionQuiet`. A request works with a
  copy of the tombstone that may be old. The invariant says what is still true
  of it: its steps are a subset of the recorded ones (recorded steps are never
  taken back), its calendar is the recorded one, the steps before its place are
  in its copy, and where it is about to record the calendar step the calendar is
  gone. Calendars that are created later have larger numbers, so a calendar that
  is gone does not come back. For the refinement `Copies` is added: who begins has
  a user, and a copy without a user is a copy of a tombstone without one, so that a
  deletion begins once. For what `COMPLETED` means, `Rest` says of each recorded step
  that its effect is there (no grant, no user row, no login; the calendar is known
  already), and `Left` the same of the effect a request has had and not recorded yet;
  both last because, with nobody else at work, the outside world only loses things.
* `GoogleConnection_proofs`: `ConnectionInvariant`, `ConnectionTypeOK`,
  `ConnectionFlagHasReason`, `ConnectionNoSecondCalendar`. A mark is written some
  time after its cause was seen, so the invariant carries the reason along to
  the calls about to write it (`Knows`), and reasons never go away: a grant that was turned down stays so.
  For the calendars, a call stands at `create` only if the calendar it read is
  gone, only one at `keep` has a calendar of its own, and what it overwrites without
  having read it is counted as astray.
* `ScheduledPass_proofs`: `PassInvariant`, `PassTypeOK`, `QuotaWithinBudget`,
  `QuotaReservationKept`, `PassReportsAgree`, `QuotaImplementsLedger`,
  `QuotaSpentWithinBounds`, `QuotaRetryAtReset`. A unit is
  consumed on the day it was reserved although the clock may have gone past
  midnight, so `ReservationKept` counts the callers that hold a unit of each day
  and bucket: the row has at least as many reserved. With it a consumption never
  takes a count below zero. `Tight` bounds the units of manual callers by the
  counters of today. Every action is a grant, a consumption, a step that leaves the
  counters alone or a tick of the clock, and there is one lemma for each kind.
  `PassInv` adds what the loop relies on (a worker in a call has something left)
  and where status and exit code are written.
  `SpentWithinBounds` is inductive once it counts what is still to come: `Fits` adds what
  a call has spent, the attempts its present request has left, and the pages and
  batches that may follow it, and the sum stays within the bounds. `RetryAtReset` is about the
  bisection of `nextQuotaResetAt`, a recursive function over pairs of instants. Its
  value is shown by the least counterexample: of the intervals for which it would be
  another one than the begin of the next day (`Found`) take one of the least length
  (`WFMin`, over a set of lengths); halving it gives a shorter one. A day of 23 or 25
  hours, and a search that begins in the middle of one, are no cases of their own.
* `CalendarCleanup_proofs`: `CleanupTypeOK`, `CleanupEventOwned`,
  `CleanupWithinLimit`, `CleanupImplementsRegistry`. `Shape` says that an event
  has one task, that the order has each task once, and that an id somebody still
  remembers is not used again (`IdsKept`); two lemmas say what `SetToSeq` and
  `RemoveFirst` return. `Owned` adds that the event of a task about to be dropped
  is not there, unless a sync wrote it again and has not come to the mapping.
  `Room` adds that only the holder of the user's lock is about to insert, and that
  there is room. For these properties the one event, two requests and batch of one
  of the `cleanup` run therefore stand for any numbers.
* `Dashboard_proofs`: `DashboardTypeOK`, `DashboardSpinnerHasWatch`. The invariant
  adds that an answer with a run names its subscription and that a watch has one
  until it is over.
* `StagingPower_proofs`: `PowerInvariant`, `PowerTypeOK`, `PowerReportIsTrue`,
  `PowerInOrder`. `OnRoute` says that a command is at a stage of its own route. `Relied` says
  what it may still rely on as long as nobody else changed anything (`touched`):
  that what it did in earlier stages is still so (`OrderKept`), and that what it saw for its
  report is still true (`SightKept`). Each step of another actor that changes
  what one relies on marks it as touched, and that is most of the proof.

Not proved, and only model-checked: liveness (`RunsEnd`, `DeletionCompletes`,
`OrphansGo`, `LossIsNoticed`, `PageUnlocks`, `WokenSleepsAgain`), and with it
everything about fairness and `ENABLED`, which the installed provers do not handle.

## 5. Where code and documentation differ

Met while modelling, and shown by TLC on these modules with other bounds or
switches. No run repeats them: the runs say what holds.

Lease and jobs:

* `releaseSyncLease` deletes the row and the next holder starts again at version
  1: the version is not a monotonic fencing token, as
  `docs/architecture/synchronization.md:85` and
  `docs/architecture/authentication.md:33` describe it. The random owner token
  is what `FencedInOrder` rests on.
* `finishSyncTarget` and `finishSyncRun` (PS 1160) are two transactions and
  `enqueueSyncRun` looks only at targets. After a death between them a new run is
  accepted, and the recovery of the old one makes its target `RUNNING` beside it,
  against `synchronization.md:79`. `OneWorkerPerRun` is about one run for that
  reason.
* The three writes of the `catch` block in `dispatch` (OS 141) are unconditional.
  After a send that timed out, or with the hourly pass in between, they write
  `FAILED` over a run that is running or has succeeded, against
  `synchronization.md:79`. When the hourly pass claims the run between the writes
  to target and run and its worker then dies, the run is `FAILED` with a target
  that stays `RUNNING`: nothing recovers it, and every later request for the
  subscription is answered with it, against `synchronization.md:83`.
* `maintainSyncRuns` (PS 1198-1225) reads the ids of runs that have been without a
  heartbeat for 24 hours and fails them by id under READ COMMITTED. A claim
  that commits in between gets its run `FAILED` under a live worker, whose
  `startSyncTarget` (PS 1140) makes the target `RUNNING` under that run, and which at
  the end writes `SUCCESS` over `FAILED` (`finishSyncRun` goes by the id), against
  the life cycle of `synchronization.md:79`. If the worker dies before it writes the
  outcome, the target stays `RUNNING` under a `FAILED` run, which nothing recovers.
  `TargetFollowsRun` and `OutcomeStays` except these runs (`overtaken`), and say that it
  is them alone. In `MemoryStore` this cannot happen.
* The run of a deleted user is claimed `RUNNING` and skipped (PS 1108); each
  time it is stale it is claimed again with a new heartbeat, so that the 24-hour
  rule of `synchronization.md:89` never reaches it. A pass recovers the ten oldest
  runs (PS 1128-1137, SS 153): ten such runs take every place, and a newer run whose
  message was lost or whose worker died is not recovered, against
  `synchronization.md:83`. `RunsEnd` is about runs that a user waits for and names
  the case (`Crowded`). In `MemoryStore` `deleteUserData` leaves `requestedById` of
  the runs alone, so this happens with `PrismaStore` only.
* A queued run that is refused because the subscription was paused (SS 213), or
  one that lost the lease of its channel (SS 471), leaves `lastSyncStatus` at
  `QUEUED` or `RUNNING` (`docs/operations/troubleshooting.md:17`).

Channel and calendar:

* Changed rows are stamped with the start of the fetch (SS 314) and listed by
  comparison with the start of the subscriber's last sync. A sync that started
  after the slow fetch began and gave up waiting for it sets a
  `lastCalendarSyncAt` past the stamp, and a final state is never listed
  (`synchronization.md:68`). `SuccessIsUpToDate` is therefore checked without
  deferral.
* An event that was written while `saveMapping` failed, of a broadcast that ends
  before the next sync, has no mapping and is not looked at any more (SS 416);
  `synchronization.md:69` and `sync-service.test.ts:215` count on the repetition.
* `synchronization.md:69` says that a deleted event is created with a new id;
  `upsertEvent` (GC 206-261) takes the deterministic id.

Deletion:

* The tombstone is read before the lease (OS 221) and not again; a delayed
  request that gets the lease after the completion fails on the missing
  credential and writes `FAILED` over `COMPLETED` (`account-deletion.test.ts:245`,
  `authentication.md:33`). In `DeletionSaga` a recorded step stays, the status
  may go back.
* A sync under way finds the calendar gone and creates a new one (GC 160) before
  the grant is revoked, and nothing deletes it
  (`docs/requirements/product-requirements.md:14`).
* When Google answers 404 for a calendar that is already deleted, `deleteCalendar`
  (GC 333) refuses and the deletion stays `FAILED` on every repetition
  (`authentication.md:31`). `deletion_connect` therefore assumes 410.
* A deletion that was first asked for when the user had no calendar keeps
  `calendarIdSnapshot` empty. Once a sync or
  the user connecting again has made a calendar, and a sync has written events to it, every repetition is refused
  with `GOOGLE_REAUTH_REQUIRED` (OS 261), connected or not, until the retention has
  taken the mappings; `authentication.md:29` has the repetition go on. The user
  cannot take the mappings away: the tombstone refuses everything else.
  `DeletionCompletes` names the case.

Connection:

* A call of the worker that read the old credential, or keeps an access token of
  it, may mark `reauthRequired` after the user connected again, and syncs stop
  once more although `docs/requirements/use-cases.md:12` lets them go on
  (「新トークンを保存し同期を再開」).
* Two overlapping onboardings, an onboarding and a sync, a lost answer of the
  POST or a crash after it leave a second calendar (GC 160), against `use-cases.md:6`
  (「専用カレンダーを一度だけ作る」). `NoSecondCalendar` says that these are the only
  ways.
* Requests treat 401 as any other error; only `exchangeRefreshToken` marks the
  user. A revoked grant is noticed by a sync when the token its process keeps has
  expired, not before.
* A failed `verifyGrant` marks the user twice, and the second mark may hit an
  onboarding that succeeded meanwhile. The saved credential stays when
  `ensureCalendar` fails after it.
* A 403 at the deletion of an event that names no rate or quota limit, or whose body
  cannot be read, marks `reauthRequired` with a good grant (GC 271-284, asserted by
  `google-calendar-gateway.test.ts:370`), though `authentication.md:27` lists only
  `invalid_grant` and wrong scopes. `FlagHasReason` counts it as a reason (`denied`).

Cleanup and registration:

* `synchronization.md:56` keeps a mapping until Google's DELETE succeeded;
  `maintainYouTubeData` removes mappings at once, in the transaction that makes
  the tasks.
* An event of a sync that ended between `upsertEvent` and `saveMapping` and whose
  channel is removed afterwards stays for ever, against `synchronization.md:60`.
  `EventOwned` and `OrphansGo` name that case (`unsaved`).
* A task for a calendar that is lost fails for ever, and `saveMapping` refuses the
  event meanwhile. A removal that failed half way leaves a task that blocks
  updates of the event until it is over.
* A channel row without subscriptions and with an old `createdAt` is purged even
  if it was resolved a moment ago.
* `queueCalendarCleanup` of `PrismaStore` may create a task for an event whose
  mapping went between its two statements; `MemoryStore` cannot.
* The first 100 tasks are taken each time (PS 446): tasks that never succeed may
  keep the others from their turn. The `cleanup` run lets every task succeed some
  time and does not show this.

Quota and pass:

* The bisection of `nextQuotaResetAt` stops at one second, so its instant is exact up
  to that; a tick of the model is the unit at which the code stops.
* Refreshes of metadata are not part of `calculateYouTubeDailyQuotaBounds`.
  `SpentWithinBounds` is about fetches.
* Units are counted on the day of a request's start; YouTube counts its arrival.
  At midnight YouTube's count may exceed the budget by one unit per caller
  (`synchronization.md:46-48`).
* The `SKIPPED` of the summary is never returned by `runScheduled`.
* The message of the hourly pass goes through SQS
  (`infra/lib/serverless-stack.ts:378-389`), and a failed pass may be delivered up
  to three times; the module models one pass.

Dashboard:

* Answers of `load` are not ordered: an older list may overwrite a newer one until
  the next reload.
* The answer of `resolve` after Cancel or an edit sets the preview of another
  handle; the answer of `register` closes a dialog that was opened again.
* After a watch gives up, or its reload fails, the stale `lastSyncStatus` of the
  list keeps the card locked until Refresh. `PageUnlocks` is about the busy key and what
  the page's own watches say, and does not cover a card that a stale list locks.
* The `finally` of one watch deletes the entry another watch of the same
  subscription relies on.
* When the answer to `register` is lost, the repetition says `DUPLICATE_CHANNEL`
  and the run is never watched.

Staging:

* `docs/operations/staging-cost-control.md:104` has the auto-sleep do nothing before the deadline
  (「→ 期限内: NOOP_ACTIVE」). `scripts/aws/staging-auto-sleep/index.mjs:47-60` reads
  the deadline first and acts later; a wake in between is undone.
* After phase 2 the deadline is unset, and the auto-sleep does nothing until the first
  wake. A wake with fewer hours shortens the deadline, which the document calls
  延長. A wake may exit with 0 while the final status says `SLEEPING`.
* The RDS status `configuring-enhanced-monitoring` makes all commands throw.
* The preflight profile `phase2` expects an active deadline, though a wake is
  refused before the activation.

## 6. What is not modelled

Listed with reasons in "components": token encryption, rate limiting, JWT
verification, configuration, presentation, graceful shutdown and the rest of the
web frontend have no state transitions that outlive a call, or leave them to a
service; operator inspections only read; deployment is not behaviour of the
program. The in-memory store is there through the abstract specifications, whose
operations its methods are; its getters and the purge of tombstones are not.
External services are their effects and answers. Retries of a single HTTP call
inside the Google gateway are one call.

Within the modelled parts: several broadcasts of a channel in `ChannelSync`
(they are independent rows of one transaction) and rows older than the retention,
passes of the maintenance that overlap, several users in
`CalendarCleanup` (they meet only in the batch of tasks), redelivery of the hourly
message, the display of errors and notices in `Dashboard`, and calls that never end.
The pure functions of `domain/scheduling.ts` appear as far as the modelled
decisions use them.

## 7. Plan

The modelling part of the plan is done: lease, jobs, channel, deletion,
connection, cleanup and registration, quota and pass, dashboard, staging. So is
the list of properties to prove: what is left to TLC alone is liveness. Worth
adding next:

1. What the liveness properties rest on and is safety: that a step is possible
   wherever something has to end (no place without a way out, for runs and for
   deletions), stated without `ENABLED`.
2. Theorems under weaker hypotheses than `NoneDeferred` and `Quiet`, one subscription
   or one actor at a time, as `ChannelUpToDateAlone` does it.
