------------------------------ MODULE SyncJob -------------------------------
(***************************************************************************)
(* The durable sync job: a SyncRun row of type INITIAL or MANUAL with its  *)
(* one SyncTargetResult row, from the API request that queues it, over the *)
(* SQS message that announces it, to the worker that claims it, syncs the  *)
(* subscription under its lease and writes the outcome; with the hourly    *)
(* pass that recovers queued and stale runs, syncs active subscriptions    *)
(* and maintains the run table.  Sources: apps/api/src/application         *)
(* (oshi-service.ts, sync-service.ts), the store, apps/worker/src.         *)
(*                                                                         *)
(* One step is one database transaction or one call to the outside.  What  *)
(* a sync fetches and writes to the calendar is not here: it ends in       *)
(* SUCCESS, DEFERRED or FAILED.  Each subscription belongs to its own user.*)
(***************************************************************************)
EXTENDS Naturals, FiniteSets

CONSTANTS
    Run,            \* numbers of runs: 1, 2, ... in the order of queuedAt
    Sub,            \* subscriptions
    Deleted,        \* those whose user was deleted before the model begins
    Left,           \* how many runs wait for them then
    Worker,         \* worker processes that may run at once (maxConcurrency)
    NoRun, NoSub, NoWorker, \* nothing
    Dead,           \* owner of a lease row left behind by a crashed worker
    MaxReceive,     \* maxReceiveCount of the queue
    PassLimit,      \* runs the hourly pass recovers at most (limit of runPendingManual)
    MaxCrash,       \* bound on worker crashes, which otherwise never end
    SendOutcomes,   \* what a send may come to: "ok", "failed", or "timeout", which
                    \* fails for the sender although the queue took the message
    Completions,    \* what a sync without error may come to: "SUCCESS", "DEFERRED";
                    \* nothing here tells them apart
    UserActs        \* what users may do meanwhile: "pause", "remove", "delete"

ASSUME BoundsAssumption ==
    /\ MaxReceive \in Nat \ {0}
    /\ PassLimit \in Nat \ {0}
    /\ Left \in Nat
    /\ MaxCrash \in Nat
    /\ SendOutcomes \subseteq {"ok", "failed", "timeout"}
    /\ Completions \subseteq {"SUCCESS", "DEFERRED"}
    /\ UserActs \subseteq {"pause", "remove", "delete"}
ASSUME NamesAssumption ==
    /\ Run \subseteq Nat \ {0} /\ NoRun \notin Run
    /\ NoSub \notin Sub /\ Deleted \subseteq Sub
    /\ 1 .. Left \subseteq Run
    /\ Left > 0 => Deleted # {}
    /\ NoWorker \notin Worker /\ Dead \notin Worker /\ NoWorker # Dead

VARIABLES
    newest,  \* number of the run queued last, 0 before the first
    run,     \* SyncRun rows: status, type, subscription, requestedById set?, heartbeat age
    target,  \* status of the run's SyncTargetResult row
    sub,     \* subscription rows: present, PAUSED, lastSyncStatus, and
             \* the manual run that began in the last 5 minutes (lastManualSyncAt)
    lease,   \* lease row of the subscription: owner, not yet expired
    api,     \* what the API request that queued the run does next
    msg,     \* deliveries left to the message that announces the run
    job,     \* what each worker does
    crashes, \* worker crashes so far
    sweep,   \* the transaction of maintainSyncRuns: where it is, the ids it has read,
             \* and the runs whose target rows it has written but not committed
    overtaken \* runs it failed although they had been claimed since it read them,
             \* until their worker wrote the outcome (what the properties except)

vars == <<newest, run, target, sub, lease, api, msg, job, crashes, sweep, overtaken>>

Terminal == {"SUCCESS", "DEFERRED", "FAILED"}
Active == {"QUEUED", "RUNNING"}
Status == Terminal \cup Active \cup {"none"}

(* Heartbeat ages: under 30 minutes, over 30 minutes, over 24 hours.       *)
Fresh == 0
Stale == 1
Abandoned == 2

NoJob == [pc |-> "idle", run |-> NoRun, sub |-> NoSub, manual |-> FALSE,
          queued |-> FALSE, res |-> "none"]
NoRow == [status |-> "none", type |-> "none", sub |-> NoSub, asked |-> FALSE,
          age |-> Fresh]
NoLease == [owner |-> NoWorker, live |-> FALSE]
NoSweep == [at |-> "idle", ids |-> {}, locked |-> {}]

Place == {"idle", "check", "acquire", "begin", "sync", "saveSub", "saveTarget",
          "saveRun", "release", "wrap", "wrapTarget", "wrapRun"}

RunRow == [status : Status, type : {"none", "INITIAL", "MANUAL"},
           sub : Sub \cup {NoSub}, asked : BOOLEAN, age : {Fresh, Stale, Abandoned}]
SubRow == [exists : BOOLEAN, paused : BOOLEAN, last : Status, cooling : Run \cup {NoRun}]
LeaseRow == [owner : Worker \cup {NoWorker, Dead}, live : BOOLEAN]
JobState == [pc : Place, run : Run \cup {NoRun}, sub : Sub \cup {NoSub},
             manual : BOOLEAN, queued : BOOLEAN, res : Terminal \cup {"none"}]

TypeOK ==
    /\ newest \in Run \cup {0}
    /\ run \in [Run -> RunRow]
    /\ target \in [Run -> Status]
    /\ sub \in [Sub -> SubRow]
    /\ lease \in [Sub -> LeaseRow]
    /\ api \in [Run -> {"idle", "send", "saveSub", "saveTarget", "saveRun"}]
    /\ msg \in [Run -> 0 .. MaxReceive]
    /\ job \in [Worker -> JobState]
    /\ crashes \in 0 .. MaxCrash
    /\ sweep \in [at : {"idle", "targets", "runs"}, ids : SUBSET Run, locked : SUBSET Run]
    /\ overtaken \subseteq Run

(* A run that waited when its user was deleted.                            *)
Orphan(s) == [status |-> "QUEUED", type |-> "MANUAL", sub |-> s, asked |-> FALSE, age |-> Fresh]

Init ==
    /\ newest = Left
    /\ \E owner \in [1 .. Left -> Deleted] :
          run = [r \in Run |-> IF r <= Left THEN Orphan(owner[r]) ELSE NoRow]
    /\ target = [r \in Run |-> IF r <= Left THEN "QUEUED" ELSE "none"]
    /\ sub = [s \in Sub |-> [exists |-> s \notin Deleted, paused |-> FALSE, last |-> "none",
                             cooling |-> NoRun]]
    /\ lease = [s \in Sub |-> NoLease]
    /\ api = [r \in Run |-> "idle"]
    /\ msg = [r \in Run |-> 0]
    /\ job = [w \in Worker |-> NoJob]
    /\ crashes = 0
    /\ sweep = NoSweep
    /\ overtaken = {}

-----------------------------------------------------------------------------
(* The API: queue a run, announce it, and undo it when that fails.         *)

(* The runs on whose account the store takes s for busy.                   *)
ActiveFor(s) ==
    {r \in Run : run[r].sub = s /\ run[r].asked /\ target[r] \in Active}

(* queueSubscription refuses what is not there, is paused or was synced by *)
(* hand less than five minutes ago; the first run is that of a new row.    *)
MayQueue(s, type) ==
    /\ sub[s].exists /\ ~ sub[s].paused
    /\ type = "MANUAL" => sub[s].cooling = NoRun
    /\ type = "INITIAL" => sub[s].last = "none"

(* enqueueSyncRun: under the lock of the subscription row an active target *)
(* is looked for; with none a run is created.  With one the request        *)
(* returns that run and changes nothing.                                   *)
Enqueue(s, r, type) ==
    /\ MayQueue(s, type)
    /\ r = newest + 1 /\ newest' = r
    /\ ActiveFor(s) = {}
    /\ run' = [run EXCEPT ![r] = [status |-> "QUEUED", type |-> type, sub |-> s,
                                  asked |-> TRUE, age |-> Fresh]]
    /\ target' = [target EXCEPT ![r] = "QUEUED"]
    /\ sub' = [sub EXCEPT ![s].last = "QUEUED"]
    /\ api' = [api EXCEPT ![r] = "send"]
    /\ UNCHANGED <<lease, msg, job, crashes, sweep, overtaken>>

(* dispatch: the message goes to the queue with a time limit of 3 seconds. *)
Send(r) ==
    /\ api[r] = "send"
    /\ \E outcome \in SendOutcomes :
          /\ msg' = [msg EXCEPT ![r] = IF outcome = "failed" THEN @ ELSE MaxReceive]
          /\ api' = [api EXCEPT ![r] = IF outcome = "ok" THEN "idle" ELSE "saveSub"]
    /\ UNCHANGED <<newest, run, target, sub, lease, job, crashes, sweep, overtaken>>

(* The catch block of dispatch: three writes in three transactions.  The   *)
(* first throws when the subscription is gone.                             *)
DispatchFailed(r) ==
    \/ /\ api[r] = "saveSub"
       /\ IF sub[run[r].sub].exists
             THEN /\ sub' = [sub EXCEPT ![run[r].sub].last = "FAILED"]
                  /\ api' = [api EXCEPT ![r] = "saveTarget"]
             ELSE /\ api' = [api EXCEPT ![r] = "idle"]
                  /\ UNCHANGED sub
       /\ UNCHANGED <<newest, run, target, lease, msg, job, crashes, sweep, overtaken>>
    \/ /\ api[r] = "saveTarget" /\ r \notin sweep.locked
       /\ target' = [target EXCEPT ![r] = "FAILED"]
       /\ api' = [api EXCEPT ![r] = "saveRun"]
       /\ UNCHANGED <<newest, run, sub, lease, msg, job, crashes, sweep, overtaken>>
    \/ /\ api[r] = "saveRun"
       /\ run' = [run EXCEPT ![r].status = "FAILED", ![r].age = Fresh]
       /\ api' = [api EXCEPT ![r] = "idle"]
       /\ UNCHANGED <<newest, target, sub, lease, msg, job, crashes, sweep, overtaken>>

(* The API process ends before the request does.                           *)
ApiCrash(r) ==
    /\ api[r] # "idle"
    /\ api' = [api EXCEPT ![r] = "idle"]
    /\ UNCHANGED <<newest, run, target, sub, lease, msg, job, crashes, sweep, overtaken>>

(* setStatus, the end of remove, and deleteUserData as the jobs see them:  *)
(* rows of the subscription go, the run stays, and a deleted user's runs   *)
(* lose requestedById (ON DELETE SET NULL).                                *)
SetPaused(s) ==
    /\ "pause" \in UserActs /\ sub[s].exists
    /\ sub' = [sub EXCEPT ![s].paused = ~ @]
    /\ UNCHANGED <<newest, run, target, lease, api, msg, job, crashes, sweep, overtaken>>

RemoveSubscription(s) ==
    /\ "remove" \in UserActs /\ sub[s].exists
    /\ sub' = [sub EXCEPT ![s].exists = FALSE]
    /\ UNCHANGED <<newest, run, target, lease, api, msg, job, crashes, sweep, overtaken>>

DeleteUser(s) ==
    /\ "delete" \in UserActs
    /\ sub[s].exists \/ \E r \in Run : run[r].sub = s /\ run[r].asked
    /\ sub' = [sub EXCEPT ![s].exists = FALSE]
    /\ run' = [r \in Run |-> IF run[r].sub = s
                                THEN [run[r] EXCEPT !.asked = FALSE] ELSE run[r]]
    /\ UNCHANGED <<newest, target, lease, api, msg, job, crashes, sweep, overtaken>>

-----------------------------------------------------------------------------
(* Workers: claim a run.                                                   *)

(* Mutants: the heartbeat is not looked at, a failed run is tried again,   *)
(* the condition on the type knows manual runs alone.                      *)
ClaimableWithoutAge(r) == run[r].status \in Active
ClaimableFailedToo(r) == run[r].status \in {"QUEUED", "FAILED"} \/ run[r].age # Fresh
ClaimableManual(r) ==
    /\ run[r].type = "MANUAL"
    /\ run[r].status = "QUEUED" \/ (run[r].status = "RUNNING" /\ run[r].age # Fresh)

(* claimSyncRun and listRecoverableSyncRunIds: QUEUED, or RUNNING without  *)
(* a heartbeat for 30 minutes.                                             *)
Claimable(r) ==
    \/ run[r].status = "QUEUED"
    \/ run[r].status = "RUNNING" /\ run[r].age # Fresh

(* The claim commits run and target RUNNING; the run of a deleted user is  *)
(* read back as null then, and runTargeted returns SKIPPED.                *)
Claim(w, r, queued) ==
    /\ run' = [run EXCEPT ![r].status = "RUNNING", ![r].age = Fresh]
    /\ target' = [target EXCEPT ![r] = "RUNNING"]
    /\ job' = IF run[r].asked
                 THEN [job EXCEPT ![w] = [pc |-> "check", run |-> r,
                          sub |-> run[r].sub, manual |-> run[r].type = "MANUAL",
                          queued |-> queued, res |-> "none"]]
                 ELSE job

(* A message is delivered; SKIPPED acknowledges it.  A claim whose target   *)
(* row is locked by maintenance has locked the run row maintenance wants   *)
(* next: the database ends one of the two, here the claim, whose message   *)
(* stays (the other way is AbortMaintenance).                              *)
Deliver(w, r) ==
    /\ job[w].pc = "idle"
    /\ msg[r] > 0
    /\ IF Claimable(r)
          THEN IF r \in sweep.locked
                  THEN /\ msg' = [msg EXCEPT ![r] = @ - 1]
                       /\ UNCHANGED <<newest, run, target, job>>
                  ELSE /\ Claim(w, r, TRUE)
                       /\ msg' = [msg EXCEPT ![r] = IF run[r].asked THEN @ - 1 ELSE 0]
          ELSE /\ msg' = [msg EXCEPT ![r] = 0]
               /\ UNCHANGED <<newest, run, target, job>>
    /\ UNCHANGED <<newest, sub, lease, api, crashes, sweep, overtaken>>

(* runPendingManual of the hourly pass; a claim the database ends leaves   *)
(* everything as it was.                                                   *)
Recover(w, r) ==
    /\ job[w].pc = "idle"
    /\ Claimable(r) /\ r \notin sweep.locked
    /\ Claim(w, r, FALSE)
    /\ UNCHANGED <<newest, sub, lease, api, msg, crashes, sweep, overtaken>>

(* runScheduled of the hourly pass, one of its active subscriptions.  Its  *)
(* run is of type SCHEDULED and no job: it is not modelled.                *)
StartScheduled(w, s) ==
    /\ job[w].pc = "idle"
    /\ sub[s].exists /\ ~ sub[s].paused
    /\ job' = [job EXCEPT ![w] = [NoJob EXCEPT !.pc = "check", !.sub = s]]
    /\ UNCHANGED <<newest, run, target, sub, lease, api, msg, crashes, sweep, overtaken>>

-----------------------------------------------------------------------------
(* Workers: syncSubscription and the rest of runTargeted.                  *)

Goto(w, place) == job' = [job EXCEPT ![w].pc = place]
Result(w, place, res) == job' = [job EXCEPT ![w].pc = place, ![w].res = res]

(* Subscription gone, PAUSED or in its cooldown: throw before anything is  *)
(* written; otherwise startSyncTarget, which waits for a locked row.        *)
Check(w) ==
    LET s == job[w].sub IN
    /\ job[w].pc = "check"
    /\ IF ~ sub[s].exists \/ sub[s].paused \/ (job[w].manual /\ sub[s].cooling # NoRun)
          THEN Result(w, "wrap", "FAILED") /\ UNCHANGED target
          ELSE /\ job[w].run \notin sweep.locked
               /\ target' = IF job[w].run = NoRun THEN target
                               ELSE [target EXCEPT ![job[w].run] = "RUNNING"]
               /\ Goto(w, "acquire")
    /\ UNCHANGED <<newest, run, sub, lease, api, msg, crashes, sweep, overtaken>>

(* A mutant: the lease of another worker is ignored.                       *)
AlwaysFree(s) == TRUE

(* The lease is free, expired or gone.                                     *)
LeaseFree(s) == ~ lease[s].live

(* acquireSyncLease; a refusal fails the run with SYNC_ALREADY_RUNNING and *)
(* leaves the subscription row alone.                                      *)
Acquire(w) ==
    LET s == job[w].sub IN
    /\ job[w].pc = "acquire"
    /\ IF LeaseFree(s)
          THEN /\ lease' = [lease EXCEPT ![s] = [owner |-> w, live |-> TRUE]]
               /\ Goto(w, "begin")
          ELSE Result(w, "saveTarget", "FAILED") /\ UNCHANGED lease
    /\ UNCHANGED <<newest, run, target, sub, api, msg, crashes, sweep, overtaken>>

(* saveSyncResult RUNNING, which also starts the cooldown of a manual run. *)
Begin(w) ==
    LET s == job[w].sub IN
    /\ job[w].pc = "begin"
    /\ IF sub[s].exists
          THEN /\ sub' = [sub EXCEPT ![s].last = "RUNNING",
                                     ![s].cooling = IF job[w].manual
                                                           THEN job[w].run ELSE @]
               /\ Goto(w, "sync")
          ELSE Result(w, "saveSub", "FAILED") /\ UNCHANGED sub
    /\ UNCHANGED <<newest, run, target, lease, api, msg, crashes, sweep, overtaken>>

Owns(w) == lease[job[w].sub].owner = w /\ lease[job[w].sub].live

(* heartbeatSyncRun after a renewal.                                       *)
Beat(w) ==
    run' = IF job[w].run # NoRun /\ run[job[w].run].status = "RUNNING"
              THEN [run EXCEPT ![job[w].run].age = Fresh] ELSE run

(* renewLease between the calls of the sync.  A lost lease skips the write *)
(* to the subscription but not those to target and run.                    *)
Renew(w) ==
    /\ job[w].pc = "sync"
    /\ IF Owns(w)
          THEN Beat(w) /\ UNCHANGED job
          ELSE Result(w, "saveTarget", "FAILED") /\ UNCHANGED run
    /\ UNCHANGED <<newest, target, sub, lease, api, msg, crashes, sweep, overtaken>>

(* The calls are over: after a last renewal with SUCCESS or DEFERRED, or   *)
(* with any error.  One of them is SYNC_LEASE_LOST for the lease of the     *)
(* channel, which skips the write to the subscription as well.             *)
EndSync(w) ==
    /\ job[w].pc = "sync"
    /\ \/ /\ Owns(w)
          /\ Beat(w)
          /\ \E res \in Completions : Result(w, "saveSub", res)
       \/ Result(w, "saveSub", "FAILED") /\ UNCHANGED run
       \/ Result(w, "saveTarget", "FAILED") /\ UNCHANGED run
    /\ UNCHANGED <<newest, target, sub, lease, api, msg, crashes, sweep, overtaken>>

(* saveSyncResult of the outcome.  When the subscription is gone it throws *)
(* in the catch block, past the writes to target and run.                  *)
SaveSub(w) ==
    LET s == job[w].sub IN
    /\ job[w].pc = "saveSub"
    /\ IF sub[s].exists
          THEN /\ sub' = [sub EXCEPT ![s].last = job[w].res]
               /\ Goto(w, IF job[w].run = NoRun THEN "release" ELSE "saveTarget")
          ELSE Result(w, "release", "FAILED") /\ UNCHANGED sub
    /\ UNCHANGED <<newest, run, target, lease, api, msg, crashes, sweep, overtaken>>

(* finishSyncTarget and finishSyncRun: by key, whatever is there; the first *)
(* waits for a locked row.                                                 *)
SaveTarget(w) ==
    /\ job[w].pc = "saveTarget" /\ job[w].run \notin sweep.locked
    /\ target' = IF job[w].run = NoRun THEN target
                    ELSE [target EXCEPT ![job[w].run] = job[w].res]
    /\ Goto(w, "saveRun")
    /\ UNCHANGED <<newest, run, sub, lease, api, msg, crashes, sweep, overtaken>>

SaveRun(w) ==
    /\ job[w].pc = "saveRun"
    /\ run' = IF job[w].run = NoRun THEN run
                 ELSE [run EXCEPT ![job[w].run].status = job[w].res,
                                  ![job[w].run].age = Fresh]
    /\ overtaken' = overtaken \ {job[w].run}
    /\ Goto(w, "release")
    /\ UNCHANGED <<newest, target, sub, lease, api, msg, crashes, sweep>>

Done(w) == job' = [job EXCEPT ![w] = NoJob]

(* The finally block, then the end of runTargeted: a result acknowledges   *)
(* the message, an error goes on to the catch block of runTargeted.        *)
Release(w) ==
    LET s == job[w].sub IN
    /\ job[w].pc = "release"
    /\ lease' = IF lease[s].owner = w THEN [lease EXCEPT ![s] = NoLease] ELSE lease
    /\ IF job[w].res # "FAILED"
          THEN /\ msg' = IF job[w].queued THEN [msg EXCEPT ![job[w].run] = 0] ELSE msg
               /\ Done(w)
          ELSE Goto(w, "wrap") /\ UNCHANGED msg
    /\ UNCHANGED <<newest, run, target, sub, api, crashes, sweep, overtaken>>

(* The catch block of runTargeted finishes a run that is still RUNNING and *)
(* has a requester; then the error ends the job and the message stays.     *)
Wrap(w) ==
    LET r == job[w].run IN
    \/ /\ job[w].pc = "wrap"
       /\ IF r # NoRun /\ run[r].status = "RUNNING" /\ run[r].asked
             THEN Goto(w, "wrapTarget")
             ELSE Done(w)
       /\ UNCHANGED <<newest, run, target, sub, lease, api, msg, crashes, sweep, overtaken>>
    \/ /\ job[w].pc = "wrapTarget" /\ r \notin sweep.locked
       /\ target' = [target EXCEPT ![r] = "FAILED"]
       /\ Goto(w, "wrapRun")
       /\ UNCHANGED <<newest, run, sub, lease, api, msg, crashes, sweep, overtaken>>
    \/ /\ job[w].pc = "wrapRun"
       /\ run' = [run EXCEPT ![r].status = "FAILED", ![r].age = Fresh]
       /\ Done(w)
       /\ UNCHANGED <<newest, target, sub, lease, api, msg, crashes, sweep, overtaken>>

WorkerStep(w) ==
    \/ Check(w) \/ Acquire(w) \/ Begin(w) \/ EndSync(w) \/ SaveSub(w)
    \/ SaveTarget(w) \/ SaveRun(w) \/ Release(w) \/ Wrap(w)

(* The process dies, by an error or by the time limit of the function.     *)
Crash(w) ==
    /\ job[w].pc # "idle"
    /\ crashes < MaxCrash
    /\ crashes' = crashes + 1
    /\ Done(w)
    /\ lease' = [s \in Sub |-> IF lease[s].owner = w
                                  THEN [lease[s] EXCEPT !.owner = Dead] ELSE lease[s]]
    /\ UNCHANGED <<newest, run, target, sub, api, msg, sweep, overtaken>>

-----------------------------------------------------------------------------
(* Time, and the maintenance of the run table.                             *)

Running(r) == \E w \in Worker : job[w].run = r

(* The heartbeat of a run gets old.  A worker function is stopped after 14 *)
(* minutes, so no live worker has an old heartbeat.  The cooldown of 5      *)
(* minutes the run began is over by then, and so are the request that       *)
(* queued it and a transaction that has read it, which take seconds.       *)
GetOld(r) ==
    /\ run[r].status = "RUNNING" /\ run[r].age # Abandoned
    /\ ~ Running(r) /\ api[r] = "idle" /\ r \notin sweep.ids
    /\ sub[run[r].sub].cooling # r
    /\ run' = [run EXCEPT ![r].age = @ + 1]
    /\ UNCHANGED <<newest, target, sub, lease, api, msg, job, crashes, sweep, overtaken>>

(* SYNC_LEASE_MS, 15 minutes, passes.  It is renewed by live workers and   *)
(* longer than their time limit, so only a dead owner's row expires.       *)
ExpireLease(s) ==
    /\ lease[s].live
    /\ lease[s].owner \notin Worker
    /\ lease' = [lease EXCEPT ![s].live = FALSE]
    /\ UNCHANGED <<newest, run, target, sub, api, msg, job, crashes, sweep, overtaken>>

CoolDown(s) ==
    /\ sub[s].cooling # NoRun
    /\ sub' = [sub EXCEPT ![s].cooling = NoRun]
    /\ UNCHANGED <<newest, run, target, lease, api, msg, job, crashes, sweep, overtaken>>

(* maintainSyncRuns, one transaction under READ COMMITTED.  It reads what   *)
(* has been RUNNING without a heartbeat for 24 hours.  That one of them    *)
(* runs at a time is a bound: SQS may deliver the message of the hourly    *)
(* pass twice, and two of them would wait for each other's rows.           *)
FindStale ==
    LET stale == {r \in Run : run[r].status = "RUNNING" /\ run[r].age = Abandoned} IN
    /\ sweep.at = "idle" /\ stale # {}
    /\ sweep' = [at |-> "targets", ids |-> stale, locked |-> {}]
    /\ UNCHANGED <<newest, run, target, sub, lease, api, msg, job, crashes, overtaken>>

(* By id, it writes the targets that are RUNNING at this moment.           *)
FailTargets ==
    /\ sweep.at = "targets"
    /\ sweep' = [sweep EXCEPT !.at = "runs",
                              !.locked = {r \in sweep.ids : target[r] = "RUNNING"}]
    /\ UNCHANGED <<newest, run, target, sub, lease, api, msg, job, crashes, overtaken>>

(* A mutant: the targets are forgotten.                                    *)
FailRunsAlone ==
    /\ sweep.at = "runs"
    /\ run' = [r \in Run |-> IF r \in sweep.ids /\ run[r].status = "RUNNING"
                                THEN [run[r] EXCEPT !.status = "FAILED"] ELSE run[r]]
    /\ sweep' = NoSweep
    /\ UNCHANGED <<newest, target, sub, lease, api, msg, job, crashes, overtaken>>

(* By id again, it writes the runs that are RUNNING, whatever heartbeat    *)
(* they have had since, and commits.                                       *)
FailRuns ==
    LET failed == {r \in sweep.ids : run[r].status = "RUNNING"} IN
    /\ sweep.at = "runs"
    /\ run' = [r \in Run |-> IF r \in failed THEN [run[r] EXCEPT !.status = "FAILED"]
                                             ELSE run[r]]
    /\ target' = [r \in Run |-> IF r \in sweep.locked THEN "FAILED" ELSE target[r]]
    /\ sweep' = NoSweep
    /\ overtaken' = overtaken \cup {r \in failed : run[r].age # Abandoned}
    /\ UNCHANGED <<newest, sub, lease, api, msg, job, crashes>>

(* The transaction rolls back: a deadlock with a claim, a timeout, a crash. *)
AbortMaintenance ==
    /\ sweep.at # "idle"
    /\ sweep' = NoSweep
    /\ UNCHANGED <<newest, run, target, sub, lease, api, msg, job, crashes, overtaken>>

(* Its last statement drops what was completed 90 days ago, when nothing   *)
(* is left of it: no message, request, cooldown or transaction.            *)
Purge(r) ==
    /\ run[r].status \in Terminal
    /\ msg[r] = 0 /\ api[r] = "idle" /\ ~ Running(r)
    /\ r \notin sweep.ids /\ sub[run[r].sub].cooling # r
    /\ run' = [run EXCEPT ![r] = NoRow]
    /\ target' = [target EXCEPT ![r] = "none"]
    /\ overtaken' = overtaken \ {r}
    /\ UNCHANGED <<newest, sub, lease, api, msg, job, crashes, sweep>>

Maintenance == FindStale \/ FailTargets \/ FailRuns \/ AbortMaintenance

Next ==
    \/ \E r \in Run : \/ \E s \in Sub, type \in {"INITIAL", "MANUAL"} : Enqueue(s, r, type)
                      \/ Send(r) \/ DispatchFailed(r) \/ ApiCrash(r)
                      \/ GetOld(r) \/ Purge(r)
    \/ \E s \in Sub : \/ SetPaused(s) \/ RemoveSubscription(s) \/ DeleteUser(s)
                      \/ ExpireLease(s) \/ CoolDown(s)
    \/ \E w \in Worker : \/ \E r \in Run : Deliver(w, r) \/ Recover(w, r)
                         \/ \E s \in Sub : StartScheduled(w, s)
                         \/ WorkerStep(w) \/ Renew(w) \/ Crash(w)
    \/ Maintenance

Spec == Init /\ [][Next]_vars

(* Runs the hourly pass may find before r when it lists the PassLimit runs *)
(* it recovers, the oldest first.  Those of deleted users never end that   *)
(* way: each pass claims them, gets null for them and leaves them RUNNING. *)
Waiting(r) == run[r].status \in Active /\ ~ Running(r)
Before(r) == {q \in Run : q < r /\ Waiting(q)}
InBatch(r) == Cardinality(Before(r)) < PassLimit
Crowded(r) == Cardinality({q \in Before(r) : ~ run[q].asked}) >= PassLimit

(* A worker that does not crash finishes, an API request ends somehow, and *)
(* time passes.  The hourly pass comes again and again: it claims the runs *)
(* of its batch, syncs the subscriptions that are active, and does not     *)
(* roll its maintenance back for ever.                                     *)
Fairness ==
    /\ \A w \in Worker : WF_vars(WorkerStep(w))
    /\ \A r \in Run : /\ WF_vars(Send(r) \/ DispatchFailed(r) \/ ApiCrash(r))
                      /\ WF_vars(GetOld(r))
                      /\ SF_vars(\E w \in Worker : InBatch(r) /\ Recover(w, r))
    /\ \A s \in Sub : /\ WF_vars(ExpireLease(s)) /\ WF_vars(CoolDown(s))
                      /\ SF_vars(\E w \in Worker : StartScheduled(w, s))
    /\ WF_vars(FindStale) /\ WF_vars(FailTargets) /\ SF_vars(FailRuns)

FairSpec == Spec /\ Fairness

-----------------------------------------------------------------------------

(* Atomic claim: a message delivered twice, its redelivery after a crash   *)
(* and the hourly pass never put two workers on one run.                   *)
OneWorkerPerRun ==
    \A w, v \in Worker : w # v /\ job[w].run # NoRun => job[w].run # job[v].run

(* The life cycle QUEUED -> RUNNING -> SUCCESS | FAILED | DEFERRED has no  *)
(* way back: what GET /sync-runs/{id} told the user as the outcome stays,  *)
(* until the run is purged.  The one exception is a run that maintenance   *)
(* failed although it had been claimed since maintenance read its id: its  *)
(* worker writes its own outcome, once.                                    *)
OutcomeStays ==
    [][\A r \in Run :
          run[r].status \in Terminal /\ run'[r].status \notin {run[r].status, "none"}
             => /\ r \in overtaken /\ r \notin overtaken'
                /\ \E w \in Worker : job[w].run = r /\ run'[r].status = job[w].res]_vars

(* A target that is active, and so is the answer to the next request for   *)
(* its subscription, belongs to a run that is active: some claim, worker   *)
(* or maintenance step still ends it.  The exception is the same: a run    *)
(* overtaken by maintenance whose worker has not written its outcome.      *)
TargetFollowsRun ==
    \A r \in Run \ overtaken : target[r] \in Active => run[r].status \in Active

(* The outcome of a sync is written to its subscription by the worker that *)
(* holds the lease: the hourly pass and a queued run of the same           *)
(* subscription never write over each other.                               *)
SavedByOwner ==
    [][\A w \in Worker :
          job[w].pc = "saveSub" /\ job'[w] # job[w] /\ sub' # sub
             => lease[job[w].sub].owner = w]_vars

(* Every run its user still waits for ends: a lost message, an API or      *)
(* worker crash, an expired delivery count, maintenance that rolls back    *)
(* only delay it.  It does not end when as many older runs of deleted      *)
(* users as the pass recovers at a time stay in front of it.  For the runs *)
(* of those users nobody waits.                                            *)
RunsEnd ==
    \A r \in Run \ 1 .. Left :
        (run[r].status \in Active /\ run[r].asked)
            ~> (run[r].status \notin Active \/ ~ run[r].asked \/ Crowded(r))

(* Whatever runs side by side, the rows of runs and targets change by the  *)
(* operations of the store alone, one at a time: a claim, a recovery or a  *)
(* maintenance that lost half of its effect would be no operation of it.   *)
Store == INSTANCE JobStore WITH listed <- sweep.ids
ImplementsJobStore == Store!Spec
=============================================================================
