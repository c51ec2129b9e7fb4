---------------------------- MODULE ScheduledPass ---------------------------
(***************************************************************************)
(* The hourly pass of the worker (runScheduled, scheduled-worker.ts) on    *)
(* top of the quota: it refreshes the metadata of channels that need it,   *)
(* writes a SCHEDULED run, syncs the active subscriptions one by one and   *)
(* sums up their results twice, as the status of the run and as the exit   *)
(* code of the process. Manual callers, the API and targeted workers, use  *)
(* the quota meanwhile. What a sync does beside its fetch is the subject   *)
(* of SyncJob and ChannelSync; here it only has a result.                  *)
(***************************************************************************)
EXTENDS YouTubeGateway

CONSTANTS
    Worker,      \* the caller that runs the pass
    MaxStale,    \* bound: channels with old metadata
    MaxTargets,  \* bound: active subscriptions
    MaxFetches,  \* bound: targets whose channel is fetched, the last ones
    MaxCalls,    \* bound: calls of the manual callers together
    MaxFaults    \* bound: crashes and statements that fail

ASSUME PassAssumption ==
    /\ Worker \in Callers
    /\ MaxStale \in Nat /\ MaxTargets \in Nat /\ MaxFetches \in Nat
    /\ MaxCalls \in Nat /\ MaxFaults \in Nat

VARIABLES
    pass,   \* the running pass: place, channels and targets left, results so far
    run,    \* status of its SyncRun row, or "none"
    exit,   \* exit code of the process, or Running
    calls,  \* manual calls so far (bound)
    faults  \* faults so far (bound)

passVars == <<pass, run, exit, calls, faults>>
vars == <<clock, usage, call, manual, pass, run, exit, calls, faults>>

Results == {"SUCCESS", "DEFERRED", "FAILED"}
Running == 2
Idle == [pc |-> "idle", stale |-> 0, left |-> 0, results |-> [r \in Results |-> 0]]

Total(results) == results["SUCCESS"] + results["DEFERRED"] + results["FAILED"]

(* A mutant: the branches ask for any failure before they ask for all.     *)
StatusByAnyFailure(results) ==
    IF results["FAILED"] > 0 THEN "FAILED"
    ELSE IF results["DEFERRED"] = Total(results) THEN "DEFERRED"
    ELSE "SUCCESS"

(* The status finishSyncRun gets from the results.                         *)
RunStatus(results) ==
    IF Total(results) = 0 THEN "SUCCESS"
    ELSE IF results["FAILED"] = Total(results) THEN "FAILED"
    ELSE IF results["FAILED"] > 0 THEN "PARTIAL_FAILED"
    ELSE IF results["DEFERRED"] = Total(results) THEN "DEFERRED"
    ELSE IF results["DEFERRED"] > 0 THEN "PARTIAL_SUCCESS"
    ELSE "SUCCESS"

(* executeScheduledWorker counts the results on its own.                   *)
ExitCode(results) == IF results["FAILED"] > 0 THEN 1 ELSE 0

Fault == faults < MaxFaults /\ faults' = faults + 1
Quiet == UNCHANGED <<clock, usage, manual, calls, faults>>

(* The scheduler invokes the worker; maintenance and the list of channels  *)
(* whose metadata is older than a day.                                     *)
StartPass ==
    /\ pass.pc = "idle" /\ run = "none"
    /\ \E n \in 0 .. MaxStale : pass' = [Idle EXCEPT !.pc = "refresh", !.stale = n]
    /\ UNCHANGED <<call, run, exit>> /\ Quiet

(* resolveChannelId for the next of them; whatever happens, the loop goes  *)
(* on.                                                                     *)
RefreshMetadata ==
    /\ pass.pc = "refresh" /\ pass.stale > 0 /\ call[Worker].pc = "idle"
    /\ Begin(Worker, "SCHEDULED", "channels")
    /\ UNCHANGED <<pass, run, exit>> /\ Quiet

MetadataRefreshed ==
    /\ pass.pc = "refresh" /\ call[Worker].pc \in {"done", "deferred", "failed"}
    /\ call' = [call EXCEPT ![Worker] = NoCall]
    /\ pass' = [pass EXCEPT !.stale = @ - 1]
    /\ UNCHANGED <<run, exit>> /\ Quiet

(* maintainSyncRuns, the purge of tombstones, listActiveSubscriptions and  *)
(* startSyncRun.                                                           *)
StartRun ==
    /\ pass.pc = "refresh" /\ pass.stale = 0
    /\ \E n \in 0 .. MaxTargets : pass' = [pass EXCEPT !.pc = "targets", !.left = n]
    /\ run' = "RUNNING"
    /\ UNCHANGED <<call, exit>> /\ Quiet

Record(result) ==
    pass' = [pass EXCEPT !.left = @ - 1, !.results[result] = @ + 1]

(* syncSubscription of the next target. It may end without a fetch: the    *)
(* snapshot is fresh, or it throws before (SYNC_ALREADY_RUNNING, paused).  *)
SyncWithoutFetch ==
    /\ pass.pc = "targets" /\ pass.left > 0 /\ call[Worker].pc = "idle"
    /\ \E result \in Results : Record(result)
    /\ UNCHANGED <<call, run, exit>> /\ Quiet

FetchTarget ==
    /\ pass.pc = "targets" /\ pass.left \in 1 .. MaxFetches /\ call[Worker].pc = "idle"
    /\ Begin(Worker, "SCHEDULED", "search")
    /\ UNCHANGED <<pass, run, exit>> /\ Quiet

(* A fetch that fails fails the sync; one that was deferred leaves the     *)
(* calendar to the cached broadcasts, and any sync may still fail there.   *)
TargetSynced ==
    /\ pass.pc = "targets" /\ call[Worker].pc \in {"done", "deferred", "failed"}
    /\ \E result \in CASE call[Worker].pc = "done" -> {"SUCCESS", "FAILED"}
                       [] call[Worker].pc = "deferred" -> {"DEFERRED", "FAILED"}
                       [] call[Worker].pc = "failed" -> {"FAILED"} : Record(result)
    /\ call' = [call EXCEPT ![Worker] = NoCall]
    /\ UNCHANGED <<run, exit>> /\ Quiet

FinishRun ==
    /\ pass.pc = "targets" /\ pass.left = 0
    /\ run' = RunStatus(pass.results)
    /\ pass' = [pass EXCEPT !.pc = "disconnect"]
    /\ UNCHANGED <<call, exit>> /\ Quiet

(* executeScheduledWorkerLifecycle: a failing disconnect makes the code 1. *)
Disconnect ==
    /\ pass.pc = "disconnect"
    /\ exit' \in {ExitCode(pass.results), 1}
    /\ pass' = [Idle EXCEPT !.pc = "ended"]
    /\ UNCHANGED <<call, run>> /\ Quiet

(* A statement outside the loops throws: exit code 1, and the run, if it   *)
(* was written, stays RUNNING for maintainSyncRuns.                        *)
PassFails ==
    /\ pass.pc \in {"refresh", "targets"} /\ call[Worker].pc = "idle"
    /\ exit' = 1 /\ pass' = [Idle EXCEPT !.pc = "ended"]
    /\ Fault
    /\ UNCHANGED <<call, run, clock, usage, manual, calls>>

(* The function is killed, with the request it was making.                 *)
PassDies ==
    /\ pass.pc \notin {"idle", "ended"}
    /\ exit' = 1 /\ pass' = [Idle EXCEPT !.pc = "ended"]
    /\ call' = [call EXCEPT ![Worker] = NoCall]
    /\ Fault
    /\ UNCHANGED <<run, clock, usage, manual, calls>>

-----------------------------------------------------------------------------
(* Manual callers: a handle search, or the fetch of a requested sync.      *)
ManualCall(c) ==
    /\ c # Worker /\ call[c].pc = "idle" /\ calls < MaxCalls
    /\ \E stage \in {"channels", "search"} : Begin(c, "MANUAL", stage)
    /\ calls' = calls + 1
    /\ UNCHANGED <<clock, usage, manual, pass, run, exit, faults>>

ManualEnds(c) ==
    /\ c # Worker /\ call[c].pc \in {"done", "deferred", "failed"}
    /\ call' = [call EXCEPT ![c] = NoCall]
    /\ UNCHANGED <<clock, usage, manual>> /\ UNCHANGED passVars

PassStep ==
    \/ RefreshMetadata \/ MetadataRefreshed \/ StartRun \/ SyncWithoutFetch \/ FetchTarget
    \/ TargetSynced \/ FinishRun \/ Disconnect

Gateway(c) ==
    \/ CallStep(c) /\ UNCHANGED passVars
    \/ /\ StatementFails(c) \/ (c # Worker /\ Crash(c))
       /\ Fault /\ UNCHANGED <<pass, run, exit, calls>>

Init ==
    /\ QuotaInit
    /\ pass = Idle /\ run = "none" /\ exit = Running /\ calls = 0 /\ faults = 0

Next ==
    \/ StartPass \/ PassStep \/ PassFails \/ PassDies
    \/ \E c \in Callers : ManualCall(c) \/ ManualEnds(c) \/ Gateway(c)
    \/ Tick /\ UNCHANGED passVars

Spec == Init /\ [][Next]_vars

-----------------------------------------------------------------------------
TypeOK ==
    /\ QuotaTypeOK
    /\ pass \in [pc : {"idle", "refresh", "targets", "disconnect", "ended"},
                 stale : 0 .. MaxStale, left : 0 .. MaxTargets, results : [Results -> Nat]]
    /\ run \in {"none", "RUNNING", "SUCCESS", "PARTIAL_SUCCESS", "PARTIAL_FAILED", "DEFERRED", "FAILED"}
    /\ exit \in {0, 1, Running}
    /\ calls \in 0 .. MaxCalls /\ faults \in 0 .. MaxFaults

(* The two summaries agree: a process that exits with 0 has written a run  *)
(* without a failed target, a run with one makes the code 1 and so reaches *)
(* the alarm, and DEFERRED stands for a pass in which nothing succeeded.   *)
ReportsAgree ==
    /\ exit = 0 => run \in {"SUCCESS", "PARTIAL_SUCCESS", "DEFERRED"}
    /\ exit # Running /\ run \in {"PARTIAL_FAILED", "FAILED"} => exit = 1
    /\ pass.pc = "disconnect" =>
          /\ run = "DEFERRED" => pass.results["DEFERRED"] > 0 /\ pass.results["SUCCESS"] = 0
          /\ run = "FAILED" => pass.results["FAILED"] > 0 /\ pass.results["SUCCESS"] = 0
=============================================================================
