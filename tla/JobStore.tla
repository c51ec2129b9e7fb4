------------------------------ MODULE JobStore ------------------------------
(***************************************************************************)
(* What the table of runs promises to the API, to the workers and to the   *)
(* hourly pass: every operation of the store on SyncRun and its            *)
(* SyncTargetResult is one step, but for the maintenance, which acts later *)
(* on what it has read.  The in-memory store (memory-store.ts) gives that  *)
(* by having no await in an operation, PrismaStore by its transactions;    *)
(* SyncJob shows that queueing, delivery, recovery, workers, crashes and   *)
(* maintenance get along with nothing but these steps.                     *)
(***************************************************************************)
EXTENDS Naturals

CONSTANTS Run, Sub, NoSub

VARIABLES
    run,    \* SyncRun rows: status, type, subscription, requestedById set?, heartbeat age
    target, \* status of the run's SyncTargetResult row
    listed  \* the runs maintenance has read as lost and not dealt with

Outcome == {"SUCCESS", "DEFERRED", "FAILED"}
NoRow == [status |-> "none", type |-> "none", sub |-> NoSub, asked |-> FALSE, age |-> 0]

(* The table may begin with runs that deleted users have left QUEUED.      *)
Init ==
    /\ \E owner \in [Run -> Sub \cup {NoSub}] :
          /\ run = [r \in Run |-> IF owner[r] = NoSub THEN NoRow
                                  ELSE [status |-> "QUEUED", type |-> "MANUAL", sub |-> owner[r],
                                        asked |-> FALSE, age |-> 0]]
          /\ target = [r \in Run |-> IF owner[r] = NoSub THEN "none" ELSE "QUEUED"]
    /\ listed = {}

(* enqueueSyncRun: at most one target of a subscription is active among    *)
(* the runs its user asked for.                                            *)
Busy(s) == \E q \in Run : run[q].sub = s /\ run[q].asked /\ target[q] \in {"QUEUED", "RUNNING"}

Enqueue(r, s, type) ==
    /\ run[r] = NoRow /\ ~ Busy(s)
    /\ run' = [run EXCEPT ![r] = [status |-> "QUEUED", type |-> type, sub |-> s,
                                  asked |-> TRUE, age |-> 0]]
    /\ target' = [target EXCEPT ![r] = "QUEUED"]

(* claimSyncRun; listRecoverableSyncRunIds has the same condition.         *)
Recoverable(r) == run[r].status = "QUEUED" \/ (run[r].status = "RUNNING" /\ run[r].age # 0)

Claim(r) ==
    /\ Recoverable(r)
    /\ run' = [run EXCEPT ![r].status = "RUNNING", ![r].age = 0]
    /\ target' = [target EXCEPT ![r] = "RUNNING"]

Heartbeat(r) ==
    /\ run[r].status = "RUNNING"
    /\ run' = [run EXCEPT ![r].age = 0]
    /\ UNCHANGED target

(* startSyncTarget, finishSyncTarget and finishSyncRun go by the key       *)
(* alone.                                                                  *)
StartTarget(r) ==
    /\ target' = [target EXCEPT ![r] = "RUNNING"]
    /\ UNCHANGED run

FinishTarget(r) ==
    /\ \E status \in Outcome : target' = [target EXCEPT ![r] = status]
    /\ UNCHANGED run

FinishRun(r) ==
    /\ \E status \in Outcome : run' = [run EXCEPT ![r].status = status, ![r].age = 0]
    /\ UNCHANGED target

(* maintainSyncRuns reads what has had no heartbeat for 24 hours and, at   *)
(* once or later, fails those of them that are still RUNNING, whatever     *)
(* heartbeat they have had since, with the targets it found RUNNING: all   *)
(* of them but for runs that were claimed meanwhile.  It may give up.      *)
Lost == {r \in Run : run[r].status = "RUNNING" /\ run[r].age = 2}

List ==
    /\ listed = {}
    /\ listed' = Lost
    /\ UNCHANGED <<run, target>>

FailListed ==
    LET running == {r \in listed : target[r] = "RUNNING"} IN
    /\ run' = [r \in Run |-> IF r \in listed /\ run[r].status = "RUNNING"
                                THEN [run[r] EXCEPT !.status = "FAILED"] ELSE run[r]]
    /\ \E marked \in SUBSET running :
          /\ running \cap Lost \subseteq marked
          /\ target' = [r \in Run |-> IF r \in marked THEN "FAILED" ELSE target[r]]
    /\ listed' = {}

Drop == listed' = {} /\ UNCHANGED <<run, target>>

(* Its last statement: what ended 90 days ago goes.                        *)
Expire(r) ==
    /\ run[r].status \in Outcome
    /\ run' = [run EXCEPT ![r] = NoRow]
    /\ target' = [target EXCEPT ![r] = "none"]

(* deleteUserData as the database has it (ON DELETE SET NULL); the         *)
(* in-memory store leaves requestedById of the runs alone.                 *)
LoseRequester(s) ==
    /\ run' = [r \in Run |-> IF run[r].sub = s THEN [run[r] EXCEPT !.asked = FALSE] ELSE run[r]]
    /\ UNCHANGED target

(* Time: the heartbeat is over 30 minutes, over 24 hours old.              *)
GrowOld(r) ==
    /\ run[r].status = "RUNNING" /\ run[r].age < 2
    /\ run' = [run EXCEPT ![r].age = @ + 1]
    /\ UNCHANGED target

Row(r) ==
    \/ \E s \in Sub, type \in {"INITIAL", "MANUAL"} : Enqueue(r, s, type)
    \/ Claim(r) \/ Heartbeat(r) \/ StartTarget(r) \/ FinishTarget(r)
    \/ FinishRun(r) \/ Expire(r) \/ GrowOld(r)

Next ==
    \/ (\E r \in Run : Row(r)) /\ UNCHANGED listed
    \/ (\E s \in Sub : LoseRequester(s)) /\ UNCHANGED listed
    \/ List \/ FailListed \/ Drop

Spec == Init /\ [][Next]_<<run, target, listed>>
=============================================================================
