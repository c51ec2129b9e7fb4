---------------------------- MODULE StagingPower ----------------------------
(***************************************************************************)
(* Who switches the staging environment on and off: the commands wake,     *)
(* sleep and status of an operator (staging-operations.mjs) and the hourly *)
(* auto-sleep Lambda (staging-auto-sleep/). They share one parameter, the  *)
(* deadline, and three resources of AWS: the schedule of the worker, the   *)
(* ECS service of the API and the RDS instance. Nothing locks them: every  *)
(* call is a step of its own, and what one actor read another may change.  *)
(* The stack is deployed and stable; reads of account, region, Cloud Map,  *)
(* VPC link, Amplify and the pipe find what they expect.                   *)
(***************************************************************************)
EXTENDS Naturals, Sequences

CONSTANTS
    Operators,    \* operators, each with one command at a time
    Hours,        \* values of --hours
    MaxTime,      \* hour at which the clock stops (bound)
    Disturbances  \* things that AWS or others do on their own, and failures of
                  \* the Lambda (bound)

ASSUME StagingAssumption ==
    /\ Hours \subseteq Nat \ {0} /\ MaxTime \in Nat \ {0} /\ Disturbances \in Nat
    /\ "lambda" \notin Operators

VARIABLES
    now,        \* hours
    deadline,   \* parameter wake-expires-at, or Unset
    activated,  \* parameter application-activated
    schedule,   \* state of the worker's schedule
    desired,    \* desiredCount of the API service
    task,       \* its task
    rds,        \* DBInstanceStatus
    left,       \* Disturbances still to come
    cmd         \* what each operator and the Lambda are doing

world == <<deadline, activated, schedule, desired, task, rds>>
vars == <<now, world, left, cmd>>

Unset == 0  \* the clock starts at 1
Lambda == "lambda"
Actors == Operators \cup {Lambda}

(* touched: somebody else changed the world meanwhile (observation).       *)
Idle == [op |-> "idle", stage |-> "idle", step |-> "read", touched |-> FALSE, seen |-> <<>>]

(* The last wait of wakeStaging, the last reads of both commands.          *)
Ending == <<"seeActivation", "seeApi", "seeDatabase", "seeSchedule", "reported">>

(* A mutant: wake writes the deadline once the environment is up.          *)
RouteDeadlineLast ==
    [status |-> <<"check">> \o Ending,
     sleep  |-> <<"check", "deadline", "schedule", "service", "tasks", "database">> \o Ending,
     wake   |-> <<"check", "schedule", "database", "service", "tasks", "ready", "deadline">> \o Ending,
     auto   |-> <<"expiry", "schedule", "service", "database">>]

(* A mutant: sleep stops the database before the service.                  *)
RouteDatabaseFirst ==
    [status |-> <<"check">> \o Ending,
     sleep  |-> <<"check", "deadline", "schedule", "database", "service", "tasks">> \o Ending,
     wake   |-> <<"check", "deadline", "schedule", "database", "service", "tasks", "ready">> \o Ending,
     auto   |-> <<"expiry", "schedule", "service", "database">>]

(* The stages of sleepStaging, wakeStaging, collectStatus, runAutoSleep.   *)
Route ==
    [status |-> <<"check">> \o Ending,
     sleep  |-> <<"check", "deadline", "schedule", "service", "tasks", "database">> \o Ending,
     wake   |-> <<"check", "deadline", "schedule", "database", "service", "tasks", "ready">> \o Ending,
     auto   |-> <<"expiry", "schedule", "service", "database">>]

Entered(op, i) == [Idle EXCEPT !.op = op, !.stage = Route[op][i]]

(* The stage after the present one.                                        *)
Following(k) ==
    LET i == CHOOSE i \in DOMAIN Route[k.op] : Route[k.op][i] = k.stage
    IN  IF i = Len(Route[k.op]) THEN Idle
        ELSE [Entered(k.op, i + 1) EXCEPT !.touched = k.touched, !.seen = k.seen]

Touched(k) == IF k = Idle THEN k ELSE [k EXCEPT !.touched = TRUE]

(* p goes on to k, without a write or with one.                            *)
Goes(p, k) == cmd' = [cmd EXCEPT ![p] = k]
Writes(p, k) == cmd' = [q \in Actors |-> IF q = p THEN k ELSE Touched(cmd[q])]

At(p, stage, step) == cmd[p].stage = stage /\ cmd[p].step = step
To(p, step) == [cmd[p] EXCEPT !.step = step]
For(p, op) == cmd[p].op = op

-----------------------------------------------------------------------------
(* AWS, the clock, and others.                                             *)

Tick ==
    /\ now < MaxTime /\ now' = now + 1
    /\ UNCHANGED <<world, left, cmd>>

Disturb == cmd' = [p \in Actors |-> Touched(cmd[p])]

(* What RDS and ECS get done in time: a status on the way to the next, a   *)
(* task that follows desiredCount.                                         *)
Proceeds ==
    /\ \/ /\ rds' \in CASE rds = "starting" -> {"configuring", "available"}
                        [] rds \in {"configuring", "modifying"} -> {"available"}
                        [] rds = "stopping" -> {"stopped"}
                        [] OTHER -> {}
          /\ task' = task
       \/ /\ task' \in CASE desired = 0 /\ task # "none" -> {"none"}
                         [] desired = 1 /\ task = "none" -> {"pending"}
                         [] desired = 1 /\ task = "pending" -> {"running"}
                         [] OTHER -> {}
          /\ rds' = rds
    /\ UNCHANGED <<now, deadline, activated, schedule, desired, left, cmd>>

(* A stopped instance is started after seven days, a running one modified  *)
(* or backed up; a task ends; somebody enables the schedule.               *)
Disturbed ==
    /\ left > 0 /\ left' = left - 1
    /\ \/ rds = "stopped" /\ rds' = "starting" /\ UNCHANGED <<task, schedule>>
       \/ rds = "available" /\ rds' = "modifying" /\ UNCHANGED <<task, schedule>>
       \/ task = "running" /\ task' = "none" /\ UNCHANGED <<rds, schedule>>
       \/ schedule' = "ENABLED" /\ UNCHANGED <<rds, task>>
    /\ Disturb
    /\ UNCHANGED <<now, deadline, activated, desired>>

(* Phase 2 of the rollout, after the migration.                            *)
Activate ==
    /\ ~ activated /\ rds = "available"
    /\ activated' = TRUE /\ desired' = 1
    /\ Disturb
    /\ UNCHANGED <<now, deadline, schedule, task, rds, left>>

-----------------------------------------------------------------------------
(* A command or the Lambda begins; a call that fails, a wait that times    *)
(* out, an unexpected state or an interruption ends it where it is.        *)

Start(p, op) ==
    /\ cmd[p] = Idle
    /\ Goes(p, Entered(op, 1))
    /\ UNCHANGED <<now, world, left>>

Fails(p) ==
    /\ cmd[p] # Idle
    /\ IF p = Lambda THEN left > 0 /\ left' = left - 1 ELSE left' = left
    /\ Goes(p, Idle)
    /\ UNCHANGED <<now, world>>

(* collectApplicationActivation, READY or NOT_READY: the parameter is there *)
(* once the stack is.                                                      *)
ApplicationReady == activated

(* requireFullDeployment; wake needs the activation.                       *)
Check(p) ==
    /\ At(p, "check", "read")
    /\ Goes(p, IF For(p, "wake") /\ ~ ApplicationReady THEN Idle ELSE Following(cmd[p]))
    /\ UNCHANGED <<now, world, left>>

(* inspectWakeDeadline.                                                    *)
Expired == deadline # Unset /\ deadline <= now

CheckExpiry(p) ==
    /\ At(p, "expiry", "read")
    /\ Goes(p, IF Expired THEN Following(cmd[p]) ELSE Idle)
    /\ UNCHANGED <<now, world, left>>

(* sleep lets the deadline end now, wake some hours from now.              *)
NewDeadline(p) == IF For(p, "sleep") THEN {now} ELSE {now + h : h \in Hours}

PutDeadline(p) ==
    /\ At(p, "deadline", "read")
    /\ deadline' \in NewDeadline(p) /\ deadline' <= MaxTime
    /\ Writes(p, Following(cmd[p]))
    /\ UNCHANGED <<now, activated, schedule, desired, task, rds, left>>

(* ensureSchedulerDisabled.                                                *)
ReadSchedule(p) ==
    /\ At(p, "schedule", "read")
    /\ Goes(p, IF schedule = "DISABLED" THEN Following(cmd[p]) ELSE To(p, "write"))
    /\ UNCHANGED <<now, world, left>>

DisableSchedule(p) ==
    /\ At(p, "schedule", "write")
    /\ schedule' = "DISABLED"
    /\ Writes(p, Following(cmd[p]))
    /\ UNCHANGED <<now, deadline, activated, desired, task, rds, left>>

Wanted(p) == IF For(p, "wake") THEN 1 ELSE 0

ReadService(p) ==
    /\ At(p, "service", "read")
    /\ Goes(p, IF desired = Wanted(p) THEN Following(cmd[p]) ELSE To(p, "write"))
    /\ UNCHANGED <<now, world, left>>

Scale(p) ==
    /\ At(p, "service", "write")
    /\ desired' = Wanted(p)
    /\ Writes(p, Following(cmd[p]))
    /\ UNCHANGED <<now, deadline, activated, schedule, task, rds, left>>

(* waitForApi.                                                             *)
WaitForApi(p) ==
    /\ At(p, "tasks", "read")
    /\ desired = Wanted(p) /\ task = (IF desired = 1 THEN "running" ELSE "none")
    /\ Goes(p, Following(cmd[p]))
    /\ UNCHANGED <<now, world, left>>

(* ensureRdsAvailable, ensureRdsStopped and the last part of runAutoSleep: *)
(* what is to be done about the status that was read.                      *)
Plan(p) ==
    CASE For(p, "auto") /\ rds \in {"stopped", "stopping"} -> Following(cmd[p])
      [] For(p, "auto") /\ rds \notin {"stopped", "stopping", "available"} -> Idle
      [] For(p, "wake") /\ rds = "available" -> Following(cmd[p])
      [] For(p, "sleep") /\ rds = "stopped" -> Following(cmd[p])
      [] rds = "stopping" -> To(p, "untilStopped")
      [] rds \in {"starting", "modifying"} -> To(p, "untilAvailable")
      [] rds = "configuring" -> Idle
      [] OTHER -> To(p, "write")

ReadDatabase(p) ==
    /\ At(p, "database", "read")
    /\ Goes(p, Plan(p))
    /\ UNCHANGED <<now, world, left>>

(* waitForRds.                                                             *)
WaitForRds(p) ==
    /\ \/ /\ At(p, "database", "untilStopped") /\ rds = "stopped"
          /\ Goes(p, IF For(p, "wake") THEN To(p, "write") ELSE Following(cmd[p]))
       \/ /\ At(p, "database", "untilAvailable") /\ rds = "available"
          /\ Goes(p, IF For(p, "sleep") THEN To(p, "write") ELSE Following(cmd[p]))
    /\ UNCHANGED <<now, world, left>>

(* stop-db-instance, start-db-instance ...                                *)
StopDatabase(p) ==
    /\ At(p, "database", "write") /\ ~ For(p, "wake")
    /\ rds = "available" /\ rds' = "stopping"
    /\ Writes(p, IF For(p, "auto") THEN Idle ELSE To(p, "untilStopped"))
    /\ UNCHANGED <<now, deadline, activated, schedule, desired, task, left>>

StartDatabase(p) ==
    /\ At(p, "database", "write") /\ For(p, "wake")
    /\ rds = "stopped" /\ rds' = "starting"
    /\ Writes(p, To(p, "untilAvailable"))
    /\ UNCHANGED <<now, deadline, activated, schedule, desired, task, left>>

(* ... which AWS refuses in any other state.                               *)
Refused(p) ==
    /\ At(p, "database", "write")
    /\ rds # (IF For(p, "wake") THEN "stopped" ELSE "available")
    /\ Goes(p, Idle)
    /\ UNCHANGED <<now, world, left>>

(* waitForReadiness: /health and /ready.                                   *)
WaitForReadiness(p) ==
    /\ At(p, "ready", "read")
    /\ task = "running" /\ rds = "available"
    /\ Goes(p, Following(cmd[p]))
    /\ UNCHANGED <<now, world, left>>

(* collectStatus, one call after the other.                                *)
See(p) ==
    /\ \E stage \in {"seeActivation", "seeApi", "seeDatabase", "seeSchedule"} :
          /\ At(p, stage, "read")
          /\ LET value == CASE stage = "seeActivation" -> <<ApplicationReady>>
                            [] stage = "seeApi" -> <<desired, task>>
                            [] stage = "seeDatabase" -> <<rds>>
                            [] stage = "seeSchedule" -> <<schedule>>
             IN  Goes(p, [Following(cmd[p]) EXCEPT !.seen = @ \o value])
    /\ UNCHANGED <<now, world, left>>

(* A mutant: the schedule is not looked at.                                *)
OverallOfTwo(ready, count, api, database, worker) ==
    CASE ready /\ count = 0 /\ api = "none" /\ database = "stopped" -> "SLEEPING"
      [] ready /\ count = 1 /\ api = "running" /\ database = "available" -> "RUNNING"
      [] OTHER -> "PARTIAL"

(* The classification of collectStatus.                                    *)
Overall(ready, count, api, database, worker) ==
    LET quiet == worker = "DISABLED"
        off == count = 0 /\ api = "none" /\ quiet
    IN  CASE ~ ready /\ off /\ database \in {"available", "stopped"} -> "NOT_STARTED"
          [] ready /\ off /\ database = "stopped" -> "SLEEPING"
          [] ready /\ count = 1 /\ api = "running" /\ database = "available" /\ quiet -> "RUNNING"
          [] \/ database \in {"starting", "configuring", "modifying"}
             \/ api = "pending"
             \/ (count = 1 /\ api # "running") -> "WAKING"
          [] OTHER -> "PARTIAL"

(* The status is printed, the command is done.                             *)
Report(p) ==
    /\ At(p, "reported", "read")
    /\ Goes(p, Idle)
    /\ UNCHANGED <<now, world, left>>

-----------------------------------------------------------------------------
Init ==
    /\ now = 1 /\ left = Disturbances
    /\ deadline = Unset /\ activated = FALSE
    /\ schedule = "DISABLED" /\ desired = 0 /\ task = "none" /\ rds = "available"
    /\ cmd = [p \in Actors |-> Idle]

Step(p) ==
    \/ Check(p) \/ CheckExpiry(p) \/ PutDeadline(p)
    \/ ReadSchedule(p) \/ DisableSchedule(p) \/ ReadService(p) \/ Scale(p) \/ WaitForApi(p)
    \/ ReadDatabase(p) \/ WaitForRds(p) \/ StopDatabase(p) \/ StartDatabase(p) \/ Refused(p)
    \/ WaitForReadiness(p) \/ See(p) \/ Report(p)

Next ==
    \/ Tick \/ Proceeds \/ Disturbed \/ Activate
    \/ Start(Lambda, "auto")
    \/ \E p \in Operators, op \in {"wake", "sleep", "status"} : Start(p, op)
    \/ \E p \in Actors : Step(p) \/ Fails(p)

Spec == Init /\ [][Next]_vars

(* Time goes on, AWS gets things done, the Lambda is called every hour and *)
(* its calls do not fail for ever. Operators owe nothing.                  *)
FairSpec ==
    /\ Spec
    /\ WF_vars(Tick) /\ WF_vars(Proceeds)
    /\ WF_vars(Start(Lambda, "auto")) /\ WF_vars(Step(Lambda))

-----------------------------------------------------------------------------
Asleep == desired = 0 /\ task = "none" /\ rds = "stopped" /\ schedule = "DISABLED"
Awake == desired = 1 /\ task = "running" /\ rds = "available" /\ schedule = "DISABLED"

(* The status is put together from calls at different times. It is true of *)
(* one moment all the same, unless somebody else changed something.        *)
ReportIsTrue ==
    \A p \in Actors :
        At(p, "reported", "read") /\ ~ cmd[p].touched =>
            LET s == cmd[p].seen
                overall == Overall(s[1], s[2], s[3], s[4], s[5])
            IN  (overall = "SLEEPING" => Asleep) /\ (overall = "RUNNING" => Awake)

(* sleep stops the database only when no task uses it, wake asks for a     *)
(* task only when the database is there, whatever state they found and     *)
(* however often they were started before, if they are left alone.         *)
InOrder ==
    [][\A p \in Operators :
          ~ cmd[p].touched =>
              /\ StopDatabase(p) => desired = 0 /\ task = "none"
              /\ Scale(p) /\ For(p, "wake") => rds = "available"]_vars

(* Whatever fails and whoever is interrupted: an environment that a wake   *)
(* began to switch on is off again some time.                              *)
WokenSleepsAgain ==
    \A p \in Operators : For(p, "wake") /\ cmd[p].stage = "database" ~> Asleep

=============================================================================
