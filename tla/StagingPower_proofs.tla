------------------------ MODULE StagingPower_proofs -------------------------
(***************************************************************************)
(* Proofs about StagingPower for any number of operators, any hours and    *)
(* any number of disturbances: the types of its state, what a command may  *)
(* still rely on of what it read while nobody else changed anything, and   *)
(* so that reports are true and that sleep and wake keep their order.      *)
(***************************************************************************)
EXTENDS StagingPower, SequenceTheorems, TLAPS

(* The stages of each command, and the stage after the present one.        *)
Seeing == {"seeActivation", "seeApi", "seeDatabase", "seeSchedule", "reported"}

StagesOf(op) ==
    CASE op = "status" -> {"check"} \cup Seeing
      [] op = "sleep" -> {"check", "deadline", "schedule", "service", "tasks", "database"} \cup Seeing
      [] op = "wake" -> {"check", "deadline", "schedule", "database", "service", "tasks", "ready"}
                            \cup Seeing
      [] op = "auto" -> {"expiry", "schedule", "service", "database"}
      [] OTHER -> {"idle"}

After(op, stage) ==
    CASE stage = "check" -> IF op = "status" THEN "seeActivation" ELSE "deadline"
      [] stage \in {"deadline", "expiry"} -> "schedule"
      [] stage = "schedule" -> IF op = "wake" THEN "database" ELSE "service"
      [] stage = "service" -> IF op = "auto" THEN "database" ELSE "tasks"
      [] stage = "tasks" -> IF op = "wake" THEN "ready" ELSE "database"
      [] stage = "database" -> IF op = "wake" THEN "service"
                                  ELSE IF op = "sleep" THEN "seeActivation" ELSE "idle"
      [] stage = "ready" -> "seeActivation"
      [] stage = "seeActivation" -> "seeApi"
      [] stage = "seeApi" -> "seeDatabase"
      [] stage = "seeDatabase" -> "seeSchedule"
      [] stage = "seeSchedule" -> "reported"
      [] OTHER -> "idle"

(* The record of a command that came to a stage.                           *)
Came(k, stage) ==
    IF stage = "idle" THEN Idle
       ELSE [op |-> k.op, stage |-> stage, step |-> "read", touched |-> k.touched, seen |-> k.seen]

-----------------------------------------------------------------------------
(* Routes, element by element.                                             *)

LEMMA StatusRoute ==
    LET r == Route["status"] IN
    /\ Len(r) = 6 /\ DOMAIN r = 1 .. 6
    /\ r[1] = "check" /\ r[2] = "seeActivation" /\ r[3] = "seeApi" /\ r[4] = "seeDatabase"
    /\ r[5] = "seeSchedule" /\ r[6] = "reported"
  BY DEF Route, Ending

LEMMA SleepRoute ==
    LET r == Route["sleep"] IN
    /\ Len(r) = 11 /\ DOMAIN r = 1 .. 11
    /\ r[1] = "check" /\ r[2] = "deadline" /\ r[3] = "schedule" /\ r[4] = "service"
    /\ r[5] = "tasks" /\ r[6] = "database"
    /\ r[7] = "seeActivation" /\ r[8] = "seeApi" /\ r[9] = "seeDatabase"
    /\ r[10] = "seeSchedule" /\ r[11] = "reported"
  BY DEF Route, Ending

LEMMA WakeRoute ==
    LET r == Route["wake"] IN
    /\ Len(r) = 12 /\ DOMAIN r = 1 .. 12
    /\ r[1] = "check" /\ r[2] = "deadline" /\ r[3] = "schedule" /\ r[4] = "database"
    /\ r[5] = "service" /\ r[6] = "tasks" /\ r[7] = "ready"
    /\ r[8] = "seeActivation" /\ r[9] = "seeApi" /\ r[10] = "seeDatabase"
    /\ r[11] = "seeSchedule" /\ r[12] = "reported"
  BY DEF Route, Ending

LEMMA AutoRoute ==
    LET r == Route["auto"] IN
    /\ Len(r) = 4 /\ DOMAIN r = 1 .. 4
    /\ r[1] = "expiry" /\ r[2] = "schedule" /\ r[3] = "service" /\ r[4] = "database"
  BY DEF Route

(* No stage comes twice, so the CHOOSE of Following finds the place.       *)
LEMMA FollowingAt ==
    ASSUME NEW k, NEW n \in Nat, NEW i \in 1 .. n,
           Len(Route[k.op]) = n, DOMAIN Route[k.op] = 1 .. n,
           Route[k.op][i] = k.stage,
           \A j \in 1 .. n : Route[k.op][j] = k.stage => j = i
    PROVE  Following(k) = IF i = n THEN Idle
                             ELSE [op |-> k.op, stage |-> Route[k.op][i + 1], step |-> "read",
                                   touched |-> k.touched, seen |-> k.seen]
<1> DEFINE c == CHOOSE j \in DOMAIN Route[k.op] : Route[k.op][j] = k.stage
<1>1. c = i
  BY Zenon
<1>2. Following(k) = IF c = Len(Route[k.op]) THEN Idle
                        ELSE [Entered(k.op, c + 1) EXCEPT !.touched = k.touched, !.seen = k.seen]
  BY DEF Following
<1> HIDE DEF c
<1>3. Following(k) = IF i = n THEN Idle
                        ELSE [Entered(k.op, i + 1) EXCEPT !.touched = k.touched, !.seen = k.seen]
  BY <1>1, <1>2
<1>4. QED
  BY <1>3 DEF Entered, Idle

LEMMA FollowingIs ==
    ASSUME NEW k, k.op \in {"status", "sleep", "wake", "auto"}, k.stage \in StagesOf(k.op)
    PROVE  Following(k) = Came(k, After(k.op, k.stage))
<1>1. CASE k.op = "status"
  <2>1. PICK i \in 1 .. 6 : Route[k.op][i] = k.stage
    BY <1>1, StatusRoute DEF StagesOf, Seeing
  <2>2. \A j \in 1 .. 6 : Route[k.op][j] = k.stage => j = i
    BY <1>1, <2>1, StatusRoute
  <2>3. IF i = 6 THEN After(k.op, k.stage) = "idle"
                 ELSE After(k.op, k.stage) = Route[k.op][i + 1] /\ Route[k.op][i + 1] # "idle"
    BY <1>1, <2>1, StatusRoute DEF After
  <2>4. Len(Route[k.op]) = 6 /\ DOMAIN Route[k.op] = 1 .. 6
    BY <1>1, StatusRoute
  <2>5. Following(k) = IF i = 6 THEN Idle
                          ELSE [op |-> k.op, stage |-> Route[k.op][i + 1], step |-> "read",
                                touched |-> k.touched, seen |-> k.seen]
    <3>1. 6 \in Nat
      OBVIOUS
    <3>2. QED
      BY <2>1, <2>2, <2>4, <3>1, FollowingAt
  <2>6. QED
    BY <2>3, <2>5 DEF Came
<1>2. CASE k.op = "sleep"
  <2>1. PICK i \in 1 .. 11 : Route[k.op][i] = k.stage
    BY <1>2, SleepRoute DEF StagesOf, Seeing
  <2>2. \A j \in 1 .. 11 : Route[k.op][j] = k.stage => j = i
    BY <1>2, <2>1, SleepRoute
  <2>3. IF i = 11 THEN After(k.op, k.stage) = "idle"
                  ELSE After(k.op, k.stage) = Route[k.op][i + 1] /\ Route[k.op][i + 1] # "idle"
    BY <1>2, <2>1, SleepRoute DEF After
  <2>4. Len(Route[k.op]) = 11 /\ DOMAIN Route[k.op] = 1 .. 11
    BY <1>2, SleepRoute
  <2>5. Following(k) = IF i = 11 THEN Idle
                          ELSE [op |-> k.op, stage |-> Route[k.op][i + 1], step |-> "read",
                                touched |-> k.touched, seen |-> k.seen]
    <3>1. 11 \in Nat
      OBVIOUS
    <3>2. QED
      BY <2>1, <2>2, <2>4, <3>1, FollowingAt
  <2>6. QED
    BY <2>3, <2>5 DEF Came
<1>3. CASE k.op = "wake"
  <2>1. PICK i \in 1 .. 12 : Route[k.op][i] = k.stage
    BY <1>3, WakeRoute DEF StagesOf, Seeing
  <2>2. \A j \in 1 .. 12 : Route[k.op][j] = k.stage => j = i
    BY <1>3, <2>1, WakeRoute
  <2>3. IF i = 12 THEN After(k.op, k.stage) = "idle"
                  ELSE After(k.op, k.stage) = Route[k.op][i + 1] /\ Route[k.op][i + 1] # "idle"
    BY <1>3, <2>1, WakeRoute DEF After
  <2>4. Len(Route[k.op]) = 12 /\ DOMAIN Route[k.op] = 1 .. 12
    BY <1>3, WakeRoute
  <2>5. Following(k) = IF i = 12 THEN Idle
                          ELSE [op |-> k.op, stage |-> Route[k.op][i + 1], step |-> "read",
                                touched |-> k.touched, seen |-> k.seen]
    <3>1. 12 \in Nat
      OBVIOUS
    <3>2. QED
      BY <2>1, <2>2, <2>4, <3>1, FollowingAt
  <2>6. QED
    BY <2>3, <2>5 DEF Came
<1>4. CASE k.op = "auto"
  <2>1. PICK i \in 1 .. 4 : Route[k.op][i] = k.stage
    BY <1>4, AutoRoute DEF StagesOf, Seeing
  <2>2. \A j \in 1 .. 4 : Route[k.op][j] = k.stage => j = i
    BY <1>4, <2>1, AutoRoute
  <2>3. IF i = 4 THEN After(k.op, k.stage) = "idle"
                 ELSE After(k.op, k.stage) = Route[k.op][i + 1] /\ Route[k.op][i + 1] # "idle"
    BY <1>4, <2>1, AutoRoute DEF After
  <2>4. Len(Route[k.op]) = 4 /\ DOMAIN Route[k.op] = 1 .. 4
    BY <1>4, AutoRoute
  <2>5. Following(k) = IF i = 4 THEN Idle
                          ELSE [op |-> k.op, stage |-> Route[k.op][i + 1], step |-> "read",
                                touched |-> k.touched, seen |-> k.seen]
    <3>1. 4 \in Nat
      OBVIOUS
    <3>2. QED
      BY <2>1, <2>2, <2>4, <3>1, FollowingAt
  <2>6. QED
    BY <2>3, <2>5 DEF Came
<1>5. QED
  BY <1>1, <1>2, <1>3, <1>4

-----------------------------------------------------------------------------
(* The invariant.                                                          *)

Commands == {"idle", "status", "sleep", "wake", "auto"}
Stages == {"idle", "expiry", "check", "deadline", "schedule", "service", "tasks", "database",
           "ready"} \cup Seeing
Steps == {"read", "write", "untilStopped", "untilAvailable"}
Tasks == {"none", "pending", "running"}
Conditions == {"available", "stopped", "starting", "stopping", "configuring", "modifying"}
Values == BOOLEAN \cup {0, 1} \cup Tasks \cup Conditions \cup {"ENABLED", "DISABLED"}

CmdState == [op : Commands, stage : Stages, step : Steps, touched : BOOLEAN, seen : Seq(Values)]

WorldOK ==
    /\ now \in Nat /\ left \in Nat /\ deadline \in Nat
    /\ activated \in BOOLEAN
    /\ schedule \in {"ENABLED", "DISABLED"}
    /\ desired \in {0, 1} /\ task \in Tasks /\ rds \in Conditions

TypeOK == WorldOK /\ cmd \in [Actors -> CmdState]

(* A command is at a stage of its route; operators run no auto-sleep; so   *)
(* many values were seen before the stage.                                 *)
OnRoute(p) ==
    /\ cmd[p].stage \in StagesOf(cmd[p].op)
    /\ p \in Operators => cmd[p].op # "auto"
    /\ Len(cmd[p].seen) = CASE cmd[p].stage = "seeApi" -> 1
                            [] cmd[p].stage = "seeDatabase" -> 3
                            [] cmd[p].stage = "seeSchedule" -> 4
                            [] cmd[p].stage = "reported" -> 5
                            [] OTHER -> 0

(* What a command read or did before its present stage and may rely on     *)
(* while nobody else changes the world: AWS alone starts no task that is   *)
(* not desired, stops none that is, and leaves a database that is on or    *)
(* off as it is.                                                           *)
OrderKept(p) ==
    /\ cmd[p].op = "sleep" /\ cmd[p].stage \in {"tasks", "database"} => desired = 0
    /\ cmd[p].op = "sleep" /\ cmd[p].stage = "database" => task = "none"
    /\ cmd[p].op = "wake" /\ cmd[p].stage = "service" => rds = "available"

SeenActivation(s) == s[1] = activated
SeenApi(s) ==
    /\ s[2] = desired
    /\ desired = 0 /\ s[3] = "none" => task = "none"
    /\ desired = 1 /\ s[3] = "running" => task = "running"
SeenDatabase(s) == s[4] \in {"available", "stopped"} => rds = s[4]
SeenSchedule(s) == s[5] = schedule

SightKept(p) ==
    LET s == cmd[p].seen IN
    /\ cmd[p].stage \in {"seeApi", "seeDatabase", "seeSchedule", "reported"}
          => SeenActivation(s)
    /\ cmd[p].stage \in {"seeDatabase", "seeSchedule", "reported"} => SeenApi(s)
    /\ cmd[p].stage \in {"seeSchedule", "reported"} => SeenDatabase(s)
    /\ cmd[p].stage = "reported" => SeenSchedule(s)

Relied(p) == ~ cmd[p].touched => OrderKept(p) /\ SightKept(p)

IInv == TypeOK /\ \A p \in Actors : OnRoute(p) /\ Relied(p)

LEMMA IdleIs ==
    /\ Idle \in CmdState /\ Idle.op = "idle" /\ Idle.stage = "idle" /\ Idle.step = "read"
    /\ Idle.touched = FALSE /\ Idle.seen = <<>> /\ Len(Idle.seen) = 0
<1>1. <<>> \in Seq(Values) /\ Len(<<>>) = 0
  OBVIOUS
<1>2. QED
  BY <1>1 DEF Idle, CmdState, Commands, Steps, Stages

LEMMA InitIInv == Init => IInv
<1> SUFFICES ASSUME Init PROVE IInv
  OBVIOUS
<1>1. TypeOK
  BY IdleIs, StagingAssumption DEF Init, TypeOK, WorldOK, Unset, Tasks, Conditions
<1>2. ASSUME NEW p \in Actors PROVE OnRoute(p) /\ Relied(p)
  <2>1. cmd[p] = Idle
    BY <1>2 DEF Init
  <2>2. QED
    BY <2>1, IdleIs DEF OnRoute, StagesOf, Relied, OrderKept, SightKept
<1>3. QED
  BY <1>1, <1>2 DEF IInv

-----------------------------------------------------------------------------
(* Where a step leaves a command, and what it has to show for it.          *)

Fine(p) == OnRoute(p) /\ Relied(p)

LEMMA StagesAll == \A op : StagesOf(op) \subseteq Stages
  BY DEF StagesOf, Stages, Seeing

(* Everybody else either sees the same world or knows that it changed.     *)
LEMMA OthersFine ==
    ASSUME IInv, NEW q \in Actors,
           \/ cmd'[q] = cmd[q] /\ UNCHANGED <<activated, schedule, desired, task, rds>>
           \/ cmd'[q] = Touched(cmd[q])
    PROVE  cmd'[q] \in CmdState /\ Fine(q)'
<1>0. cmd[q] \in CmdState /\ OnRoute(q) /\ Relied(q)
  BY DEF IInv, TypeOK
<1>1. CASE cmd'[q] = cmd[q] /\ UNCHANGED <<activated, schedule, desired, task, rds>>
  BY <1>0, <1>1 DEF Fine, OnRoute, Relied, OrderKept, SightKept, SeenActivation, SeenApi,
                     SeenDatabase, SeenSchedule
<1>2. CASE cmd[q] = Idle /\ cmd'[q] = Idle
  BY <1>2, IdleIs DEF Fine, OnRoute, StagesOf, Relied, OrderKept, SightKept
<1>3. CASE cmd'[q] = [cmd[q] EXCEPT !.touched = TRUE]
  <2>1. /\ cmd'[q] \in CmdState /\ cmd'[q].touched = TRUE /\ cmd'[q].op = cmd[q].op
        /\ cmd'[q].stage = cmd[q].stage /\ cmd'[q].seen = cmd[q].seen
    BY <1>0, <1>3 DEF CmdState
  <2>2. QED
    BY <1>0, <2>1 DEF Fine, OnRoute, Relied
<1>4. QED
  BY <1>1, <1>2, <1>3 DEF Touched

LEMMA EndsFine ==
    ASSUME NEW p \in Actors, cmd'[p] = Idle
    PROVE  cmd'[p] \in CmdState /\ Fine(p)'
  BY IdleIs DEF Fine, OnRoute, StagesOf, Relied, OrderKept, SightKept

(* A command goes on to a stage at which it has seen nothing yet.          *)
LEMMA ArrivesFine ==
    ASSUME IInv, NEW p \in Actors, cmd'[p] = Following(cmd[p]),
           cmd[p].stage \notin Seeing \cup {"idle"},
           cmd[p].touched \/
              /\ cmd[p].op = "sleep" /\ cmd[p].stage \in {"service", "tasks"} => desired' = 0
              /\ cmd[p].op = "sleep" /\ cmd[p].stage = "tasks" => task' = "none"
              /\ cmd[p].op = "wake" /\ cmd[p].stage = "database" => rds' = "available"
    PROVE  cmd'[p] \in CmdState /\ Fine(p)'
<1> DEFINE k == cmd[p]
           s == After(k.op, k.stage)
<1>0. k \in CmdState /\ OnRoute(p)
  BY DEF IInv, TypeOK
<1>1. k.op \in {"status", "sleep", "wake", "auto"} /\ k.stage \in StagesOf(k.op)
      /\ Len(k.seen) = 0
  BY <1>0 DEF OnRoute, StagesOf, CmdState, Commands, Seeing
<1>2. cmd'[p] = Came(k, s)
  BY <1>1, FollowingIs
<1>3. /\ s \in StagesOf(k.op) \cup {"idle"}
      /\ s \notin {"seeApi", "seeDatabase", "seeSchedule", "reported"}
      /\ k.op = "sleep" /\ s = "tasks" => k.stage = "service"
      /\ k.op = "sleep" /\ s = "database" => k.stage = "tasks"
      /\ k.op = "wake" /\ s = "service" => k.stage = "database"
  BY <1>1 DEF StagesOf, After, Seeing
<1> HIDE DEF s
<1>4. CASE s = "idle"
  BY <1>2, <1>4, EndsFine DEF Came
<1>5. CASE s # "idle"
  <2>1. cmd'[p] = [op |-> k.op, stage |-> s, step |-> "read", touched |-> k.touched, seen |-> k.seen]
    BY <1>2, <1>5 DEF Came
  <2>2. s \in Stages
    BY <1>3, StagesAll DEF Stages
  <2>3. /\ cmd'[p] \in CmdState /\ cmd'[p].op = k.op /\ cmd'[p].stage = s
        /\ cmd'[p].touched = k.touched /\ cmd'[p].seen = k.seen
    BY <1>0, <2>1, <2>2 DEF CmdState, Steps
  <2>4. OnRoute(p)'
    BY <1>0, <1>1, <1>3, <1>5, <2>3 DEF OnRoute
  <2>5. Relied(p)'
    BY <1>3, <2>3 DEF Relied, OrderKept, SightKept
  <2>6. QED
    BY <2>3, <2>4, <2>5 DEF Fine
<1>6. QED
  BY <1>4, <1>5

(* A command stays at its stage for a write or a wait.                     *)
LEMMA WaitsFine ==
    ASSUME IInv, NEW p \in Actors, NEW step \in Steps, cmd'[p] = To(p, step),
           cmd[p].stage \in {"schedule", "service", "database"},
           UNCHANGED <<desired, task>>,
           cmd[p].stage = "service" => rds' = rds
    PROVE  cmd'[p] \in CmdState /\ Fine(p)'
<1>0. cmd[p] \in CmdState /\ OnRoute(p) /\ Relied(p)
  BY DEF IInv, TypeOK
<1>1. /\ cmd'[p] \in CmdState /\ cmd'[p].op = cmd[p].op /\ cmd'[p].stage = cmd[p].stage
      /\ cmd'[p].touched = cmd[p].touched /\ cmd'[p].seen = cmd[p].seen
  BY <1>0 DEF To, CmdState
<1>2. QED
  BY <1>0, <1>1 DEF Fine, OnRoute, Relied, OrderKept, SightKept

(* A status call adds what it read to what was seen before.                *)
LEMMA SeesFine ==
    ASSUME IInv, NEW p \in Actors, See(p)
    PROVE  cmd'[p] \in CmdState /\ Fine(p)'
<1> DEFINE k == cmd[p]
           s == After(k.op, k.stage)
<1>0. k \in CmdState /\ OnRoute(p) /\ Relied(p) /\ cmd \in [Actors -> CmdState] /\ WorldOK
  BY DEF IInv, TypeOK
<1>1. k.stage \in {"seeActivation", "seeApi", "seeDatabase", "seeSchedule"}
  BY DEF See, At
<1>2. k.op \in {"status", "sleep", "wake"} /\ k.stage \in StagesOf(k.op)
  BY <1>0, <1>1 DEF OnRoute, StagesOf, CmdState, Commands, Seeing
<1>3. /\ Following(k) = Came(k, s) /\ s \in {"seeApi", "seeDatabase", "seeSchedule", "reported"}
      /\ s = "seeApi" <=> k.stage = "seeActivation"
      /\ s = "seeDatabase" <=> k.stage = "seeApi"
      /\ s = "seeSchedule" <=> k.stage = "seeDatabase"
      /\ s = "reported" <=> k.stage = "seeSchedule"
      /\ s \in StagesOf(k.op) /\ s \in Stages
  <2>1. /\ s \in {"seeApi", "seeDatabase", "seeSchedule", "reported"}
        /\ s = "seeApi" <=> k.stage = "seeActivation"
        /\ s = "seeDatabase" <=> k.stage = "seeApi"
        /\ s = "seeSchedule" <=> k.stage = "seeDatabase"
        /\ s = "reported" <=> k.stage = "seeSchedule"
    BY <1>1 DEF After
  <2>2. s \in StagesOf(k.op)
    BY <1>2, <2>1 DEF StagesOf, Seeing
  <2>3. Following(k) = Came(k, s)
    BY <1>2, FollowingIs
  <2>4. QED
    BY <2>1, <2>2, <2>3, StagesAll
<1> DEFINE value == CASE k.stage = "seeActivation" -> <<ApplicationReady>>
                      [] k.stage = "seeApi" -> <<desired, task>>
                      [] k.stage = "seeDatabase" -> <<rds>>
                      [] k.stage = "seeSchedule" -> <<schedule>>
           seen == k.seen \o value
<1>4. cmd'[p] = [op |-> k.op, stage |-> s, step |-> "read", touched |-> k.touched, seen |-> seen]
  <2>1. cmd'[p] = [Came(k, s) EXCEPT !.seen = @ \o value]
    <3>1. PICK stage \in {"seeActivation", "seeApi", "seeDatabase", "seeSchedule"} :
             /\ k.stage = stage
             /\ Goes(p, [Following(cmd[p]) EXCEPT !.seen = @ \o
                    (CASE stage = "seeActivation" -> <<ApplicationReady>>
                       [] stage = "seeApi" -> <<desired, task>>
                       [] stage = "seeDatabase" -> <<rds>>
                       [] stage = "seeSchedule" -> <<schedule>>)])
      BY DEF See, At
    <3> HIDE DEF s
    <3>2. QED
      BY <1>0, <1>3, <3>1 DEF Goes
  <2> HIDE DEF value, s
  <2>2. QED
    BY <1>3, <2>1 DEF Came
<1> HIDE DEF s
<1>5. k.seen \in Seq(Values) /\ value \in Seq(Values)
      /\ Len(value) = IF k.stage = "seeApi" THEN 2 ELSE 1
  <2>1. activated \in Values /\ desired \in Values /\ task \in Values /\ rds \in Values
        /\ schedule \in Values
    BY <1>0 DEF WorldOK, Values
  <2>2. k.seen \in Seq(Values)
    BY <1>0 DEF CmdState
  <2> HIDE DEF k
  <2>a. CASE k.stage = "seeActivation"
    BY <2>1, <2>2, <2>a DEF ApplicationReady
  <2>3. CASE k.stage = "seeApi"
    BY <2>1, <2>2, <2>3
  <2>4. CASE k.stage = "seeDatabase"
    BY <2>1, <2>2, <2>4
  <2>5. CASE k.stage = "seeSchedule"
    BY <2>1, <2>2, <2>5
  <2>6. QED
    BY <1>1, <2>a, <2>3, <2>4, <2>5
<1>6. /\ seen \in Seq(Values) /\ Len(seen) = Len(k.seen) + Len(value)
      /\ \A i \in 1 .. Len(k.seen) + Len(value) :
            seen[i] = IF i <= Len(k.seen) THEN k.seen[i] ELSE value[i - Len(k.seen)]
  <2> HIDE DEF value
  <2>1. QED
    BY <1>5, ConcatProperties
<1>7. Len(k.seen) = CASE k.stage = "seeApi" -> 1
                      [] k.stage = "seeDatabase" -> 3
                      [] k.stage = "seeSchedule" -> 4
                      [] OTHER -> 0
  BY <1>0, <1>1 DEF OnRoute
<1>8. /\ cmd'[p] \in CmdState /\ cmd'[p].op = k.op /\ cmd'[p].stage = s
      /\ cmd'[p].touched = k.touched /\ cmd'[p].seen = seen
  BY <1>0, <1>3, <1>4, <1>6 DEF CmdState, Steps
<1>9. UNCHANGED <<activated, schedule, desired, task, rds>>
  BY DEF See, world
<1>a. CASE k.stage = "seeActivation"
  <2>1. value = <<activated>>
    BY <1>a DEF ApplicationReady
  <2>2. seen[1] = activated /\ Len(seen) = 1
    BY <1>6, <1>7, <1>a, <2>1
  <2>3. s = "seeApi"
    BY <1>3, <1>a
  <2> HIDE DEF value, seen
  <2>4. SightKept(p)'
    BY <1>8, <1>9, <2>2, <2>3 DEF SightKept, SeenActivation
  <2>5. OrderKept(p)'
    BY <1>8, <2>3 DEF OrderKept
  <2>6. OnRoute(p)'
    BY <1>0, <1>3, <1>8, <2>2, <2>3 DEF OnRoute
  <2>7. QED
    BY <1>8, <2>4, <2>5, <2>6 DEF Fine, Relied
<1>10. CASE k.stage = "seeApi"
  <2>1. value = <<desired, task>>
    BY <1>10
  <2>2. /\ seen[1] = k.seen[1] /\ seen[2] = desired /\ seen[3] = task /\ Len(seen) = 3
    BY <1>6, <1>7, <1>10, <2>1
  <2>3. s = "seeDatabase"
    BY <1>3, <1>10
  <2> HIDE DEF value, seen
  <2>4. ~ k.touched => SightKept(p)'
    BY <1>0, <1>8, <1>9, <1>10, <2>2, <2>3 DEF Relied, SightKept, SeenActivation, SeenApi
  <2>5. OrderKept(p)'
    BY <1>8, <2>3 DEF OrderKept
  <2>6. OnRoute(p)'
    BY <1>0, <1>3, <1>8, <2>2, <2>3 DEF OnRoute
  <2>7. QED
    BY <1>8, <2>4, <2>5, <2>6 DEF Fine, Relied
<1>11. CASE k.stage = "seeDatabase"
  <2>1. value = <<rds>>
    BY <1>11
  <2>2. /\ seen[1] = k.seen[1] /\ seen[2] = k.seen[2] /\ seen[3] = k.seen[3] /\ seen[4] = rds
        /\ Len(seen) = 4
    BY <1>6, <1>7, <1>11, <2>1
  <2>3. s = "seeSchedule"
    BY <1>3, <1>11
  <2> HIDE DEF value, seen
  <2>4. ~ k.touched => SightKept(p)'
    BY <1>0, <1>8, <1>9, <1>11, <2>2, <2>3
       DEF Relied, SightKept, SeenActivation, SeenApi, SeenDatabase
  <2>5. OrderKept(p)'
    BY <1>8, <2>3 DEF OrderKept
  <2>6. OnRoute(p)'
    BY <1>0, <1>3, <1>8, <2>2, <2>3 DEF OnRoute
  <2>7. QED
    BY <1>8, <2>4, <2>5, <2>6 DEF Fine, Relied
<1>12. CASE k.stage = "seeSchedule"
  <2>1. value = <<schedule>>
    BY <1>12
  <2>2. /\ seen[1] = k.seen[1] /\ seen[2] = k.seen[2] /\ seen[3] = k.seen[3]
        /\ seen[4] = k.seen[4] /\ seen[5] = schedule /\ Len(seen) = 5
    BY <1>6, <1>7, <1>12, <2>1
  <2>3. s = "reported"
    BY <1>3, <1>12
  <2> HIDE DEF value, seen
  <2>4. ~ k.touched => SightKept(p)'
    BY <1>0, <1>8, <1>9, <1>12, <2>2, <2>3
       DEF Relied, SightKept, SeenActivation, SeenApi, SeenDatabase, SeenSchedule
  <2>5. OrderKept(p)'
    BY <1>8, <2>3 DEF OrderKept
  <2>6. OnRoute(p)'
    BY <1>0, <1>3, <1>8, <2>2, <2>3 DEF OnRoute
  <2>7. QED
    BY <1>8, <2>4, <2>5, <2>6 DEF Fine, Relied
<1>13. QED
  BY <1>1, <1>a, <1>10, <1>11, <1>12

-----------------------------------------------------------------------------
(* Every step preserves the invariant.                                     *)

LEMMA GoesIs ==
    ASSUME IInv, NEW p \in Actors, NEW k, Goes(p, k)
    PROVE  /\ cmd'[p] = k /\ DOMAIN cmd' = Actors /\ cmd' = [q \in Actors |-> cmd'[q]]
           /\ \A q \in Actors : q # p => cmd'[q] = cmd[q]
  BY DEF Goes, IInv, TypeOK

LEMMA WritesIs ==
    ASSUME IInv, NEW p \in Actors, NEW k, Writes(p, k)
    PROVE  /\ cmd'[p] = k /\ DOMAIN cmd' = Actors /\ cmd' = [q \in Actors |-> cmd'[q]]
           /\ \A q \in Actors : q # p => cmd'[q] = Touched(cmd[q])
  BY DEF Writes

(* One actor goes on by itself, or changes the world for the others.       *)
LEMMA ReadIInv ==
    ASSUME IInv, NEW p \in Actors, NEW k, Goes(p, k), now' \in Nat, left' \in Nat, UNCHANGED world,
           cmd'[p] = k => cmd'[p] \in CmdState /\ Fine(p)'
    PROVE  IInv'
<1>1. /\ cmd'[p] = k /\ cmd' = [q \in Actors |-> cmd'[q]]
      /\ \A q \in Actors : q # p => cmd'[q] = cmd[q]
  BY GoesIs
<1>2. \A q \in Actors : cmd'[q] \in CmdState /\ Fine(q)'
  BY <1>1, OthersFine DEF world
<1>3. WorldOK'
  BY DEF IInv, TypeOK, WorldOK, world
<1>4. cmd' \in [Actors -> CmdState]
  BY <1>1, <1>2
<1>5. QED
  BY <1>2, <1>3, <1>4 DEF IInv, TypeOK, Fine

LEMMA WriteIInv ==
    ASSUME IInv, NEW p \in Actors, NEW k, Writes(p, k), WorldOK',
           cmd'[p] = k => cmd'[p] \in CmdState /\ Fine(p)'
    PROVE  IInv'
<1>1. /\ cmd'[p] = k /\ cmd' = [q \in Actors |-> cmd'[q]]
      /\ \A q \in Actors : q # p => cmd'[q] = Touched(cmd[q])
  BY WritesIs
<1>2. \A q \in Actors : cmd'[q] \in CmdState /\ Fine(q)'
  BY <1>1, OthersFine
<1>3. cmd' \in [Actors -> CmdState]
  BY <1>1, <1>2
<1>4. QED
  BY <1>2, <1>3 DEF IInv, TypeOK, Fine

(* What AWS gets done takes nothing away that a command relies on.         *)
LEMMA ProceedsIInv == IInv /\ Proceeds => IInv'
<1> SUFFICES ASSUME IInv, Proceeds PROVE IInv'
  OBVIOUS
<1>0. WorldOK /\ UNCHANGED <<now, deadline, activated, schedule, desired, left, cmd>>
  BY DEF IInv, TypeOK, Proceeds
<1>1. /\ rds' \in Conditions /\ task' \in Tasks
      /\ rds \in {"available", "stopped"} => rds' = rds
      /\ desired = 0 /\ task = "none" => task' = "none"
      /\ desired = 1 /\ task = "running" => task' = "running"
  BY <1>0 DEF Proceeds, WorldOK, Conditions, Tasks
<1>2. WorldOK'
  BY <1>0, <1>1 DEF WorldOK
<1>3. ASSUME NEW p \in Actors PROVE Relied(p)'
  <2>1. Relied(p) /\ OnRoute(p)
    BY <1>3 DEF IInv
  <2>2. ~ cmd[p].touched => OrderKept(p)'
    <3>1. cmd[p].op = "sleep" /\ cmd[p].stage = "database" => desired = 0 \/ cmd[p].touched
      BY <2>1 DEF Relied, OrderKept
    <3>2. QED
      BY <1>0, <1>1, <2>1, <3>1 DEF Relied, OrderKept
  <2>3. ~ cmd[p].touched => SightKept(p)'
    <3> DEFINE s == cmd[p].seen
    <3>0. SeenActivation(s) => SeenActivation(s)'
      BY <1>0 DEF SeenActivation
    <3>1. SeenApi(s) => SeenApi(s)'
      BY <1>0, <1>1 DEF SeenApi
    <3>2. SeenDatabase(s) => SeenDatabase(s)'
      BY <1>0, <1>1 DEF SeenDatabase
    <3>3. SeenSchedule(s) => SeenSchedule(s)'
      BY <1>0 DEF SeenSchedule
    <3>4. QED
      BY <1>0, <2>1, <3>0, <3>1, <3>2, <3>3 DEF Relied, SightKept
  <2>4. QED
    BY <1>0, <2>2, <2>3 DEF Relied
<1>4. QED
  BY <1>0, <1>2, <1>3 DEF IInv, TypeOK, OnRoute

LEMMA OutsideIInv ==
    ASSUME IInv, Tick \/ Disturbed \/ Activate
    PROVE  IInv'
<1>0. WorldOK
  BY DEF IInv, TypeOK
<1>1. WorldOK'
  <2>1. CASE Tick
    BY <1>0, <2>1 DEF Tick, WorldOK, world
  <2>2. CASE Disturbed
    BY <1>0, <2>2 DEF Disturbed, WorldOK, Conditions, Tasks
  <2>3. CASE Activate
    BY <1>0, <2>3 DEF Activate, WorldOK
  <2>4. QED
    BY <2>1, <2>2, <2>3
<1>2. /\ cmd' = [q \in Actors |-> cmd'[q]]
      /\ \A q \in Actors :
            \/ cmd'[q] = cmd[q] /\ UNCHANGED <<activated, schedule, desired, task, rds>>
            \/ cmd'[q] = Touched(cmd[q])
  BY DEF Tick, Disturbed, Activate, Disturb, world, IInv, TypeOK
<1>3. \A q \in Actors : cmd'[q] \in CmdState /\ Fine(q)'
  BY <1>2, OthersFine
<1>4. cmd' \in [Actors -> CmdState]
  BY <1>2, <1>3
<1>5. QED
  BY <1>1, <1>3, <1>4 DEF IInv, TypeOK, Fine

LEMMA StartIInv ==
    ASSUME IInv, NEW p \in Actors, NEW op \in {"status", "sleep", "wake", "auto"},
           p \in Operators => op # "auto", Start(p, op)
    PROVE  IInv'
<1>1. Goes(p, Entered(op, 1)) /\ UNCHANGED <<now, world, left>>
  BY DEF Start
<1>2. Route[op][1] = IF op = "auto" THEN "expiry" ELSE "check"
  BY StatusRoute, SleepRoute, WakeRoute, AutoRoute
<1>3. /\ Entered(op, 1) \in CmdState
      /\ Entered(op, 1).op = op /\ Entered(op, 1).stage = Route[op][1]
      /\ Entered(op, 1).touched = FALSE /\ Len(Entered(op, 1).seen) = 0
  BY <1>2, IdleIs DEF Entered, CmdState, Stages, Commands
<1>4. cmd'[p] = Entered(op, 1) => cmd'[p] \in CmdState /\ Fine(p)'
  BY <1>2, <1>3 DEF Fine, OnRoute, StagesOf, Relied, OrderKept, SightKept
<1>5. QED
  BY <1>1, <1>4, ReadIInv DEF IInv, TypeOK, WorldOK

LEMMA FailsIInv ==
    ASSUME IInv, NEW p \in Actors, Fails(p)
    PROVE  IInv'
<1>1. Goes(p, Idle) /\ now' \in Nat /\ left' \in Nat /\ UNCHANGED world
  BY DEF Fails, IInv, TypeOK, WorldOK
<1>2. QED
  BY <1>1, EndsFine, ReadIInv

(* Steps that write to the world.                                          *)
LEMMA WriteStepIInv ==
    ASSUME IInv, NEW p \in Actors,
           PutDeadline(p) \/ DisableSchedule(p) \/ Scale(p) \/ StopDatabase(p) \/ StartDatabase(p)
    PROVE  IInv'
<1>0. WorldOK /\ StagingAssumption /\ cmd[p] \in CmdState /\ OnRoute(p) /\ Relied(p)
  BY StagingAssumption DEF IInv, TypeOK
<1>1. CASE PutDeadline(p)
  <2>1. deadline' \in Nat
    BY <1>0, <1>1 DEF PutDeadline, NewDeadline, StagingAssumption, WorldOK
  <2>2. WorldOK'
    BY <1>0, <1>1, <2>1 DEF PutDeadline, WorldOK
  <2>3. Writes(p, Following(cmd[p])) /\ cmd[p].stage = "deadline"
    BY <1>1 DEF PutDeadline, At
  <2>4. QED
    BY <2>2, <2>3, ArrivesFine, WriteIInv DEF Seeing
<1>2. CASE DisableSchedule(p)
  <2>1. WorldOK' /\ Writes(p, Following(cmd[p])) /\ cmd[p].stage = "schedule"
    BY <1>0, <1>2 DEF DisableSchedule, WorldOK, At
  <2>2. QED
    BY <2>1, ArrivesFine, WriteIInv DEF Seeing
<1>3. CASE Scale(p)
  <2>1. /\ WorldOK' /\ Writes(p, Following(cmd[p])) /\ cmd[p].stage = "service"
        /\ cmd[p].op = "sleep" => desired' = 0
    BY <1>0, <1>3 DEF Scale, WorldOK, At, Wanted, For
  <2>2. QED
    BY <2>1, ArrivesFine, WriteIInv DEF Seeing
<1>4. CASE StopDatabase(p) \/ StartDatabase(p)
  <2>1. /\ WorldOK' /\ cmd[p].stage = "database" /\ UNCHANGED <<desired, task>>
        /\ \/ Writes(p, Idle)
           \/ \E step \in Steps : Writes(p, To(p, step))
    BY <1>0, <1>4 DEF StopDatabase, StartDatabase, WorldOK, Conditions, At, Steps
  <2>2. CASE Writes(p, Idle)
    BY <2>1, <2>2, EndsFine, WriteIInv
  <2>3. ASSUME NEW step \in Steps, Writes(p, To(p, step)) PROVE IInv'
    BY <2>1, <2>3, WaitsFine, WriteIInv
  <2>4. QED
    BY <2>1, <2>2, <2>3
<1>5. QED
  BY <1>1, <1>2, <1>3, <1>4

(* Steps that only read: on to the next stage, to a write or a wait at     *)
(* this one, or to the end of the command.                                 *)
LEMMA ReadStepIInv ==
    ASSUME IInv, NEW p \in Actors,
           \/ Check(p) \/ CheckExpiry(p) \/ ReadSchedule(p) \/ ReadService(p) \/ WaitForApi(p)
           \/ ReadDatabase(p) \/ WaitForRds(p) \/ Refused(p) \/ WaitForReadiness(p) \/ Report(p)
    PROVE  IInv'
<1> DEFINE Passes == /\ Goes(p, Following(cmd[p]))
                     /\ cmd[p].stage \notin Seeing \cup {"idle"}
                     /\ cmd[p].op = "sleep" /\ cmd[p].stage \in {"service", "tasks"} => desired = 0
                     /\ cmd[p].op = "sleep" /\ cmd[p].stage = "tasks" => task = "none"
                     /\ cmd[p].op = "wake" /\ cmd[p].stage = "database" => rds = "available"
           Stays == /\ cmd[p].stage \in {"schedule", "service", "database"}
                    /\ \E step \in Steps : Goes(p, To(p, step))
<1>0. WorldOK /\ cmd[p] \in CmdState /\ now' \in Nat /\ left' \in Nat
      /\ UNCHANGED <<now, world, left>>
  BY DEF IInv, TypeOK, WorldOK, Check, CheckExpiry, ReadSchedule, ReadService, WaitForApi,
         ReadDatabase, WaitForRds, Refused, WaitForReadiness, Report
<1>1. Passes \/ Stays \/ Goes(p, Idle)
  <2>1. CASE Check(p) \/ CheckExpiry(p) \/ Refused(p) \/ WaitForReadiness(p) \/ Report(p)
    BY <2>1 DEF Check, CheckExpiry, Refused, WaitForReadiness, Report, At, Seeing
  <2>2. CASE ReadSchedule(p)
    BY <2>2 DEF ReadSchedule, At, Seeing, Steps
  <2>3. CASE ReadService(p)
    BY <1>0, <2>3 DEF ReadService, At, Seeing, Steps, Wanted, For, WorldOK
  <2>4. CASE WaitForApi(p)
    BY <1>0, <2>4 DEF WaitForApi, At, Seeing, Wanted, For, WorldOK
  <2>5. CASE ReadDatabase(p)
    <3>1. /\ cmd[p].stage = "database" /\ Goes(p, Plan(p))
          /\ \/ Plan(p) = Idle
             \/ \E step \in Steps : Plan(p) = To(p, step)
             \/ Plan(p) = Following(cmd[p]) /\ (cmd[p].op = "wake" => rds = "available")
      BY <1>0, <2>5 DEF ReadDatabase, At, Plan, For, Steps
    <3>2. QED
      BY <3>1 DEF Seeing
  <2>6. CASE WaitForRds(p)
    BY <2>6 DEF WaitForRds, At, Seeing, Steps, For
  <2>7. QED
    BY <2>1, <2>2, <2>3, <2>4, <2>5, <2>6
<1>2. CASE Passes
  <2>1. UNCHANGED <<desired, task, rds>>
    BY <1>0 DEF world
  <2>2. cmd'[p] = Following(cmd[p]) => cmd'[p] \in CmdState /\ Fine(p)'
    BY <1>2, <2>1, ArrivesFine
  <2>3. QED
    BY <1>0, <1>2, <2>2, ReadIInv
<1>3. CASE Stays
  <2>1. PICK step \in Steps : Goes(p, To(p, step))
    BY <1>3
  <2>2. cmd'[p] = To(p, step) => cmd'[p] \in CmdState /\ Fine(p)'
    BY <1>0, <1>3, WaitsFine DEF world
  <2>3. QED
    BY <1>0, <2>1, <2>2, ReadIInv
<1>4. CASE Goes(p, Idle)
  BY <1>0, <1>4, EndsFine, ReadIInv
<1>5. QED
  BY <1>1, <1>2, <1>3, <1>4

LEMMA SeeIInv ==
    ASSUME IInv, NEW p \in Actors, See(p)
    PROVE  IInv'
<1>1. PICK k : Goes(p, k)
  BY DEF See
<1>2. now' \in Nat /\ left' \in Nat /\ UNCHANGED world
  BY DEF See, IInv, TypeOK, WorldOK
<1>3. QED
  BY <1>1, <1>2, SeesFine, ReadIInv

LEMMA StepIInv == IInv /\ [Next]_vars => IInv'
<1> SUFFICES ASSUME IInv, [Next]_vars PROVE IInv'
  OBVIOUS
<1>1. CASE UNCHANGED vars
  <2>1. \A q \in Actors : Fine(q)'
    BY <1>1, OthersFine DEF vars, world
  <2>2. QED
    BY <1>1, <2>1 DEF vars, world, IInv, TypeOK, WorldOK, Fine
<1>2. Lambda \in Actors /\ Lambda \notin Operators /\ Operators \subseteq Actors
  BY StagingAssumption DEF Actors, Lambda
<1>3. CASE Start(Lambda, "auto")
  BY <1>2, <1>3, StartIInv
<1>4. ASSUME NEW p \in Operators, NEW op \in {"wake", "sleep", "status"}, Start(p, op)
      PROVE  IInv'
  BY <1>2, <1>4, StartIInv
<1>5. ASSUME NEW p \in Actors, Step(p) \/ Fails(p)
      PROVE  IInv'
  BY <1>5, WriteStepIInv, ReadStepIInv, SeeIInv, FailsIInv DEF Step
<1>6. QED
  BY <1>1, <1>3, <1>4, <1>5, ProceedsIInv, OutsideIInv DEF Next

(* The invariant holds in every reachable state, whatever commands run     *)
(* side by side and wherever they end.                                     *)
THEOREM PowerInvariant == Spec => []IInv
  BY InitIInv, StepIInv, PTL DEF Spec

(* Variables keep their types and every command keeps to its route.        *)
THEOREM PowerTypeOK == Spec => []TypeOK
  BY PowerInvariant, PTL DEF IInv

-----------------------------------------------------------------------------
(* A status that was put together from three calls at three times is true  *)
(* of the moment it is printed, when nobody else wrote meanwhile: what AWS *)
(* does on its own cannot spoil SLEEPING or RUNNING.                       *)
THEOREM PowerReportIsTrue == Spec => []ReportIsTrue
<1>1. IInv => ReportIsTrue
  <2> SUFFICES ASSUME IInv, NEW p \in Actors, At(p, "reported", "read"), ~ cmd[p].touched,
                      NEW s, s = cmd[p].seen
               PROVE  LET overall == Overall(s[1], s[2], s[3], s[4], s[5])
                      IN  (overall = "SLEEPING" => Asleep) /\ (overall = "RUNNING" => Awake)
    BY DEF ReportIsTrue
  <2>1. SeenApi(s) /\ SeenDatabase(s) /\ SeenSchedule(s)
    BY DEF IInv, Relied, SightKept, At
  <2>2. ASSUME Overall(s[1], s[2], s[3], s[4], s[5]) = "SLEEPING"
        PROVE  Asleep
    <3>1. s[2] = 0 /\ s[3] = "none" /\ s[4] = "stopped" /\ s[5] = "DISABLED"
      BY <2>2 DEF Overall
    <3>2. QED
      BY <2>1, <3>1 DEF SeenApi, SeenDatabase, SeenSchedule, Asleep
  <2>3. ASSUME Overall(s[1], s[2], s[3], s[4], s[5]) = "RUNNING"
        PROVE  Awake
    <3>1. s[2] = 1 /\ s[3] = "running" /\ s[4] = "available" /\ s[5] = "DISABLED"
      BY <2>3 DEF Overall
    <3>2. QED
      BY <2>1, <3>1 DEF SeenApi, SeenDatabase, SeenSchedule, Awake
  <2>4. QED
    BY <2>2, <2>3
<1>2. QED
  BY <1>1, PowerInvariant, PTL

(* However often sleep and wake are started, end and start again: sleep    *)
(* stops the database only without tasks, wake asks for a task only with   *)
(* the database, unless somebody else wrote meanwhile.                     *)
THEOREM PowerInOrder == Spec => InOrder
<1>1. IInv => [\A p \in Operators :
                  ~ cmd[p].touched =>
                      /\ StopDatabase(p) => desired = 0 /\ task = "none"
                      /\ Scale(p) /\ For(p, "wake") => rds = "available"]_vars
  <2> SUFFICES ASSUME IInv, NEW p \in Operators, ~ cmd[p].touched
               PROVE  /\ StopDatabase(p) => desired = 0 /\ task = "none"
                      /\ Scale(p) /\ For(p, "wake") => rds = "available"
    BY Zenon
  <2>1. cmd[p] \in CmdState /\ OnRoute(p) /\ OrderKept(p)
    BY DEF IInv, TypeOK, Relied, Actors
  <2>2. ASSUME StopDatabase(p) PROVE desired = 0 /\ task = "none"
    <3>1. cmd[p].stage = "database" /\ cmd[p].op # "wake"
      BY <2>2 DEF StopDatabase, At, For
    <3>2. cmd[p].op = "sleep"
      BY <2>1, <3>1 DEF OnRoute, StagesOf, CmdState, Commands, Seeing
    <3>3. QED
      BY <2>1, <3>1, <3>2 DEF OrderKept
  <2>3. ASSUME Scale(p), For(p, "wake") PROVE rds = "available"
    BY <2>1, <2>3 DEF Scale, At, For, OrderKept
  <2>4. QED
    BY <2>2, <2>3
<1>2. QED
  BY <1>1, PowerInvariant, PTL DEF InOrder, Spec
=============================================================================
