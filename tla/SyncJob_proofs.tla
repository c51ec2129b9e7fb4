--------------------------- MODULE SyncJob_proofs ---------------------------
(***************************************************************************)
(* Proofs about SyncJob for any number of runs, subscriptions, workers,    *)
(* deliveries and crashes: the types of its state, that a run never has    *)
(* two workers, that every step is an operation of JobStore or leaves its  *)
(* rows alone, that a subscription is written under its own lease, and, as *)
(* long as no send fails, that targets follow their runs and recorded      *)
(* outcomes stay, but for the runs that maintenance overtakes.             *)
(***************************************************************************)
EXTENDS SyncJob, TLAPS

(* A run somebody works on is RUNNING with a recent heartbeat or finished, *)
(* so that nobody else can claim it.                                       *)
WorkedOn ==
    \A w \in Worker : job[w].run # NoRun =>
        /\ run[job[w].run].status \in Terminal \cup {"RUNNING"}
        /\ run[job[w].run].status = "RUNNING" => run[job[w].run].age = Fresh

(* What a job knows at each of its places.                                 *)
JobKnows ==
    \A w \in Worker :
        /\ job[w].pc = "idle" => job[w].run = NoRun
        /\ job[w].pc \in {"saveSub", "saveTarget", "saveRun"} => job[w].res \in Terminal
        /\ job[w].pc \in {"wrapTarget", "wrapRun"} => job[w].run # NoRun

IInv == TypeOK /\ WorkedOn /\ JobKnows /\ OneWorkerPerRun

(* Numbers after the newest are free: no row, no request.                  *)
Numbered == \A r \in Run : r > newest => run[r] = NoRow /\ api[r] = "idle"

(* What maintenance knows of the runs it has read: none is new, the target *)
(* rows it wrote were RUNNING and nobody else writes them, and it wrote    *)
(* those of all runs that are still without a heartbeat.                   *)
Unheard(r) == run[r].status = "RUNNING" /\ run[r].age = Abandoned /\ target[r] = "RUNNING"
Swept ==
    /\ sweep.locked \subseteq sweep.ids
    /\ sweep.at = "idle" => sweep.ids = {}
    /\ \A r \in sweep.ids : r <= newest
    /\ \A r \in sweep.locked : target[r] = "RUNNING"
    /\ sweep.at = "runs" => \A r \in sweep.ids : Unheard(r) => r \in sweep.locked

JInv == IInv /\ Numbered /\ Swept

-----------------------------------------------------------------------------
(* Rows stay rows when one of their fields is written.                     *)

LEMMA RunRowUpdate ==
    ASSUME NEW row \in RunRow, NEW st \in Status, NEW a \in {Fresh, Stale, Abandoned}
    PROVE  /\ [row EXCEPT !.status = st] \in RunRow
           /\ [row EXCEPT !.age = a] \in RunRow
           /\ [row EXCEPT !.asked = FALSE] \in RunRow
           /\ [row EXCEPT !.status = st, !.age = a] \in RunRow
  BY DEF RunRow

LEMMA SubRowUpdate ==
    ASSUME NEW row \in SubRow, NEW st \in Status, NEW r \in Run \cup {NoRun}
    PROVE  /\ [row EXCEPT !.last = st] \in SubRow
           /\ [row EXCEPT !.cooling = r] \in SubRow
           /\ [row EXCEPT !.last = st, !.cooling = r] \in SubRow
           /\ [row EXCEPT !.exists = FALSE] \in SubRow
           /\ [row EXCEPT !.paused = ~ @] \in SubRow
  BY DEF SubRow

LEMMA JobStateUpdate ==
    ASSUME NEW j \in JobState, NEW p \in Place, NEW res \in Terminal
    PROVE  [j EXCEPT !.pc = p, !.res = res] \in JobState
  BY DEF JobState, Place, Terminal

(* The rows at the beginning: those deleted users left, and no others.     *)
LEMMA InitRows ==
    ASSUME Init, NEW r \in Run
    PROVE  \/ /\ r <= newest
              /\ \E s \in Sub : run[r] = Orphan(s)
              /\ target[r] = "QUEUED"
           \/ r > newest /\ run[r] = NoRow /\ target[r] = "none"
<1>1. PICK owner \in [1 .. Left -> Deleted] :
         run = [q \in Run |-> IF q <= Left THEN Orphan(owner[q]) ELSE NoRow]
  BY DEF Init
<1>2. newest = Left /\ target[r] = IF r <= Left THEN "QUEUED" ELSE "none"
  BY DEF Init
<1>3. CASE r <= Left
  <2>1. r \in 1 .. Left
    BY <1>3, NamesAssumption, BoundsAssumption
  <2>2. owner[r] \in Sub
    BY <2>1, NamesAssumption
  <2>3. QED
    BY <1>1, <1>2, <1>3, <2>2
<1>4. CASE ~ (r <= Left)
  BY <1>1, <1>2, <1>4, NamesAssumption, BoundsAssumption
<1>5. QED
  BY <1>3, <1>4

LEMMA InitIInv == Init => IInv
<1> SUFFICES ASSUME Init
             PROVE  IInv
  OBVIOUS
<1>1. run \in [Run -> RunRow] /\ target \in [Run -> Status]
  <2>1. \A r \in Run : run[r] \in RunRow /\ target[r] \in Status
    <3>1. NoRow \in RunRow /\ \A s \in Sub : Orphan(s) \in RunRow
      BY DEF NoRow, Orphan, RunRow, Status, Active, Terminal, Fresh
    <3>2. QED
      BY <3>1, InitRows DEF Status, Active
  <2>2. QED
    BY <2>1 DEF Init
<1>2. newest \in Run \cup {0}
  <2>1. Left = 0 \/ Left \in 1 .. Left
    BY BoundsAssumption
  <2>2. QED
    BY <2>1, NamesAssumption DEF Init
<1>3. TypeOK
  BY <1>1, <1>2, NamesAssumption, BoundsAssumption
     DEF Init, TypeOK, NoJob, NoLease, NoSweep, SubRow, LeaseRow, JobState, Place, Status
<1>4. WorkedOn /\ JobKnows /\ OneWorkerPerRun
  BY DEF Init, WorkedOn, JobKnows, OneWorkerPerRun, NoJob
<1>5. QED
  BY <1>3, <1>4 DEF IInv

-----------------------------------------------------------------------------
(* What a step has to show to preserve the invariant.                      *)

(* Steps of the API, of users, of time and of maintenance leave the jobs   *)
(* alone, and a run somebody works on RUNNING and fresh, or finished.      *)
LEMMA OutsideIInv ==
    ASSUME IInv, UNCHANGED job, TypeOK',
           \A r \in Run :
               \/ run'[r] = run[r]
               \/ \A w \in Worker : job[w].run # r
               \/ /\ run'[r].age \in {Fresh, run[r].age}
                  /\ run'[r].status \in Terminal \cup {run[r].status}
    PROVE  IInv'
<1> USE DEF IInv
<1>1. WorkedOn'
  <2> SUFFICES ASSUME NEW w \in Worker, job[w].run # NoRun
               PROVE  LET r == job[w].run IN
                      /\ run'[r].status \in Terminal \cup {"RUNNING"}
                      /\ run'[r].status = "RUNNING" => run'[r].age = Fresh
    BY DEF WorkedOn
  <2>1. job[w].run \in Run
    BY DEF TypeOK, JobState
  <2>2. /\ run[job[w].run].status \in Terminal \cup {"RUNNING"}
        /\ run[job[w].run].status = "RUNNING" => run[job[w].run].age = Fresh
    BY DEF WorkedOn
  <2>3. QED
    BY <2>1, <2>2 DEF Terminal
<1>2. JobKnows' /\ OneWorkerPerRun'
  BY DEF JobKnows, OneWorkerPerRun
<1>3. QED
  BY <1>1, <1>2

(* A step of a worker that keeps its run or ends its job.                  *)
LEMMA WorkerIInv ==
    ASSUME NEW w \in Worker, IInv, TypeOK',
           \A v \in Worker : v # w => job'[v] = job[v],
           job'[w].run \in {job[w].run, NoRun},
           job'[w].pc = "idle" => job'[w].run = NoRun,
           job'[w].pc \in {"saveSub", "saveTarget", "saveRun"} => job'[w].res \in Terminal,
           job'[w].pc \in {"wrapTarget", "wrapRun"} => job'[w].run # NoRun,
           \A r \in Run :
               \/ run'[r] = run[r]
               \/ /\ run'[r].age = Fresh
                  /\ run'[r].status \in Terminal \cup {run[r].status}
    PROVE  IInv'
<1> USE DEF IInv
<1>1. WorkedOn'
  <2> SUFFICES ASSUME NEW v \in Worker, job'[v].run # NoRun
               PROVE  LET r == job'[v].run IN
                      /\ run'[r].status \in Terminal \cup {"RUNNING"}
                      /\ run'[r].status = "RUNNING" => run'[r].age = Fresh
    BY DEF WorkedOn
  <2>1. job'[v].run = job[v].run
    OBVIOUS
  <2>2. job[v].run \in Run
    BY <2>1 DEF TypeOK, JobState
  <2>3. /\ run[job[v].run].status \in Terminal \cup {"RUNNING"}
        /\ run[job[v].run].status = "RUNNING" => run[job[v].run].age = Fresh
    BY <2>1 DEF WorkedOn
  <2>4. QED
    BY <2>1, <2>2, <2>3 DEF Terminal
<1>2. JobKnows'
  BY DEF JobKnows
<1>3. OneWorkerPerRun'
  BY DEF OneWorkerPerRun
<1>4. QED
  BY <1>1, <1>2, <1>3

(* A claim, for both ways to claim.                                        *)
LEMMA ClaimIInv ==
    ASSUME NEW w \in Worker, NEW r \in Run, NEW q \in BOOLEAN, IInv,
           job[w].pc = "idle", Claimable(r), Claim(w, r, q),
           msg' \in [Run -> 0 .. MaxReceive],
           UNCHANGED <<sub, lease, api, crashes, newest, sweep, overtaken>>
    PROVE  IInv'
<1> USE DEF IInv
<1>1. run' \in [Run -> RunRow]
  <2>1. "RUNNING" \in Status /\ Fresh \in {Fresh, Stale, Abandoned}
    BY DEF Status, Active
  <2>2. run[r] \in RunRow /\ [run[r] EXCEPT !.status = "RUNNING", !.age = Fresh] \in RunRow
    BY <2>1, RunRowUpdate DEF TypeOK
  <2>3. run' = [run EXCEPT ![r] = [run[r] EXCEPT !.status = "RUNNING", !.age = Fresh]]
    BY DEF Claim, TypeOK
  <2>4. QED
    BY <2>2, <2>3 DEF TypeOK
<1>2. target' \in [Run -> Status]
  BY DEF TypeOK, Claim, Status, Active
<1>3. job' \in [Worker -> JobState]
  <2>1. [pc |-> "check", run |-> r, sub |-> run[r].sub,
         manual |-> run[r].type = "MANUAL", queued |-> q, res |-> "none"] \in JobState
    <3>1. run[r].sub \in Sub \cup {NoSub}
      BY DEF TypeOK, RunRow
    <3>2. QED
      BY <3>1 DEF JobState, Place
  <2>2. QED
    BY <2>1 DEF TypeOK, Claim
<1>4. TypeOK'
  BY <1>1, <1>2, <1>3 DEF TypeOK
<1>5. \A v \in Worker : job[v].run # r
  BY NamesAssumption DEF WorkedOn, Claimable, Terminal
<1>6. /\ run'[r].status = "RUNNING" /\ run'[r].age = Fresh
      /\ \A x \in Run : x # r => run'[x] = run[x]
  BY DEF TypeOK, Claim, RunRow
<1>7. /\ \A v \in Worker : v # w => job'[v] = job[v]
      /\ \/ job'[w] = job[w]
         \/ job'[w].run = r /\ job'[w].pc = "check"
  BY DEF TypeOK, Claim
<1>8. \A v \in Worker : job[v].run \in Run \cup {NoRun}
  BY DEF TypeOK, JobState
<1>9. WorkedOn'
  BY <1>5, <1>6, <1>7, <1>8 DEF WorkedOn
<1>10. JobKnows'
  BY <1>7 DEF JobKnows
<1>11. OneWorkerPerRun'
  BY <1>5, <1>7 DEF OneWorkerPerRun
<1>12. QED
  BY <1>4, <1>9, <1>10, <1>11

-----------------------------------------------------------------------------
(* Every step preserves it.                                                *)

LEMMA NoRowIs == NoRow.status = "none" /\ NoRow.sub = NoSub
  BY DEF NoRow

(* The number a request takes is free.                                     *)
LEMMA FreeNumber ==
    ASSUME IInv, Numbered, NEW r \in Run, NEW s \in Sub, NEW type \in {"INITIAL", "MANUAL"},
           Enqueue(s, r, type)
    PROVE  /\ newest \in Nat /\ r > newest /\ newest' = newest + 1 /\ r = newest'
           /\ run[r] = NoRow /\ run[r].status = "none"
<1>1. newest \in Nat /\ r = newest + 1 /\ newest' = r
  BY NamesAssumption DEF IInv, TypeOK, Enqueue
<1>2. r > newest
  BY <1>1
<1>3. QED
  BY <1>1, <1>2, NoRowIs DEF Numbered

LEMMA ApiIInv ==
    ASSUME IInv, Numbered, NEW r \in Run,
           \/ \E s \in Sub, type \in {"INITIAL", "MANUAL"} : Enqueue(s, r, type)
           \/ Send(r) \/ DispatchFailed(r) \/ ApiCrash(r) \/ GetOld(r) \/ Purge(r)
    PROVE  IInv'
<1> USE DEF IInv
<1>0. /\ Fresh \in {Fresh, Stale, Abandoned} /\ {"QUEUED", "FAILED", "none"} \subseteq Status
      /\ NoRow \in RunRow
  BY DEF Fresh, Status, Terminal, Active, NoRow, RunRow
<1>1. ASSUME NEW s \in Sub, NEW type \in {"INITIAL", "MANUAL"}, Enqueue(s, r, type)
      PROVE  IInv'
  <2>1. [status |-> "QUEUED", type |-> type, sub |-> s, asked |-> TRUE, age |-> Fresh] \in RunRow
    BY <1>0 DEF RunRow
  <2>2. [sub[s] EXCEPT !.last = "QUEUED"] \in SubRow
    BY <1>0, SubRowUpdate, NoRun \in Run \cup {NoRun} DEF TypeOK
  <2>3. TypeOK'
    BY <1>0, <1>1, <2>1, <2>2 DEF TypeOK, Enqueue
  <2>4. \A w \in Worker : job[w].run # r
    <3>1. r > newest /\ run[r].status = "none" /\ r # NoRun
      BY <1>1, FreeNumber, NamesAssumption
    <3>2. QED
      BY <3>1 DEF WorkedOn, Terminal
  <2>5. \A x \in Run : x # r => run'[x] = run[x]
    BY <1>1 DEF Enqueue, TypeOK
  <2>6. UNCHANGED job
    BY <1>1 DEF Enqueue
  <2>7. QED
    BY <2>3, <2>4, <2>5, <2>6, OutsideIInv
<1>2. CASE Send(r) \/ ApiCrash(r)
  <2>1. msg' \in [Run -> 0 .. MaxReceive]
    BY <1>2, BoundsAssumption DEF TypeOK, Send, ApiCrash
  <2>2. api' \in [Run -> {"idle", "send", "saveSub", "saveTarget", "saveRun"}]
    BY <1>2 DEF TypeOK, Send, ApiCrash
  <2>3. UNCHANGED <<run, target, sub, lease, job, crashes, newest, sweep, overtaken>>
    BY <1>2 DEF Send, ApiCrash
  <2>4. TypeOK'
    BY <2>1, <2>2, <2>3 DEF TypeOK
  <2>5. QED
    BY <2>3, <2>4, OutsideIInv
<1>3. CASE DispatchFailed(r)
  <2>1. CASE api[r] = "saveSub"
    <3>1. run' = run /\ job' = job
      BY <1>3, <2>1 DEF DispatchFailed
    <3>2. sub' \in [Sub -> SubRow]
      <4>1. \A s \in Sub : [sub[s] EXCEPT !.last = "FAILED"] \in SubRow
        BY <1>0, SubRowUpdate, NoRun \in Run \cup {NoRun} DEF TypeOK
      <4>2. QED
        BY <1>3, <2>1, <4>1 DEF DispatchFailed, TypeOK
    <3>3. TypeOK'
      BY <1>3, <2>1, <3>1, <3>2 DEF DispatchFailed, TypeOK
    <3>4. QED
      BY <3>1, <3>3, OutsideIInv
  <2>2. CASE api[r] = "saveTarget"
    <3>1. TypeOK'
      BY <1>0, <1>3, <2>2 DEF DispatchFailed, TypeOK
    <3>2. UNCHANGED <<run, job>>
      BY <1>3, <2>2 DEF DispatchFailed
    <3>3. QED
      BY <3>1, <3>2, OutsideIInv
  <2>3. CASE api[r] = "saveRun"
    <3>1. run' = [run EXCEPT ![r] = [run[r] EXCEPT !.status = "FAILED", !.age = Fresh]]
      BY <1>3, <2>3 DEF DispatchFailed, TypeOK
    <3>2. [run[r] EXCEPT !.status = "FAILED", !.age = Fresh] \in RunRow
      BY <1>0, RunRowUpdate DEF TypeOK
    <3>3. TypeOK'
      BY <1>3, <2>3, <3>1, <3>2 DEF DispatchFailed, TypeOK
    <3>4. /\ run'[r].status = "FAILED" /\ run'[r].age = Fresh
          /\ \A x \in Run : x # r => run'[x] = run[x]
      BY <3>1 DEF TypeOK, RunRow
    <3>5. UNCHANGED job
      BY <1>3, <2>3 DEF DispatchFailed
    <3>6. QED
      BY <3>3, <3>4, <3>5, OutsideIInv DEF Terminal
  <2>4. QED
    BY <1>3, <2>1, <2>2, <2>3 DEF DispatchFailed
<1>4. CASE GetOld(r)
  <2>1. run[r].age + 1 \in {Fresh, Stale, Abandoned}
    BY <1>4 DEF GetOld, TypeOK, RunRow, Fresh, Stale, Abandoned
  <2>2. run' = [run EXCEPT ![r] = [run[r] EXCEPT !.age = run[r].age + 1]]
    BY <1>4 DEF GetOld, TypeOK
  <2>3. [run[r] EXCEPT !.age = run[r].age + 1] \in RunRow
    BY <1>0, <2>1, RunRowUpdate DEF TypeOK
  <2>4. TypeOK'
    BY <1>4, <2>2, <2>3 DEF GetOld, TypeOK
  <2>5. \A w \in Worker : job[w].run # r
    BY <1>4 DEF GetOld, Running
  <2>6. UNCHANGED job /\ \A x \in Run : x # r => run'[x] = run[x]
    BY <1>4, <2>2 DEF GetOld, TypeOK
  <2>7. QED
    BY <2>4, <2>5, <2>6, OutsideIInv
<1>5. CASE Purge(r)
  <2>1. TypeOK'
    BY <1>0, <1>5 DEF Purge, TypeOK
  <2>2. UNCHANGED job /\ \A x \in Run : x # r => run'[x] = run[x]
    BY <1>5 DEF Purge, TypeOK
  <2>3. \A w \in Worker : job[w].run # r
    BY <1>5 DEF Purge, Running
  <2>4. QED
    BY <2>1, <2>2, <2>3, OutsideIInv
<1>6. QED
  BY <1>1, <1>2, <1>3, <1>4, <1>5

LEMMA UserIInv ==
    ASSUME IInv, NEW s \in Sub,
           SetPaused(s) \/ RemoveSubscription(s) \/ DeleteUser(s) \/ ExpireLease(s) \/ CoolDown(s)
    PROVE  IInv'
<1> USE DEF IInv
<1>1. UNCHANGED <<target, api, msg, job, crashes, newest, sweep, overtaken>>
  BY DEF SetPaused, RemoveSubscription, DeleteUser, ExpireLease, CoolDown
<1>2. sub' \in [Sub -> SubRow]
  <2>1. /\ [sub[s] EXCEPT !.exists = FALSE] \in SubRow
        /\ [sub[s] EXCEPT !.paused = ~ @] \in SubRow
        /\ [sub[s] EXCEPT !.cooling = NoRun] \in SubRow
    BY SubRowUpdate, "none" \in Status, NoRun \in Run \cup {NoRun} DEF TypeOK, Status
  <2>2. CASE SetPaused(s) \/ CoolDown(s)
    BY <2>1, <2>2 DEF SetPaused, CoolDown, TypeOK
  <2>3. CASE RemoveSubscription(s) \/ DeleteUser(s)
    BY <2>1, <2>3 DEF RemoveSubscription, DeleteUser, TypeOK
  <2>4. QED
    BY <2>2, <2>3 DEF ExpireLease, TypeOK
<1>3. lease' \in [Sub -> LeaseRow]
  <2>1. lease \in [Sub -> LeaseRow]
    BY DEF TypeOK
  <2>2. \A x \in Sub : [lease[x] EXCEPT !.live = FALSE] \in LeaseRow
    BY <2>1 DEF LeaseRow
  <2>3. QED
    BY <2>1, <2>2 DEF SetPaused, RemoveSubscription, DeleteUser, ExpireLease, CoolDown
<1>4. /\ run' \in [Run -> RunRow]
      /\ \A r \in Run : run'[r].status = run[r].status /\ run'[r].age = run[r].age
  <2>0. run \in [Run -> RunRow]
    BY DEF TypeOK
  <2>1. CASE DeleteUser(s)
    <3>1. \A r \in Run : /\ [run[r] EXCEPT !.asked = FALSE] \in RunRow
                         /\ [run[r] EXCEPT !.asked = FALSE].status = run[r].status
                         /\ [run[r] EXCEPT !.asked = FALSE].age = run[r].age
      BY <2>0 DEF RunRow
    <3>2. QED
      BY <2>0, <2>1, <3>1 DEF DeleteUser
  <2>2. CASE ~ DeleteUser(s)
    BY <2>0, <2>2 DEF SetPaused, RemoveSubscription, ExpireLease, CoolDown
  <2>3. QED
    BY <2>1, <2>2
<1>5. TypeOK'
  BY <1>1, <1>2, <1>3, <1>4 DEF TypeOK
<1>6. QED
  BY <1>1, <1>4, <1>5, OutsideIInv

(* maintainSyncRuns writes to runs in its last step alone.                 *)
LEMMA MaintenanceIInv == IInv /\ Maintenance => IInv'
<1> SUFFICES ASSUME IInv, Maintenance
             PROVE  IInv'
  OBVIOUS
<1> USE DEF IInv
<1> DEFINE Sweeps == [at : {"idle", "targets", "runs"}, ids : SUBSET Run, locked : SUBSET Run]
<1>0. /\ NoSweep \in Sweeps /\ sweep \in Sweeps /\ run \in [Run -> RunRow]
      /\ UNCHANGED <<newest, sub, lease, api, msg, job, crashes>>
  BY DEF TypeOK, NoSweep, Maintenance, FindStale, FailTargets, FailRuns, AbortMaintenance
<1>1. CASE FindStale \/ FailTargets \/ AbortMaintenance
  <2>1. UNCHANGED <<run, target, overtaken>>
    BY <1>1 DEF FindStale, FailTargets, AbortMaintenance
  <2>2. sweep' \in Sweeps
    <3>1. CASE FindStale
      BY <3>1 DEF FindStale
    <3>2. CASE FailTargets
      BY <1>0, <3>2 DEF FailTargets
    <3>3. CASE AbortMaintenance
      BY <1>0, <3>3 DEF AbortMaintenance
    <3>4. QED
      BY <1>1, <3>1, <3>2, <3>3
  <2>3. TypeOK'
    BY <1>0, <2>1, <2>2 DEF TypeOK
  <2>4. QED
    BY <1>0, <2>1, <2>3, OutsideIInv
<1>2. CASE FailRuns
  <2>1. \A r \in Run : /\ [run[r] EXCEPT !.status = "FAILED"] \in RunRow
                       /\ [run[r] EXCEPT !.status = "FAILED"].status = "FAILED"
                       /\ [run[r] EXCEPT !.status = "FAILED"].age = run[r].age
    BY <1>0 DEF RunRow, Status, Terminal
  <2>2. /\ run' \in [Run -> RunRow]
        /\ \A r \in Run :
              run'[r] = run[r] \/ (run'[r].age = run[r].age /\ run'[r].status = "FAILED")
    BY <1>0, <1>2, <2>1 DEF FailRuns
  <2>3. target' \in [Run -> Status]
    BY <1>2 DEF FailRuns, TypeOK, Status, Terminal
  <2>4. sweep' = NoSweep /\ overtaken' \subseteq Run
    BY <1>2 DEF FailRuns, TypeOK
  <2>5. TypeOK'
    BY <1>0, <2>2, <2>3, <2>4 DEF TypeOK
  <2>6. QED
    BY <1>0, <2>2, <2>5, OutsideIInv DEF Terminal
<1>3. QED
  BY <1>1, <1>2 DEF Maintenance

LEMMA ClaimStepIInv ==
    ASSUME IInv, NEW w \in Worker, NEW r \in Run, Deliver(w, r) \/ Recover(w, r)
    PROVE  IInv'
<1>1. CASE Deliver(w, r) /\ Claimable(r) /\ r \notin sweep.locked
  <2>1. /\ job[w].pc = "idle" /\ Claim(w, r, TRUE)
        /\ UNCHANGED <<sub, lease, api, crashes, newest, sweep, overtaken>>
    BY <1>1 DEF Deliver
  <2>2. msg' \in [Run -> 0 .. MaxReceive]
    <3>1. msg[r] - 1 \in 0 .. MaxReceive /\ 0 \in 0 .. MaxReceive
      BY <1>1, BoundsAssumption DEF Deliver, IInv, TypeOK
    <3>2. QED
      BY <1>1, <3>1 DEF Deliver, IInv, TypeOK
  <2>3. QED
    BY <1>1, <2>1, <2>2, ClaimIInv
<1>2. CASE Deliver(w, r) /\ ~ (Claimable(r) /\ r \notin sweep.locked)
  <2>1. UNCHANGED <<run, target, sub, lease, api, job, crashes, newest, sweep, overtaken>>
    BY <1>2 DEF Deliver
  <2>2. msg' \in [Run -> 0 .. MaxReceive]
    <3>1. msg[r] > 0 => msg[r] - 1 \in 0 .. MaxReceive
      BY BoundsAssumption DEF IInv, TypeOK
    <3>2. 0 \in 0 .. MaxReceive
      BY BoundsAssumption
    <3>3. QED
      BY <1>2, <3>1, <3>2 DEF Deliver, IInv, TypeOK
  <2>3. TypeOK'
    BY <2>1, <2>2 DEF IInv, TypeOK
  <2>4. QED
    BY <2>1, <2>3, OutsideIInv
<1>3. CASE Recover(w, r)
  <2>1. /\ Claim(w, r, FALSE) /\ job[w].pc = "idle" /\ Claimable(r)
        /\ UNCHANGED <<sub, lease, api, crashes, newest, sweep, overtaken>>
    BY <1>3 DEF Recover
  <2>2. msg' \in [Run -> 0 .. MaxReceive]
    BY <1>3 DEF Recover, IInv, TypeOK
  <2>3. QED
    BY <2>1, <2>2, ClaimIInv
<1>4. QED
  BY <1>1, <1>2, <1>3

(* A job that moves on keeps its run; one that is done has none.           *)
LEMMA GotoMoves ==
    ASSUME IInv, NEW w \in Worker, NEW p \in Place, Goto(w, p)
    PROVE  /\ job' \in [Worker -> JobState]
           /\ job'[w].pc = p /\ job'[w].run = job[w].run /\ job'[w].res = job[w].res
           /\ \A v \in Worker : v # w => job'[v] = job[v]
<1>1. job[w] \in JobState /\ job \in [Worker -> JobState]
  BY DEF IInv, TypeOK
<1>2. [job[w] EXCEPT !.pc = p] \in JobState
  BY <1>1 DEF JobState
<1>3. /\ [job[w] EXCEPT !.pc = p].pc = p
      /\ [job[w] EXCEPT !.pc = p].run = job[w].run
      /\ [job[w] EXCEPT !.pc = p].res = job[w].res
  BY <1>1 DEF JobState
<1>4. job' = [job EXCEPT ![w] = [job[w] EXCEPT !.pc = p]]
  BY <1>1 DEF Goto
<1>5. QED
  BY <1>1, <1>2, <1>3, <1>4

LEMMA ResultMoves ==
    ASSUME IInv, NEW w \in Worker, NEW p \in Place, NEW res \in Terminal, Result(w, p, res)
    PROVE  /\ job' \in [Worker -> JobState]
           /\ job'[w].pc = p /\ job'[w].run = job[w].run /\ job'[w].res = res
           /\ \A v \in Worker : v # w => job'[v] = job[v]
<1>1. job[w] \in JobState /\ job \in [Worker -> JobState]
  BY DEF IInv, TypeOK
<1>2. [job[w] EXCEPT !.pc = p, !.res = res] \in JobState
  BY <1>1, JobStateUpdate
<1>3. /\ [job[w] EXCEPT !.pc = p, !.res = res].pc = p
      /\ [job[w] EXCEPT !.pc = p, !.res = res].run = job[w].run
      /\ [job[w] EXCEPT !.pc = p, !.res = res].res = res
  BY <1>1 DEF JobState
<1>4. job' = [job EXCEPT ![w] = [job[w] EXCEPT !.pc = p, !.res = res]]
  BY <1>1 DEF Result
<1>5. QED
  BY <1>1, <1>2, <1>3, <1>4

LEMMA DoneEnds ==
    ASSUME IInv, NEW w \in Worker, Done(w)
    PROVE  /\ job' \in [Worker -> JobState]
           /\ job'[w].pc = "idle" /\ job'[w].run = NoRun
           /\ \A v \in Worker : v # w => job'[v] = job[v]
<1>1. NoJob \in JobState /\ NoJob.pc = "idle" /\ NoJob.run = NoRun
  BY DEF NoJob, JobState, Place
<1>2. QED
  BY <1>1 DEF Done, IInv, TypeOK

LEMMA BeatIs ==
    ASSUME IInv, NEW w \in Worker, Beat(w)
    PROVE  /\ run' \in [Run -> RunRow]
           /\ \A r \in Run : \/ run'[r] = run[r]
                             \/ run'[r].age = Fresh /\ run'[r].status = run[r].status
<1>1. run \in [Run -> RunRow] /\ "none" \in Status /\ Fresh \in {Fresh, Stale, Abandoned}
  BY DEF IInv, TypeOK, Status
<1>2. \A r \in Run : /\ [run[r] EXCEPT !.age = Fresh] \in RunRow
                     /\ [run[r] EXCEPT !.age = Fresh].age = Fresh
                     /\ [run[r] EXCEPT !.age = Fresh].status = run[r].status
  <2> SUFFICES ASSUME NEW r \in Run
               PROVE  /\ [run[r] EXCEPT !.age = Fresh] \in RunRow
                      /\ [run[r] EXCEPT !.age = Fresh].age = Fresh
                      /\ [run[r] EXCEPT !.age = Fresh].status = run[r].status
    OBVIOUS
  <2>1. [run[r] EXCEPT !.age = Fresh] \in RunRow
    BY <1>1, RunRowUpdate
  <2>2. QED
    BY <1>1, <2>1 DEF RunRow
<1>3. CASE job[w].run # NoRun /\ run[job[w].run].status = "RUNNING"
  <2>1. run' = [run EXCEPT ![job[w].run] = [run[job[w].run] EXCEPT !.age = Fresh]]
    BY <1>1, <1>3 DEF Beat, IInv, TypeOK, JobState
  <2>2. QED
    BY <1>1, <1>2, <2>1
<1>4. CASE ~ (job[w].run # NoRun /\ run[job[w].run].status = "RUNNING")
  BY <1>1, <1>4 DEF Beat
<1>5. QED
  BY <1>3, <1>4

LEMMA WorkerStepIInv ==
    ASSUME IInv, NEW w \in Worker,
           WorkerStep(w) \/ Renew(w) \/ Crash(w) \/ \E s \in Sub : StartScheduled(w, s)
    PROVE  IInv'
<1> USE DEF IInv
<1>0. /\ {"check", "wrap", "acquire", "begin", "sync", "saveSub", "saveTarget", "saveRun",
         "release", "wrapTarget", "wrapRun"} \subseteq Place
      /\ {"SUCCESS", "DEFERRED", "FAILED"} \subseteq Terminal
  BY DEF Place, Terminal
<1>1. ASSUME NEW s \in Sub, StartScheduled(w, s)
      PROVE  IInv'
  <2>1. [NoJob EXCEPT !.pc = "check", !.sub = s] \in JobState
    BY DEF NoJob, JobState, Place
  <2>2. /\ [NoJob EXCEPT !.pc = "check", !.sub = s].pc = "check"
        /\ [NoJob EXCEPT !.pc = "check", !.sub = s].run = NoRun
    BY DEF NoJob
  <2>3. job' \in [Worker -> JobState]
    BY <1>1, <2>1 DEF StartScheduled, TypeOK
  <2>4. TypeOK'
    BY <1>1, <2>3 DEF StartScheduled, TypeOK
  <2>5. /\ job'[w].pc = "check" /\ job'[w].run = NoRun
        /\ \A v \in Worker : v # w => job'[v] = job[v]
        /\ run' = run
    BY <1>1, <2>2 DEF StartScheduled, TypeOK
  <2>6. QED
    BY <2>4, <2>5, WorkerIInv
<1>2. CASE Check(w)
  <2>1. Result(w, "wrap", "FAILED") \/ Goto(w, "acquire")
    BY <1>2 DEF Check
  <2>2. /\ job' \in [Worker -> JobState]
        /\ job'[w].pc \in {"wrap", "acquire"} /\ job'[w].run = job[w].run
        /\ \A v \in Worker : v # w => job'[v] = job[v]
    BY <1>0, <2>1, GotoMoves, ResultMoves
  <2>3. target' \in [Run -> Status]
    BY <1>2 DEF Check, TypeOK, Status, Active
  <2>4. UNCHANGED <<run, sub, lease, api, msg, crashes, newest, sweep, overtaken>>
    BY <1>2 DEF Check
  <2>5. TypeOK'
    BY <2>2, <2>3, <2>4 DEF TypeOK
  <2>6. QED
    BY <2>2, <2>4, <2>5, WorkerIInv
<1>3. CASE Acquire(w)
  <2>1. Goto(w, "begin") \/ Result(w, "saveTarget", "FAILED")
    BY <1>3 DEF Acquire
  <2>2. /\ job' \in [Worker -> JobState]
        /\ job'[w].run = job[w].run
        /\ job'[w].pc = "begin" \/ (job'[w].pc = "saveTarget" /\ job'[w].res = "FAILED")
        /\ \A v \in Worker : v # w => job'[v] = job[v]
    <3>1. CASE Goto(w, "begin")
      BY <1>0, <3>1, GotoMoves
    <3>2. CASE Result(w, "saveTarget", "FAILED")
      BY <1>0, <3>2, ResultMoves
    <3>3. QED
      BY <2>1, <3>1, <3>2
  <2>3. lease' \in [Sub -> LeaseRow]
    <3>1. [owner |-> w, live |-> TRUE] \in LeaseRow
      BY DEF LeaseRow
    <3>2. QED
      BY <1>3, <3>1 DEF Acquire, TypeOK
  <2>4. UNCHANGED <<run, target, sub, api, msg, crashes, newest, sweep, overtaken>>
    BY <1>3 DEF Acquire
  <2>5. TypeOK'
    BY <2>2, <2>3, <2>4 DEF TypeOK
  <2>6. QED
    BY <2>2, <2>4, <2>5, WorkerIInv DEF Terminal
<1>4. CASE Begin(w)
  <2>1. Goto(w, "sync") \/ Result(w, "saveSub", "FAILED")
    BY <1>4 DEF Begin
  <2>2. /\ job' \in [Worker -> JobState]
        /\ job'[w].run = job[w].run
        /\ job'[w].pc = "sync" \/ (job'[w].pc = "saveSub" /\ job'[w].res = "FAILED")
        /\ \A v \in Worker : v # w => job'[v] = job[v]
    <3>1. CASE Goto(w, "sync")
      BY <1>0, <3>1, GotoMoves
    <3>2. CASE Result(w, "saveSub", "FAILED")
      BY <1>0, <3>2, ResultMoves
    <3>3. QED
      BY <2>1, <3>1, <3>2
  <2>3. sub' \in [Sub -> SubRow]
    <3>1. ASSUME NEW s \in Sub
          PROVE  /\ sub[s].cooling \in Run \cup {NoRun}
                 /\ job[w].run \in Run \cup {NoRun}
      BY DEF TypeOK, SubRow, JobState
    <3>2. \A s \in Sub, c \in Run \cup {NoRun} :
             [sub[s] EXCEPT !.last = "RUNNING", !.cooling = c] \in SubRow
      BY SubRowUpdate, "RUNNING" \in Status DEF TypeOK, Status, Active
    <3>3. CASE ~ sub[job[w].sub].exists
      BY <1>4, <3>3 DEF Begin, TypeOK
    <3>4. CASE sub[job[w].sub].exists
      <4> DEFINE s == job[w].sub
                 c == IF job[w].manual THEN job[w].run ELSE sub[s].cooling
      <4>1. sub' = [sub EXCEPT ![s] = [sub[s] EXCEPT !.last = "RUNNING", !.cooling = c]]
        BY <1>4, <3>4 DEF Begin, TypeOK, SubRow
      <4>2. s \in Sub => c \in Run \cup {NoRun}
        BY <3>1
      <4>3. s \in Sub => [sub[s] EXCEPT !.last = "RUNNING", !.cooling = c] \in SubRow
        BY <3>2, <4>2
      <4> HIDE DEF s, c
      <4>4. QED
        BY <4>1, <4>3 DEF TypeOK
    <3>5. QED
      BY <3>3, <3>4
  <2>4. UNCHANGED <<run, target, lease, api, msg, crashes, newest, sweep, overtaken>>
    BY <1>4 DEF Begin
  <2>5. TypeOK'
    BY <2>2, <2>3, <2>4 DEF TypeOK
  <2>6. QED
    BY <2>2, <2>4, <2>5, WorkerIInv DEF Terminal
<1>5. CASE Renew(w)
  <2>1. CASE Beat(w) /\ job' = job
    <3>1. /\ run' \in [Run -> RunRow]
          /\ \A r \in Run : \/ run'[r] = run[r]
                            \/ run'[r].age = Fresh /\ run'[r].status = run[r].status
      BY <2>1, BeatIs
    <3>2. TypeOK'
      BY <1>5, <2>1, <3>1 DEF Renew, TypeOK
    <3>3. QED
      BY <2>1, <3>1, <3>2, OutsideIInv
  <2>2. CASE Result(w, "saveTarget", "FAILED") /\ run' = run
    <3>1. /\ job' \in [Worker -> JobState]
          /\ job'[w].pc = "saveTarget" /\ job'[w].run = job[w].run /\ job'[w].res = "FAILED"
          /\ \A v \in Worker : v # w => job'[v] = job[v]
      BY <1>0, <2>2, ResultMoves
    <3>2. TypeOK'
      BY <1>5, <2>2, <3>1 DEF Renew, TypeOK
    <3>3. QED
      BY <1>0, <2>2, <3>1, <3>2, WorkerIInv
  <2>3. QED
    BY <1>5, <2>1, <2>2 DEF Renew
<1>6. CASE EndSync(w)
  <2>1. PICK res \in Terminal, place \in {"saveSub", "saveTarget"} : Result(w, place, res)
    BY <1>6, BoundsAssumption DEF EndSync, Terminal
  <2>2. /\ job' \in [Worker -> JobState]
        /\ job'[w].pc = place /\ job'[w].run = job[w].run /\ job'[w].res = res
        /\ \A v \in Worker : v # w => job'[v] = job[v]
    BY <1>0, <2>1, ResultMoves
  <2>3. /\ run' \in [Run -> RunRow]
        /\ \A r \in Run : \/ run'[r] = run[r]
                          \/ run'[r].age = Fresh /\ run'[r].status = run[r].status
    <3>1. CASE Beat(w)
      BY <3>1, BeatIs
    <3>2. CASE run' = run
      BY <3>2 DEF TypeOK
    <3>3. QED
      BY <1>6, <3>1, <3>2 DEF EndSync
  <2>4. TypeOK'
    BY <1>6, <2>2, <2>3 DEF EndSync, TypeOK
  <2>5. QED
    BY <2>2, <2>3, <2>4, WorkerIInv
<1>7. CASE SaveSub(w)
  <2> DEFINE s == job[w].sub
  <2>1. job[w].res \in Terminal
    BY <1>7 DEF SaveSub, JobKnows
  <2>2. \/ Goto(w, IF job[w].run = NoRun THEN "release" ELSE "saveTarget")
        \/ Result(w, "release", "FAILED")
    BY <1>7 DEF SaveSub
  <2>3. /\ job' \in [Worker -> JobState]
        /\ job'[w].run = job[w].run
        /\ \/ job'[w].pc = "release"
           \/ job'[w].pc = "saveTarget" /\ job'[w].res = job[w].res
        /\ \A v \in Worker : v # w => job'[v] = job[v]
    <3>1. CASE Goto(w, "release")
      BY <1>0, <3>1, GotoMoves
    <3>2. CASE Goto(w, "saveTarget")
      BY <1>0, <3>2, GotoMoves
    <3>3. CASE Result(w, "release", "FAILED")
      BY <1>0, <3>3, ResultMoves
    <3>4. QED
      BY <2>2, <3>1, <3>2, <3>3
  <2>4. sub' \in [Sub -> SubRow]
    <3>1. s \in Sub => [sub[s] EXCEPT !.last = job[w].res] \in SubRow
      BY <2>1, SubRowUpdate, NoRun \in Run \cup {NoRun} DEF TypeOK, Status
    <3>2. sub' = sub \/ sub' = [sub EXCEPT ![s] = [sub[s] EXCEPT !.last = job[w].res]]
      BY <1>7 DEF SaveSub, TypeOK
    <3> HIDE DEF s
    <3>3. QED
      BY <3>1, <3>2 DEF TypeOK
  <2>5. UNCHANGED <<run, target, lease, api, msg, crashes, newest, sweep, overtaken>>
    BY <1>7 DEF SaveSub
  <2>6. TypeOK'
    BY <2>3, <2>4, <2>5 DEF TypeOK
  <2>7. QED
    BY <2>1, <2>3, <2>5, <2>6, WorkerIInv
<1>8. CASE SaveTarget(w)
  <2>1. job[w].res \in Terminal /\ Goto(w, "saveRun")
    BY <1>8 DEF SaveTarget, JobKnows
  <2>2. /\ job' \in [Worker -> JobState]
        /\ job'[w].pc = "saveRun" /\ job'[w].run = job[w].run /\ job'[w].res = job[w].res
        /\ \A v \in Worker : v # w => job'[v] = job[v]
    BY <1>0, <2>1, GotoMoves
  <2>3. target' \in [Run -> Status]
    BY <1>8, <2>1 DEF SaveTarget, TypeOK, Status
  <2>4. UNCHANGED <<run, sub, lease, api, msg, crashes, newest, sweep, overtaken>>
    BY <1>8 DEF SaveTarget
  <2>5. TypeOK'
    BY <2>2, <2>3, <2>4 DEF TypeOK
  <2>6. QED
    BY <2>1, <2>2, <2>4, <2>5, WorkerIInv
<1>9. CASE SaveRun(w)
  <2> DEFINE r == job[w].run
             row == [run[r] EXCEPT !.status = job[w].res, !.age = Fresh]
  <2>1. job[w].res \in Terminal /\ Goto(w, "release")
    BY <1>9 DEF SaveRun, JobKnows
  <2>2. /\ job' \in [Worker -> JobState]
        /\ job'[w].pc = "release" /\ job'[w].run = job[w].run
        /\ \A v \in Worker : v # w => job'[v] = job[v]
    BY <1>0, <2>1, GotoMoves
  <2>3. run' = run \/ run' = [run EXCEPT ![r] = row]
    BY <1>9 DEF SaveRun, TypeOK
  <2>4. r \in Run => row \in RunRow /\ row.status \in Terminal /\ row.age = Fresh
    <3>1. SUFFICES ASSUME r \in Run
                   PROVE  row \in RunRow /\ row.status \in Terminal /\ row.age = Fresh
      OBVIOUS
    <3>2. run[r] \in RunRow /\ job[w].res \in Status /\ Fresh \in {Fresh, Stale, Abandoned}
      BY <2>1, <3>1 DEF TypeOK, Status
    <3>3. row \in RunRow
      BY <3>2, RunRowUpdate
    <3>4. QED
      BY <2>1, <3>2, <3>3 DEF RunRow
  <2> HIDE DEF r, row
  <2>5. /\ run' \in [Run -> RunRow]
        /\ \A x \in Run : run'[x] = run[x] \/ (run'[x].age = Fresh /\ run'[x].status \in Terminal)
    BY <2>3, <2>4 DEF TypeOK
  <2>6. /\ UNCHANGED <<target, sub, lease, api, msg, crashes, newest, sweep>>
        /\ overtaken' \subseteq Run
    BY <1>9 DEF SaveRun, TypeOK
  <2>7. TypeOK'
    BY <2>2, <2>5, <2>6 DEF TypeOK
  <2>8. QED
    BY <2>2, <2>5, <2>7, WorkerIInv
<1>10. CASE Release(w)
  <2>1. Done(w) \/ Goto(w, "wrap")
    BY <1>10 DEF Release
  <2>2. /\ job' \in [Worker -> JobState]
        /\ \/ job'[w].pc = "idle" /\ job'[w].run = NoRun
           \/ job'[w].pc = "wrap" /\ job'[w].run = job[w].run
        /\ \A v \in Worker : v # w => job'[v] = job[v]
    <3>1. CASE Done(w)
      BY <3>1, DoneEnds
    <3>2. CASE Goto(w, "wrap")
      BY <1>0, <3>2, GotoMoves
    <3>3. QED
      BY <2>1, <3>1, <3>2
  <2>3. lease' \in [Sub -> LeaseRow]
    <3>1. NoLease \in LeaseRow
      BY DEF NoLease, LeaseRow
    <3>2. QED
      BY <1>10, <3>1 DEF Release, TypeOK
  <2>4. msg' \in [Run -> 0 .. MaxReceive]
    BY <1>10, BoundsAssumption DEF Release, TypeOK
  <2>5. UNCHANGED <<run, target, sub, api, crashes, newest, sweep, overtaken>>
    BY <1>10 DEF Release
  <2>6. TypeOK'
    BY <2>2, <2>3, <2>4, <2>5 DEF TypeOK
  <2>7. QED
    BY <2>2, <2>5, <2>6, WorkerIInv
<1>11. CASE Wrap(w)
  <2>1. CASE job[w].pc = "wrap"
    <3>1. \/ Goto(w, "wrapTarget") /\ job[w].run # NoRun
          \/ Done(w)
      BY <1>11, <2>1 DEF Wrap
    <3>2. /\ job' \in [Worker -> JobState]
          /\ \/ job'[w].pc = "idle" /\ job'[w].run = NoRun
             \/ job'[w].pc = "wrapTarget" /\ job'[w].run = job[w].run /\ job[w].run # NoRun
          /\ \A v \in Worker : v # w => job'[v] = job[v]
      <4>1. CASE Done(w)
        BY <4>1, DoneEnds
      <4>2. CASE Goto(w, "wrapTarget") /\ job[w].run # NoRun
        BY <1>0, <4>2, GotoMoves
      <4>3. QED
        BY <3>1, <4>1, <4>2
    <3>3. UNCHANGED <<run, target, sub, lease, api, msg, crashes, newest, sweep, overtaken>>
      BY <1>11, <2>1 DEF Wrap
    <3>4. TypeOK'
      BY <3>2, <3>3 DEF TypeOK
    <3>5. QED
      BY <3>2, <3>3, <3>4, WorkerIInv
  <2>2. CASE job[w].pc = "wrapTarget"
    <3>1. Goto(w, "wrapRun") /\ job[w].run # NoRun
      BY <1>11, <2>2 DEF Wrap, JobKnows
    <3>2. /\ job' \in [Worker -> JobState]
          /\ job'[w].pc = "wrapRun" /\ job'[w].run = job[w].run
          /\ \A v \in Worker : v # w => job'[v] = job[v]
      BY <1>0, <3>1, GotoMoves
    <3>3. target' \in [Run -> Status]
      BY <1>11, <2>2 DEF Wrap, TypeOK, Status, Terminal
    <3>4. UNCHANGED <<run, sub, lease, api, msg, crashes, newest, sweep, overtaken>>
      BY <1>11, <2>2 DEF Wrap
    <3>5. TypeOK'
      BY <3>2, <3>3, <3>4 DEF TypeOK
    <3>6. QED
      BY <3>1, <3>2, <3>4, <3>5, WorkerIInv
  <2>3. CASE job[w].pc = "wrapRun"
    <3> DEFINE r == job[w].run
               row == [run[r] EXCEPT !.status = "FAILED", !.age = Fresh]
    <3>1. Done(w) /\ run' = [run EXCEPT ![r] = row]
      <4>1. run \in [Run -> RunRow]
        BY DEF TypeOK
      <4>2. QED
        BY <1>11, <2>3, <4>1 DEF Wrap
    <3>2. /\ job' \in [Worker -> JobState]
          /\ job'[w].pc = "idle" /\ job'[w].run = NoRun
          /\ \A v \in Worker : v # w => job'[v] = job[v]
      BY <3>1, DoneEnds
    <3>3. r \in Run
      BY <2>3 DEF JobKnows, TypeOK, JobState
    <3>4. row \in RunRow /\ row.status \in Terminal /\ row.age = Fresh
      <4>1. run[r] \in RunRow /\ "FAILED" \in Status /\ Fresh \in {Fresh, Stale, Abandoned}
        BY <3>3 DEF TypeOK, Status, Terminal
      <4>2. row \in RunRow
        BY <4>1, RunRowUpdate
      <4>3. QED
        BY <4>1, <4>2 DEF RunRow, Terminal
    <3> HIDE DEF r, row
    <3>5. /\ run' \in [Run -> RunRow]
          /\ \A x \in Run : run'[x] = run[x] \/ (run'[x].age = Fresh /\ run'[x].status \in Terminal)
      BY <3>1, <3>4 DEF TypeOK
    <3>6. UNCHANGED <<target, sub, lease, api, msg, crashes, newest, sweep, overtaken>>
      BY <1>11, <2>3 DEF Wrap
    <3>7. TypeOK'
      BY <3>2, <3>5, <3>6 DEF TypeOK
    <3>8. QED
      BY <3>2, <3>5, <3>7, WorkerIInv
  <2>4. QED
    BY <1>11, <2>1, <2>2, <2>3 DEF Wrap
<1>12. CASE Crash(w)
  <2>1. /\ job' \in [Worker -> JobState]
        /\ job'[w].pc = "idle" /\ job'[w].run = NoRun
        /\ \A v \in Worker : v # w => job'[v] = job[v]
    BY <1>12, DoneEnds DEF Crash
  <2>2. lease' \in [Sub -> LeaseRow]
    <3>1. \A s \in Sub : [lease[s] EXCEPT !.owner = Dead] \in LeaseRow
      BY DEF TypeOK, LeaseRow
    <3>2. QED
      BY <1>12, <3>1 DEF Crash, TypeOK
  <2>3. crashes' \in 0 .. MaxCrash
    BY <1>12, BoundsAssumption DEF Crash, TypeOK
  <2>4. UNCHANGED <<run, target, sub, api, msg, newest, sweep, overtaken>>
    BY <1>12 DEF Crash
  <2>5. TypeOK'
    BY <2>1, <2>2, <2>3, <2>4 DEF TypeOK
  <2>6. QED
    BY <2>1, <2>4, <2>5, WorkerIInv
<1>13. QED
  BY <1>1, <1>2, <1>3, <1>4, <1>5, <1>6, <1>7, <1>8, <1>9, <1>10, <1>11, <1>12 DEF WorkerStep

LEMMA StepIInv == JInv /\ [Next]_vars => IInv'
<1> SUFFICES ASSUME JInv, [Next]_vars
             PROVE  IInv'
  OBVIOUS
<1>1. CASE UNCHANGED vars
  BY <1>1 DEF vars, JInv, IInv, TypeOK, WorkedOn, JobKnows, OneWorkerPerRun
<1>2. CASE Next
  BY <1>2, ApiIInv, UserIInv, ClaimStepIInv, WorkerStepIInv, MaintenanceIInv DEF Next, JInv
<1>3. QED
  BY <1>1, <1>2

-----------------------------------------------------------------------------
(* The numbers of runs, and what maintenance has read.                     *)

(* Only the row of a run that is there is written, and no new request      *)
(* begins.                                                                 *)
LEMMA NumberedKept ==
    ASSUME Numbered, newest' = newest,
           \A r \in Run : /\ run'[r] = run[r] \/ run[r].status # "none"
                          /\ api[r] = "idle" => api'[r] = "idle"
    PROVE  Numbered'
  BY NoRowIs DEF Numbered

(* Nobody writes a target maintenance has locked, and of what it has read  *)
(* nothing gets old while it runs.                                         *)
LEMMA SweptKept ==
    ASSUME Swept, UNCHANGED sweep,
           \A r \in sweep.ids : /\ r <= newest => r <= newest'
                                /\ r \in sweep.locked => target'[r] = target[r]
                                /\ Unheard(r)' => Unheard(r)
    PROVE  Swept'
  BY DEF Swept

LEMMA ApiSwept ==
    ASSUME JInv, NEW r \in Run,
           \/ \E s \in Sub, type \in {"INITIAL", "MANUAL"} : Enqueue(s, r, type)
           \/ Send(r) \/ DispatchFailed(r) \/ ApiCrash(r) \/ GetOld(r) \/ Purge(r)
    PROVE  Numbered' /\ Swept'
<1>0. /\ run \in [Run -> RunRow] /\ target \in [Run -> Status] /\ sweep.ids \subseteq Run
      /\ api \in [Run -> {"idle", "send", "saveSub", "saveTarget", "saveRun"}]
      /\ newest \in Nat /\ Run \subseteq Nat
      /\ IInv /\ Numbered /\ Swept /\ sweep.locked \subseteq sweep.ids
  BY NamesAssumption DEF JInv, IInv, TypeOK, Swept
<1>1. CASE \E s \in Sub, type \in {"INITIAL", "MANUAL"} : Enqueue(s, r, type)
  <2> PICK s \in Sub, type \in {"INITIAL", "MANUAL"} : Enqueue(s, r, type)
    BY <1>1
  <2>1. r > newest /\ newest' = newest + 1 /\ r = newest'
    BY <1>0, FreeNumber
  <2>2. /\ run'[r].status = "QUEUED" /\ sweep' = sweep
        /\ \A q \in Run : q # r => run'[q] = run[q] /\ target'[q] = target[q] /\ api'[q] = api[q]
    BY <1>0 DEF Enqueue
  <2>3. Numbered'
    BY <1>0, <2>1, <2>2 DEF Numbered
  <2>4. r \notin sweep.ids /\ \A q \in sweep.ids : q <= newest'
    BY <1>0, <2>1 DEF Swept
  <2>5. Swept'
    BY <1>0, <2>2, <2>4, SweptKept DEF Unheard
  <2>6. QED
    BY <2>3, <2>5
<1>2. CASE Send(r) \/ ApiCrash(r)
  <2>1. /\ UNCHANGED <<newest, run, target, sweep>> /\ api[r] # "idle"
        /\ \A q \in Run : q # r => api'[q] = api[q]
    BY <1>0, <1>2 DEF Send, ApiCrash
  <2>2. QED
    BY <1>0, <2>1, NumberedKept, SweptKept DEF Unheard
<1>3. CASE DispatchFailed(r)
  <2>1. /\ api[r] # "idle" /\ UNCHANGED <<newest, sweep>>
        /\ \A q \in Run : q # r => run'[q] = run[q] /\ target'[q] = target[q] /\ api'[q] = api[q]
        /\ \/ run'[r] = run[r] /\ target'[r] = target[r]
           \/ r \notin sweep.locked /\ target'[r] = "FAILED"
           \/ run'[r].status = "FAILED" /\ target'[r] = target[r]
    BY <1>0, <1>3 DEF DispatchFailed, RunRow
  <2>2. Numbered'
    BY <1>0, <2>1 DEF Numbered
  <2>3. Swept'
    BY <1>0, <2>1, SweptKept DEF Unheard
  <2>4. QED
    BY <2>2, <2>3
<1>4. CASE GetOld(r) \/ Purge(r)
  <2>1. /\ run[r].status # "none" /\ r \notin sweep.ids /\ UNCHANGED <<newest, api, sweep>>
        /\ \A q \in Run : q # r => run'[q] = run[q] /\ target'[q] = target[q]
    BY <1>0, <1>4 DEF GetOld, Purge, Terminal
  <2>2. QED
    BY <1>0, <2>1, NumberedKept, SweptKept DEF Unheard
<1>5. QED
  BY <1>1, <1>2, <1>3, <1>4

LEMMA UserSwept ==
    ASSUME JInv, NEW s \in Sub,
           SetPaused(s) \/ RemoveSubscription(s) \/ DeleteUser(s) \/ ExpireLease(s) \/ CoolDown(s)
    PROVE  Numbered' /\ Swept'
<1>0. run \in [Run -> RunRow] /\ sweep.ids \subseteq Run /\ Numbered /\ Swept
  BY DEF JInv, IInv, TypeOK
<1>1. UNCHANGED <<newest, api, target, sweep>>
  BY DEF SetPaused, RemoveSubscription, DeleteUser, ExpireLease, CoolDown
<1>2. \A r \in Run : /\ run'[r] = run[r] \/ run[r].status # "none" \/ run[r].sub = s
                     /\ run'[r].status = run[r].status /\ run'[r].age = run[r].age
  <2>1. CASE DeleteUser(s)
    BY <1>0, <2>1 DEF DeleteUser, RunRow
  <2>2. CASE SetPaused(s) \/ RemoveSubscription(s) \/ ExpireLease(s) \/ CoolDown(s)
    BY <2>2 DEF SetPaused, RemoveSubscription, ExpireLease, CoolDown
  <2>3. QED
    BY <2>1, <2>2
<1>3. \A r \in Run : r > newest => run[r].sub # s /\ run[r].status = "none"
  BY <1>0, NamesAssumption DEF Numbered, NoRow
<1>4. Numbered'
  BY <1>0, <1>1, <1>2, <1>3 DEF Numbered
<1>5. Swept'
  BY <1>0, <1>1, <1>2, SweptKept DEF Unheard
<1>6. QED
  BY <1>4, <1>5

LEMMA ClaimSwept ==
    ASSUME JInv, NEW w \in Worker, NEW r \in Run, Deliver(w, r) \/ Recover(w, r)
    PROVE  Numbered' /\ Swept'
<1>0. /\ run \in [Run -> RunRow] /\ target \in [Run -> Status] /\ sweep.ids \subseteq Run
      /\ Numbered /\ Swept /\ sweep.locked \subseteq sweep.ids
      /\ UNCHANGED <<newest, api, sweep>>
  BY DEF JInv, IInv, TypeOK, Swept, Deliver, Recover
<1>1. CASE Claimable(r) /\ r \notin sweep.locked
  <2>1. PICK q \in BOOLEAN : Claim(w, r, q)
    BY <1>1 DEF Deliver, Recover
  <2>2. /\ run[r].status # "none" /\ run'[r].age = Fresh
        /\ \A x \in Run : x # r => run'[x] = run[x] /\ target'[x] = target[x]
    BY <1>0, <1>1, <2>1 DEF Claim, Claimable, RunRow
  <2>3. QED
    BY <1>0, <1>1, <2>2, NumberedKept, SweptKept DEF Unheard, Fresh, Abandoned
<1>2. CASE ~ (Claimable(r) /\ r \notin sweep.locked)
  <2>1. UNCHANGED <<run, target>>
    BY <1>2 DEF Deliver, Recover
  <2>2. QED
    BY <1>0, <2>1, NumberedKept, SweptKept DEF Unheard
<1>3. QED
  BY <1>1, <1>2

(* A worker writes the rows of its run alone, and not a locked target; a   *)
(* run it works on has a heartbeat.                                        *)
LEMMA WorkerSwept ==
    ASSUME JInv, NEW w \in Worker,
           WorkerStep(w) \/ Renew(w) \/ Crash(w) \/ \E s \in Sub : StartScheduled(w, s)
    PROVE  Numbered' /\ Swept'
<1> DEFINE r == job[w].run
<1>0. /\ run \in [Run -> RunRow] /\ target \in [Run -> Status] /\ sweep.ids \subseteq Run
      /\ r \in Run \cup {NoRun}
      /\ r # NoRun => run[r].status # "none" /\ (run[r].status = "RUNNING" => run[r].age = Fresh)
      /\ job[w].pc = "wrapTarget" \/ job[w].pc = "wrapRun" => r # NoRun
      /\ Numbered /\ Swept /\ sweep.locked \subseteq sweep.ids
  BY DEF JInv, IInv, TypeOK, JobState, WorkedOn, JobKnows, Swept, Terminal
<1>1. UNCHANGED <<newest, api, sweep>>
  BY DEF WorkerStep, Renew, Crash, StartScheduled, Check, Acquire, Begin, EndSync, SaveSub,
         SaveTarget, SaveRun, Release, Wrap
<1>2. \/ UNCHANGED <<run, target>>
      \/ /\ r \in Run
         /\ \A q \in Run : q # r => run'[q] = run[q] /\ target'[q] = target[q]
         /\ \/ r \notin sweep.locked /\ run' = run
            \/ target' = target /\ run'[r].age = Fresh
  <2>1. CASE Check(w)
    BY <1>0, <2>1 DEF Check
  <2>2. CASE Acquire(w) \/ Begin(w) \/ SaveSub(w) \/ Release(w) \/ Crash(w)
             \/ \E s \in Sub : StartScheduled(w, s)
    BY <2>2 DEF Acquire, Begin, SaveSub, Release, Crash, StartScheduled
  <2>3. CASE Renew(w) \/ EndSync(w)
    <3>1. target' = target /\ (Beat(w) \/ run' = run)
      BY <2>3 DEF Renew, EndSync
    <3>2. QED
      BY <1>0, <3>1 DEF Beat, RunRow
  <2>4. CASE SaveTarget(w)
    BY <1>0, <2>4 DEF SaveTarget
  <2>5. CASE SaveRun(w)
    BY <1>0, <2>5 DEF SaveRun, RunRow
  <2>6. CASE Wrap(w)
    BY <1>0, <2>6 DEF Wrap, RunRow
  <2>7. QED
    BY <2>1, <2>2, <2>3, <2>4, <2>5, <2>6 DEF WorkerStep
<1>3. CASE UNCHANGED <<run, target>>
  BY <1>0, <1>1, <1>3, NumberedKept, SweptKept DEF Unheard
<1>4. CASE /\ r \in Run
           /\ \A q \in Run : q # r => run'[q] = run[q] /\ target'[q] = target[q]
           /\ \/ r \notin sweep.locked /\ run' = run
              \/ target' = target /\ run'[r].age = Fresh
  <2>1. r # NoRun
    BY <1>4, NamesAssumption
  <2>2. r \in sweep.locked => target'[r] = target[r]
    BY <1>4
  <2>3. run'[r].status = "RUNNING" /\ target'[r] = "RUNNING" => run'[r].age = Fresh
    BY <1>0, <1>4, <2>1
  <2> HIDE DEF r
  <2>4. Numbered'
    BY <1>0, <1>1, <1>4, <2>1, NumberedKept
  <2>5. Swept'
    <3>1. \A q \in Run : Unheard(q)' => Unheard(q)
      <4> SUFFICES ASSUME NEW q \in Run PROVE Unheard(q)' => Unheard(q)
        OBVIOUS
      <4>1. CASE q = r
        BY <2>3, <4>1 DEF Unheard, Fresh, Abandoned
      <4>2. CASE q # r
        BY <1>4, <4>2 DEF Unheard
      <4>3. QED
        BY <4>1, <4>2
    <3>2. \A q \in sweep.ids : q \in sweep.locked => target'[q] = target[q]
      BY <1>0, <1>4, <2>2
    <3>3. QED
      BY <1>0, <1>1, <3>1, <3>2, SweptKept
  <2>6. QED
    BY <2>4, <2>5
<1>5. QED
  BY <1>2, <1>3, <1>4

LEMMA MaintenanceSwept ==
    ASSUME JInv, Maintenance
    PROVE  Numbered' /\ Swept'
<1>0. /\ run \in [Run -> RunRow] /\ target \in [Run -> Status] /\ newest \in Nat
      /\ Run \subseteq Nat /\ Numbered /\ Swept
      /\ sweep \in [at : {"idle", "targets", "runs"}, ids : SUBSET Run, locked : SUBSET Run]
      /\ UNCHANGED <<newest, api>>
  BY NamesAssumption
     DEF JInv, IInv, TypeOK, Maintenance, FindStale, FailTargets, FailRuns, AbortMaintenance
<1>1. CASE FindStale
  <2>1. /\ UNCHANGED <<run, target>> /\ sweep'.at = "targets" /\ sweep'.locked = {}
        /\ \A r \in sweep'.ids : r \in Run /\ run[r].status = "RUNNING"
    BY <1>1 DEF FindStale
  <2>2. \A r \in sweep'.ids : r <= newest
    <3>1. \A r \in Run : r > newest => run[r].status = "none"
      BY <1>0, NoRowIs DEF Numbered
    <3>2. \A r \in Run : ~ (r > newest) => r <= newest
      BY <1>0
    <3>3. QED
      BY <2>1, <3>1, <3>2
  <2>3. QED
    BY <1>0, <2>1, <2>2, NumberedKept DEF Swept
<1>2. CASE FailTargets
  <2>1. /\ UNCHANGED <<run, target>> /\ sweep'.at = "runs" /\ sweep'.ids = sweep.ids
        /\ sweep'.locked = {r \in sweep.ids : target[r] = "RUNNING"}
    BY <1>0, <1>2 DEF FailTargets
  <2>2. QED
    BY <1>0, <2>1, NumberedKept DEF Swept, Unheard
<1>3. CASE FailRuns \/ AbortMaintenance
  <2>1. /\ sweep' = NoSweep
        /\ \A r \in Run : run'[r] = run[r] \/ run[r].status # "none"
    BY <1>0, <1>3 DEF FailRuns, AbortMaintenance
  <2>2. QED
    BY <1>0, <2>1, NumberedKept DEF Swept, NoSweep
<1>4. QED
  BY <1>1, <1>2, <1>3 DEF Maintenance

LEMMA StepJInv == JInv /\ [Next]_vars => JInv'
<1> SUFFICES ASSUME JInv, [Next]_vars
             PROVE  Numbered' /\ Swept'
  BY StepIInv DEF JInv
<1>1. CASE UNCHANGED vars
  BY <1>1 DEF vars, JInv, Numbered, Swept, Unheard
<1>2. CASE Next
  BY <1>2, ApiSwept, UserSwept, ClaimSwept, WorkerSwept, MaintenanceSwept DEF Next
<1>3. QED
  BY <1>1, <1>2

LEMMA InitJInv == Init => JInv
<1> SUFFICES ASSUME Init
             PROVE  Numbered /\ Swept
  BY InitIInv DEF JInv
<1>1. newest \in Nat /\ Run \subseteq Nat /\ \A r \in Run : api[r] = "idle"
  BY BoundsAssumption, NamesAssumption DEF Init
<1>2. Numbered
  BY <1>1, InitRows DEF Numbered
<1>3. Swept
  BY DEF Init, Swept, NoSweep
<1>4. QED
  BY <1>2, <1>3

(* The invariant holds in every reachable state, for any number of runs,   *)
(* subscriptions and workers, any SendOutcomes, with and without users     *)
(* that pause and remove what is being synced.                             *)
THEOREM JobInvariant == Spec => []JInv
  BY InitJInv, StepJInv, PTL DEF Spec

(* TypeOK of SyncJob.                                                      *)
THEOREM JobTypeOK == Spec => []TypeOK
  BY JobInvariant, PTL DEF JInv, IInv

(* claimSyncRun is atomic: no duplicate delivery, redelivery or recovery   *)
(* ever puts two workers on one run.                                       *)
THEOREM JobOneWorkerPerRun == Spec => []OneWorkerPerRun
  BY JobInvariant, PTL DEF JInv, IInv

-----------------------------------------------------------------------------
(* Every step is one of the store's, or leaves runs and targets alone.     *)

StoreStep == Store!Next \/ UNCHANGED <<run, target, sweep.ids>>

LEMMA ApiStores ==
    ASSUME IInv, Numbered, NEW r \in Run,
           \/ \E s \in Sub, type \in {"INITIAL", "MANUAL"} : Enqueue(s, r, type)
           \/ Send(r) \/ DispatchFailed(r) \/ ApiCrash(r)
    PROVE  StoreStep
<1>0. UNCHANGED sweep
  BY DEF Enqueue, Send, DispatchFailed, ApiCrash
<1>1. CASE \E s \in Sub, type \in {"INITIAL", "MANUAL"} : Enqueue(s, r, type)
  <2> PICK s \in Sub, type \in {"INITIAL", "MANUAL"} : Enqueue(s, r, type)
    BY <1>1
  <2>1. ~ Store!Busy(s)
    BY DEF Enqueue, ActiveFor, Active, Store!Busy
  <2>2. Store!Enqueue(r, s, type)
    BY <2>1, FreeNumber DEF Enqueue, Store!Enqueue, NoRow, Store!NoRow, Fresh
  <2>3. QED
    BY <1>0, <2>2 DEF StoreStep, Store!Next, Store!Row
<1>2. CASE Send(r) \/ ApiCrash(r)
  BY <1>0, <1>2 DEF Send, ApiCrash, StoreStep
<1>3. CASE DispatchFailed(r)
  <2>1. CASE api[r] = "saveSub"
    BY <1>0, <1>3, <2>1 DEF DispatchFailed, StoreStep
  <2>2. CASE api[r] = "saveTarget"
    <3>1. Store!FinishTarget(r)
      BY <1>3, <2>2 DEF DispatchFailed, Store!FinishTarget, Store!Outcome
    <3>2. QED
      BY <1>0, <3>1 DEF StoreStep, Store!Next, Store!Row
  <2>3. CASE api[r] = "saveRun"
    <3>1. Store!FinishRun(r)
      BY <1>3, <2>3 DEF DispatchFailed, Store!FinishRun, Store!Outcome, Fresh
    <3>2. QED
      BY <1>0, <3>1 DEF StoreStep, Store!Next, Store!Row
  <2>4. QED
    BY <1>3, <2>1, <2>2, <2>3 DEF DispatchFailed
<1>4. QED
  BY <1>1, <1>2, <1>3

LEMMA UserStores ==
    ASSUME NEW s \in Sub,
           SetPaused(s) \/ RemoveSubscription(s) \/ DeleteUser(s) \/ ExpireLease(s) \/ CoolDown(s)
    PROVE  StoreStep
<1>0. UNCHANGED sweep
  BY DEF SetPaused, RemoveSubscription, DeleteUser, ExpireLease, CoolDown
<1>1. CASE SetPaused(s) \/ RemoveSubscription(s) \/ ExpireLease(s) \/ CoolDown(s)
  BY <1>0, <1>1 DEF SetPaused, RemoveSubscription, ExpireLease, CoolDown, StoreStep
<1>2. CASE DeleteUser(s)
  <2>1. Store!LoseRequester(s)
    BY <1>2 DEF DeleteUser, Store!LoseRequester
  <2>2. QED
    BY <1>0, <2>1 DEF StoreStep, Store!Next, Store!Row
<1>3. QED
  BY <1>1, <1>2

(* The last step of maintenance fails what it has read; a target it does   *)
(* not write is not RUNNING or its run was claimed meanwhile.              *)
LEMMA MaintenanceStores ==
    ASSUME JInv, Maintenance \/ \E r \in Run : GetOld(r) \/ Purge(r)
    PROVE  StoreStep
<1>0. /\ run \in [Run -> RunRow] /\ target \in [Run -> Status] /\ Swept
      /\ sweep \in [at : {"idle", "targets", "runs"}, ids : SUBSET Run, locked : SUBSET Run]
  BY DEF JInv, IInv, TypeOK
<1>1. CASE FindStale
  <2>1. Store!List
    BY <1>0, <1>1 DEF FindStale, Swept, Store!List, Store!Lost, Abandoned
  <2>2. QED
    BY <2>1 DEF StoreStep, Store!Next
<1>2. CASE FailTargets
  BY <1>0, <1>2 DEF FailTargets, StoreStep
<1>3. CASE FailRuns
  <2>1. /\ sweep.locked \subseteq {r \in sweep.ids : target[r] = "RUNNING"}
        /\ {r \in sweep.ids : target[r] = "RUNNING"} \cap Store!Lost \subseteq sweep.locked
    BY <1>0, <1>3 DEF Swept, FailRuns, Unheard, Store!Lost, Abandoned
  <2>2. run' = [r \in Run |-> IF r \in sweep.ids /\ run[r].status = "RUNNING"
                                THEN [run[r] EXCEPT !.status = "FAILED"] ELSE run[r]]
    BY <1>3 DEF FailRuns
  <2>3. target' = [r \in Run |-> IF r \in sweep.locked THEN "FAILED" ELSE target[r]]
        /\ sweep'.ids = {}
    BY <1>3 DEF FailRuns, NoSweep
  <2>4. Store!FailListed
    BY <2>1, <2>2, <2>3 DEF Store!FailListed
  <2>5. QED
    BY <2>4 DEF StoreStep, Store!Next
<1>4. CASE AbortMaintenance
  <2>1. Store!Drop
    BY <1>4 DEF AbortMaintenance, NoSweep, Store!Drop
  <2>2. QED
    BY <2>1 DEF StoreStep, Store!Next
<1>5. CASE \E r \in Run : GetOld(r)
  <2> PICK r \in Run : GetOld(r)
    BY <1>5
  <2>1. run[r].age \in {Fresh, Stale, Abandoned} /\ UNCHANGED sweep
    BY <1>0 DEF RunRow, GetOld
  <2>2. Store!GrowOld(r)
    BY <2>1 DEF GetOld, Store!GrowOld, Fresh, Stale, Abandoned
  <2>3. QED
    BY <2>1, <2>2 DEF StoreStep, Store!Next, Store!Row
<1>6. CASE \E r \in Run : Purge(r)
  <2> PICK r \in Run : Purge(r)
    BY <1>6
  <2>1. Store!Expire(r) /\ UNCHANGED sweep
    BY DEF Purge, Store!Expire, Store!Outcome, Terminal, NoRow, Store!NoRow, Fresh
  <2>2. QED
    BY <2>1 DEF StoreStep, Store!Next, Store!Row
<1>7. QED
  BY <1>1, <1>2, <1>3, <1>4, <1>5, <1>6 DEF Maintenance

LEMMA ClaimStores ==
    ASSUME NEW w \in Worker, NEW r \in Run, Deliver(w, r) \/ Recover(w, r)
    PROVE  StoreStep
<1>0. UNCHANGED sweep
  BY DEF Deliver, Recover
<1>1. CASE Claimable(r) /\ r \notin sweep.locked
  <2>1. \E q \in BOOLEAN : Claim(w, r, q)
    BY <1>1 DEF Deliver, Recover
  <2>2. Store!Claim(r)
    BY <1>1, <2>1 DEF Claim, Claimable, Store!Claim, Store!Recoverable, Fresh
  <2>3. QED
    BY <1>0, <2>2 DEF StoreStep, Store!Next, Store!Row
<1>2. CASE ~ (Claimable(r) /\ r \notin sweep.locked)
  BY <1>0, <1>2 DEF Deliver, Recover, StoreStep
<1>3. QED
  BY <1>1, <1>2

LEMMA BeatStores ==
    ASSUME IInv, NEW w \in Worker, Beat(w), UNCHANGED <<target, sweep>>
    PROVE  StoreStep
<1>1. job[w].run \in Run \cup {NoRun}
  BY DEF IInv, TypeOK, JobState
<1>2. CASE job[w].run # NoRun /\ run[job[w].run].status = "RUNNING"
  <2>1. Store!Heartbeat(job[w].run)
    BY <1>2 DEF Beat, Store!Heartbeat, Fresh
  <2>2. QED
    BY <1>1, <1>2, <2>1 DEF StoreStep, Store!Next, Store!Row
<1>3. QED
  BY <1>2 DEF Beat, StoreStep

(* The writes of a worker that go by the key of its run.                   *)
LEMMA WorkerStores ==
    ASSUME IInv, NEW w \in Worker, WorkerStep(w) \/ Renew(w) \/ Crash(w)
    PROVE  StoreStep
<1>1. job[w].run \in Run \cup {NoRun} /\ UNCHANGED sweep
  BY DEF IInv, TypeOK, JobState, WorkerStep, Renew, Crash, Check, Acquire, Begin, EndSync,
         SaveSub, SaveTarget, SaveRun, Release, Wrap
<1>2. CASE Check(w)
  <2>1. UNCHANGED run /\ (UNCHANGED target \/ (job[w].run # NoRun /\ Store!StartTarget(job[w].run)))
    BY <1>2 DEF Check, Store!StartTarget
  <2>2. QED
    BY <1>1, <2>1 DEF StoreStep, Store!Next, Store!Row
<1>3. CASE Acquire(w) \/ Begin(w) \/ SaveSub(w) \/ Release(w) \/ Crash(w)
  BY <1>1, <1>3 DEF Acquire, Begin, SaveSub, Release, Crash, StoreStep
<1>4. CASE EndSync(w) \/ Renew(w)
  <2>1. UNCHANGED target /\ (Beat(w) \/ UNCHANGED run)
    BY <1>4 DEF EndSync, Renew
  <2>2. QED
    BY <1>1, <2>1, BeatStores DEF StoreStep
<1>5. CASE SaveTarget(w)
  <2>1. job[w].res \in Store!Outcome
    BY <1>5 DEF SaveTarget, IInv, JobKnows, Terminal, Store!Outcome
  <2>2. UNCHANGED <<run, target>> \/ (job[w].run # NoRun /\ Store!FinishTarget(job[w].run))
    BY <1>5, <2>1 DEF SaveTarget, Store!FinishTarget
  <2>3. QED
    BY <1>1, <2>2 DEF StoreStep, Store!Next, Store!Row
<1>6. CASE SaveRun(w)
  <2>1. job[w].res \in Store!Outcome
    BY <1>6 DEF SaveRun, IInv, JobKnows, Terminal, Store!Outcome
  <2>2. UNCHANGED <<run, target>> \/ (job[w].run # NoRun /\ Store!FinishRun(job[w].run))
    BY <1>6, <2>1 DEF SaveRun, Store!FinishRun, Fresh
  <2>3. QED
    BY <1>1, <2>2 DEF StoreStep, Store!Next, Store!Row
<1>7. CASE Wrap(w)
  <2>1. CASE job[w].pc = "wrap"
    BY <1>1, <1>7, <2>1 DEF Wrap, StoreStep
  <2>2. CASE job[w].pc = "wrapTarget"
    <3>1. job[w].run # NoRun /\ Store!FinishTarget(job[w].run)
      BY <1>7, <2>2 DEF Wrap, IInv, JobKnows, Store!FinishTarget, Store!Outcome
    <3>2. QED
      BY <1>1, <3>1 DEF StoreStep, Store!Next, Store!Row
  <2>3. CASE job[w].pc = "wrapRun"
    <3>1. job[w].run # NoRun /\ Store!FinishRun(job[w].run)
      BY <1>7, <2>3 DEF Wrap, IInv, JobKnows, Store!FinishRun, Store!Outcome, Fresh
    <3>2. QED
      BY <1>1, <3>1 DEF StoreStep, Store!Next, Store!Row
  <2>4. QED
    BY <1>7, <2>1, <2>2, <2>3 DEF Wrap
<1>8. QED
  BY <1>2, <1>3, <1>4, <1>5, <1>6, <1>7 DEF WorkerStep

(* Queueing, claims, heartbeats, the writes of outcomes, maintenance and   *)
(* the deletion of a user, in any interleaving with dead processes, change *)
(* runs and targets by operations of the store alone.                      *)
THEOREM JobImplementsStore == Spec => ImplementsJobStore
<1>1. Init => Store!Init
  <2> SUFFICES ASSUME Init PROVE Store!Init
    OBVIOUS
  <2>1. PICK owner \in [1 .. Left -> Deleted] :
           run = [r \in Run |-> IF r <= Left THEN Orphan(owner[r]) ELSE NoRow]
    BY DEF Init
  <2> DEFINE all == [r \in Run |-> IF r <= Left THEN owner[r] ELSE NoSub]
  <2>2. \A r \in Run : r <= Left => owner[r] \in Sub /\ owner[r] # NoSub
    <3>1. \A r \in Run : r <= Left => r \in 1 .. Left
      BY NamesAssumption, BoundsAssumption
    <3>2. QED
      BY <3>1, NamesAssumption
  <2>3. all \in [Run -> Sub \cup {NoSub}]
    BY <2>2
  <2>4. run = [r \in Run |-> IF all[r] = NoSub THEN Store!NoRow
                              ELSE [status |-> "QUEUED", type |-> "MANUAL", sub |-> all[r],
                                    asked |-> FALSE, age |-> 0]]
    BY <2>1, <2>2 DEF Orphan, NoRow, Store!NoRow, Fresh
  <2>5. target = [r \in Run |-> IF all[r] = NoSub THEN "none" ELSE "QUEUED"]
    BY <2>2 DEF Init
  <2>6. sweep.ids = {}
    BY DEF Init, NoSweep
  <2> HIDE DEF all
  <2>7. QED
    BY <2>3, <2>4, <2>5, <2>6 DEF Store!Init
<1>2. JInv /\ [Next]_vars => [Store!Next]_<<run, target, sweep.ids>>
  <2> SUFFICES ASSUME JInv, [Next]_vars PROVE StoreStep
    BY DEF StoreStep
  <2>1. CASE UNCHANGED vars
    BY <2>1 DEF vars, StoreStep
  <2>2. CASE \E w \in Worker, s \in Sub : StartScheduled(w, s)
    BY <2>2 DEF StartScheduled, StoreStep
  <2>3. CASE Next
    BY <2>2, <2>3, ApiStores, UserStores, MaintenanceStores, ClaimStores, WorkerStores
       DEF Next, JInv
  <2>4. QED
    BY <2>1, <2>3
<1>3. QED
  BY <1>1, <1>2, JobInvariant, PTL DEF Spec, ImplementsJobStore, Store!Spec

-----------------------------------------------------------------------------
(* Who writes to a subscription.                                           *)

(* Where a worker writes to its subscription, or is about to, the lease is *)
(* its own and live. Every run that can be claimed is for a subscription.  *)
Mine(w) == [owner |-> w, live |-> TRUE]
Working == {"begin", "sync", "saveSub"}

Held == \A w \in Worker :
            /\ job[w].pc # "idle" => job[w].sub \in Sub
            /\ job[w].pc \in Working => lease[job[w].sub] = Mine(w)

RunsHaveSub == \A r \in Run :
            /\ run[r].status # "none" => run[r].sub \in Sub
            /\ api[r] # "idle" => run[r].status # "none"

HInv == Held /\ RunsHaveSub

(* A step of one worker may take a lease only from nobody, and give up no  *)
(* lease but its own.                                                      *)
LEMMA HeldByOthers ==
    ASSUME IInv, Held, NEW w \in Worker,
           \A v \in Worker : v # w => job'[v] = job[v],
           job'[w].pc # "idle" => job'[w].sub \in Sub,
           job'[w].pc \in Working => lease'[job'[w].sub] = Mine(w),
           \A s \in Sub : \/ lease'[s] = lease[s]
                          \/ ~ lease[s].live
                          \/ lease[s].owner = w
    PROVE  Held'
<1> SUFFICES ASSUME NEW v \in Worker
             PROVE  /\ job'[v].pc # "idle" => job'[v].sub \in Sub
                    /\ job'[v].pc \in Working => lease'[job'[v].sub] = Mine(v)
  BY DEF Held, Mine, Working
<1>1. CASE v = w
  BY <1>1
<1>2. CASE v # w
  <2>1. job'[v] = job[v]
    BY <1>2
  <2>2. CASE job[v].pc \in Working
    <3>1. job[v].sub \in Sub /\ lease[job[v].sub] = Mine(v)
      BY <2>2 DEF Held, Working
    <3>2. lease[job[v].sub].live /\ lease[job[v].sub].owner = v
      BY <3>1 DEF Mine
    <3>3. QED
      BY <1>2, <2>1, <3>1, <3>2
  <2>3. QED
    BY <2>1, <2>2 DEF Held
<1>3. QED
  BY <1>1, <1>2

(* The moves of a worker keep its subscription.                            *)
LEMMA GotoHeld ==
    ASSUME IInv, Held, NEW w \in Worker, NEW p \in Place, job[w].pc # "idle",
           Goto(w, p) \/ \E res \in Terminal : Result(w, p, res),
           p \in Working => lease'[job[w].sub] = Mine(w),
           \A s \in Sub : \/ lease'[s] = lease[s]
                          \/ ~ lease[s].live
                          \/ lease[s].owner = w
    PROVE  Held'
<1>1. /\ \A v \in Worker : v # w => job'[v] = job[v]
      /\ job'[w].pc = p /\ job'[w].sub = job[w].sub
  BY DEF Goto, Result, IInv, TypeOK, JobState
<1>2. job[w].sub \in Sub
  BY DEF Held
<1>3. QED
  BY <1>1, <1>2, HeldByOthers

(* Runs keep their subscription; queueing gives them one.                  *)
LEMMA RunsKept ==
    ASSUME RunsHaveSub,
           \A r \in Run :
               \/ run'[r].sub \in Sub /\ run'[r].status # "none"
               \/ /\ run'[r].sub = run[r].sub
                  /\ run'[r].status # "none" <=> run[r].status # "none"
                  /\ api'[r] \in {api[r], "idle"} \/ (api[r] # "idle" /\ api'[r] # "idle")
               \/ run'[r].status = "none" /\ api'[r] = "idle"
    PROVE  RunsHaveSub'
  BY DEF RunsHaveSub

LEMMA OutsideHeld ==
    ASSUME IInv, HInv, UNCHANGED job, RunsHaveSub',
           \A s \in Sub : lease'[s] = lease[s] \/ lease[s].owner \notin Worker
    PROVE  HInv'
<1>1. Held'
  <2> SUFFICES ASSUME NEW w \in Worker, job[w].pc \in Working
               PROVE  lease'[job[w].sub] = Mine(w)
    BY DEF HInv, Held, Mine, Working
  <2>1. job[w].sub \in Sub /\ lease[job[w].sub] = Mine(w)
    BY DEF HInv, Held, Working
  <2>2. lease[job[w].sub].owner = w
    BY <2>1 DEF Mine
  <2>3. QED
    BY <2>1, <2>2
<1>2. QED
  BY <1>1 DEF HInv

LEMMA ApiHeld ==
    ASSUME IInv, HInv, NEW r \in Run,
           \/ \E s \in Sub, type \in {"INITIAL", "MANUAL"} : Enqueue(s, r, type)
           \/ Send(r) \/ DispatchFailed(r) \/ ApiCrash(r) \/ GetOld(r) \/ Purge(r)
    PROVE  HInv'
<1>1. UNCHANGED <<job, lease>>
  BY DEF Enqueue, Send, DispatchFailed, ApiCrash, GetOld, Purge
<1>2. run \in [Run -> RunRow] /\ RunsHaveSub
      /\ api \in [Run -> {"idle", "send", "saveSub", "saveTarget", "saveRun"}]
  BY DEF IInv, TypeOK, HInv
<1>3. CASE \E s \in Sub, type \in {"INITIAL", "MANUAL"} : Enqueue(s, r, type)
  <2>1. /\ run'[r].sub \in Sub /\ run'[r].status # "none"
        /\ \A q \in Run : q # r => run'[q] = run[q] /\ api'[q] = api[q]
    BY <1>2, <1>3 DEF Enqueue
  <2>2. RunsHaveSub'
    BY <1>2, <2>1, RunsKept
  <2>3. QED
    BY <1>1, <2>2, OutsideHeld
<1>4. CASE Send(r) \/ ApiCrash(r)
  <2>1. UNCHANGED run /\ api[r] # "idle" /\ (\A q \in Run : q # r => api'[q] = api[q])
    BY <1>2, <1>4 DEF Send, ApiCrash
  <2>2. RunsHaveSub'
    BY <1>2, <2>1 DEF RunsHaveSub
  <2>3. QED
    BY <1>1, <2>2, OutsideHeld
<1>5. CASE DispatchFailed(r)
  <2>1. /\ api[r] # "idle" /\ (\A q \in Run : q # r => api'[q] = api[q] /\ run'[q] = run[q])
        /\ run'[r].sub = run[r].sub
        /\ run'[r].status \in {run[r].status, "FAILED"}
    BY <1>2, <1>5 DEF DispatchFailed, RunRow
  <2>2. run[r].status # "none" /\ run'[r].status # "none"
    BY <1>2, <2>1 DEF RunsHaveSub
  <2>3. RunsHaveSub'
    BY <1>2, <2>1, <2>2 DEF RunsHaveSub
  <2>4. QED
    BY <1>1, <2>3, OutsideHeld
<1>6. CASE GetOld(r)
  <2>1. /\ \A q \in Run : run'[q].sub = run[q].sub /\ run'[q].status = run[q].status
        /\ api' = api
    BY <1>2, <1>6 DEF GetOld, RunRow
  <2>2. RunsHaveSub'
    BY <1>2, <2>1 DEF RunsHaveSub
  <2>3. QED
    BY <1>1, <2>2, OutsideHeld
<1>7. CASE Purge(r)
  <2>1. /\ run'[r].status = "none" /\ api[r] = "idle" /\ api' = api
        /\ \A q \in Run : q # r => run'[q] = run[q]
    BY <1>2, <1>7 DEF Purge, NoRow
  <2>2. RunsHaveSub'
    BY <1>2, <2>1 DEF RunsHaveSub
  <2>3. QED
    BY <1>1, <2>2, OutsideHeld
<1>8. QED
  BY <1>3, <1>4, <1>5, <1>6, <1>7

LEMMA UserHeld ==
    ASSUME IInv, HInv,
           \/ Maintenance
           \/ \E s \in Sub : \/ SetPaused(s) \/ RemoveSubscription(s) \/ DeleteUser(s)
                             \/ ExpireLease(s) \/ CoolDown(s)
    PROVE  HInv'
<1>1. run \in [Run -> RunRow] /\ lease \in [Sub -> LeaseRow] /\ RunsHaveSub
  BY DEF IInv, TypeOK, HInv
<1>2. UNCHANGED <<job, api>>
  BY DEF Maintenance, FindStale, FailTargets, FailRuns, AbortMaintenance, SetPaused,
         RemoveSubscription, DeleteUser, ExpireLease, CoolDown
<1>3. \A s \in Sub : lease'[s] = lease[s] \/ lease[s].owner \notin Worker
  BY <1>1 DEF Maintenance, FindStale, FailTargets, FailRuns, AbortMaintenance, SetPaused,
              RemoveSubscription, DeleteUser, ExpireLease, CoolDown
<1>4. \A r \in Run : /\ run'[r].sub = run[r].sub
                     /\ run'[r].status = "none" <=> run[r].status = "none"
  <2>1. CASE Maintenance
    BY <1>1, <2>1
       DEF Maintenance, FindStale, FailTargets, FailRuns, AbortMaintenance, RunRow
  <2>2. CASE \E s \in Sub : DeleteUser(s)
    BY <1>1, <2>2 DEF DeleteUser, RunRow
  <2>3. CASE \E s \in Sub : SetPaused(s) \/ RemoveSubscription(s) \/ ExpireLease(s) \/ CoolDown(s)
    BY <2>3 DEF SetPaused, RemoveSubscription, ExpireLease, CoolDown
  <2>4. QED
    BY <2>1, <2>2, <2>3
<1>5. RunsHaveSub'
  BY <1>1, <1>2, <1>4 DEF RunsHaveSub
<1>6. QED
  BY <1>2, <1>3, <1>5, OutsideHeld

(* Workers write to runs they work on, which are there.                    *)
LEMMA WorkerRuns ==
    ASSUME IInv, HInv, NEW w \in Worker,
           \/ WorkerStep(w) \/ Renew(w) \/ Crash(w) \/ \E s \in Sub : StartScheduled(w, s)
    PROVE  RunsHaveSub'
<1>1. /\ run \in [Run -> RunRow] /\ RunsHaveSub
      /\ job[w].run \in Run \cup {NoRun} /\ job[w].run # NoRun => run[job[w].run].status # "none"
      /\ job[w].pc \in {"saveSub", "saveTarget", "saveRun"} => job[w].res # "none"
      /\ job[w].pc = "wrapRun" => job[w].run # NoRun
  BY DEF IInv, TypeOK, HInv, JobState, WorkedOn, JobKnows, Terminal
<1>2. api' = api
  BY DEF WorkerStep, Renew, Crash, StartScheduled, Check, Acquire, Begin, EndSync, SaveSub,
         SaveTarget, SaveRun, Release, Wrap
<1>3. \A r \in Run : /\ run'[r].sub = run[r].sub
                     /\ run'[r].status = "none" <=> run[r].status = "none"
  <2>1. CASE SaveRun(w)
    BY <1>1, <2>1 DEF SaveRun, RunRow
  <2>2. CASE Wrap(w)
    BY <1>1, <2>2 DEF Wrap, RunRow
  <2>3. CASE EndSync(w) \/ Renew(w)
    <3>1. Beat(w) \/ run' = run
      BY <2>3 DEF EndSync, Renew
    <3>2. QED
      BY <1>1, <3>1 DEF Beat, RunRow
  <2>4. CASE Check(w) \/ Acquire(w) \/ Begin(w) \/ SaveSub(w) \/ SaveTarget(w) \/ Release(w)
             \/ Crash(w) \/ \E s \in Sub : StartScheduled(w, s)
    BY <2>4 DEF Check, Acquire, Begin, SaveSub, SaveTarget, Release, Crash, StartScheduled
  <2>5. QED
    BY <2>1, <2>2, <2>3, <2>4 DEF WorkerStep
<1>4. QED
  BY <1>1, <1>2, <1>3 DEF RunsHaveSub

LEMMA ClaimHeld ==
    ASSUME IInv, HInv, NEW w \in Worker, NEW r \in Run, Deliver(w, r) \/ Recover(w, r)
    PROVE  HInv'
<1>1. run \in [Run -> RunRow] /\ job \in [Worker -> JobState] /\ RunsHaveSub /\ Held
      /\ job[w].pc = "idle" /\ UNCHANGED <<lease, api>>
  BY DEF IInv, TypeOK, HInv, Deliver, Recover
<1>2. CASE Claimable(r) /\ r \notin sweep.locked
  <2>1. PICK q \in BOOLEAN : Claim(w, r, q)
    BY <1>2 DEF Deliver, Recover
  <2>2. run[r].sub \in Sub /\ run[r].status # "none"
    BY <1>1, <1>2 DEF Claimable, RunsHaveSub
  <2>3. \A x \in Run : /\ run'[x].sub = run[x].sub
                       /\ run'[x].status = "none" <=> run[x].status = "none"
    BY <1>1, <2>1, <2>2 DEF Claim, RunRow
  <2>4. RunsHaveSub'
    BY <1>1, <2>3 DEF RunsHaveSub
  <2>5. /\ \A v \in Worker : v # w => job'[v] = job[v]
        /\ job'[w].pc \in {"idle", "check"} /\ (job'[w].pc = "check" => job'[w].sub \in Sub)
    BY <1>1, <2>1, <2>2 DEF Claim
  <2>6. Held'
    BY <1>1, <2>5, HeldByOthers DEF Working
  <2>7. QED
    BY <2>4, <2>6 DEF HInv
<1>3. CASE ~ (Claimable(r) /\ r \notin sweep.locked)
  <2>1. UNCHANGED <<run, job>>
    BY <1>3 DEF Deliver, Recover
  <2>2. QED
    BY <1>1, <2>1 DEF HInv, Held, RunsHaveSub, Mine
<1>4. QED
  BY <1>2, <1>3

LEMMA WorkerHeld ==
    ASSUME IInv, HInv, NEW w \in Worker,
           \/ WorkerStep(w) \/ Renew(w) \/ Crash(w) \/ \E s \in Sub : StartScheduled(w, s)
    PROVE  Held'
<1>1. /\ lease \in [Sub -> LeaseRow] /\ job \in [Worker -> JobState] /\ Held
      /\ job[w].pc # "idle" => job[w].sub \in Sub
      /\ job[w].pc \in Working => lease[job[w].sub] = Mine(w)
  BY DEF IInv, TypeOK, HInv, Held
<1>2. {"check", "acquire", "begin", "sync", "saveSub", "saveTarget", "saveRun", "release",
       "wrap", "wrapTarget", "wrapRun"} \subseteq Place
      /\ {"SUCCESS", "DEFERRED", "FAILED"} \subseteq Terminal
  BY DEF Place, Terminal
<1>3. ASSUME NEW s \in Sub, StartScheduled(w, s) PROVE Held'
  <2>1. /\ \A v \in Worker : v # w => job'[v] = job[v]
        /\ job'[w].pc = "check" /\ job'[w].sub = s /\ lease' = lease
    BY <1>1, <1>3 DEF StartScheduled, NoJob
  <2>2. QED
    BY <1>1, <2>1, HeldByOthers DEF Working
<1>4. CASE Check(w)
  <2>1. lease' = lease /\ job[w].pc # "idle" /\ (Goto(w, "acquire") \/ Result(w, "wrap", "FAILED"))
    BY <1>4 DEF Check
  <2>2. QED
    BY <1>1, <1>2, <2>1, GotoHeld DEF Working
<1>5. CASE Acquire(w)
  <2>1. CASE LeaseFree(job[w].sub)
    <3>1. /\ Goto(w, "begin") /\ job[w].pc = "acquire" /\ ~ lease[job[w].sub].live
          /\ lease' = [lease EXCEPT ![job[w].sub] = Mine(w)]
      BY <1>5, <2>1 DEF Acquire, LeaseFree, Mine
    <3>2. lease'[job[w].sub] = Mine(w)
          /\ \A s \in Sub : lease'[s] = lease[s] \/ ~ lease[s].live
      BY <1>1, <3>1
    <3>3. QED
      BY <1>1, <1>2, <3>1, <3>2, GotoHeld
  <2>2. CASE ~ LeaseFree(job[w].sub)
    <3>1. Result(w, "saveTarget", "FAILED") /\ job[w].pc = "acquire" /\ lease' = lease
      BY <1>5, <2>2 DEF Acquire
    <3>2. QED
      BY <1>1, <1>2, <3>1, GotoHeld DEF Working
  <2>3. QED
    BY <2>1, <2>2
<1>6. CASE Begin(w)
  <2>1. lease' = lease /\ job[w].pc = "begin" /\ (Goto(w, "sync") \/ Result(w, "saveSub", "FAILED"))
    BY <1>6 DEF Begin
  <2>2. lease'[job[w].sub] = Mine(w)
    BY <1>1, <2>1 DEF Working
  <2>3. QED
    BY <1>1, <1>2, <2>1, <2>2, GotoHeld
<1>7. CASE Renew(w)
  <2>1. lease' = lease /\ job[w].pc = "sync"
        /\ (job' = job \/ Result(w, "saveTarget", "FAILED"))
    BY <1>7 DEF Renew
  <2>2. CASE job' = job
    BY <1>1, <2>1, <2>2 DEF Held, Mine
  <2>3. CASE Result(w, "saveTarget", "FAILED")
    BY <1>1, <1>2, <2>1, <2>3, GotoHeld DEF Working
  <2>4. QED
    BY <2>1, <2>2, <2>3
<1>8. CASE EndSync(w)
  <2>1. lease' = lease /\ job[w].pc = "sync"
        /\ \E p \in {"saveSub", "saveTarget"}, res \in Terminal : Result(w, p, res)
    BY <1>2, <1>8, BoundsAssumption DEF EndSync
  <2>2. lease'[job[w].sub] = Mine(w)
    BY <1>1, <2>1 DEF Working
  <2>3. QED
    BY <1>1, <1>2, <2>1, <2>2, GotoHeld
<1>9. CASE SaveSub(w) \/ SaveTarget(w) \/ SaveRun(w)
  <2>1. lease' = lease /\ job[w].pc # "idle"
        /\ \E p \in {"release", "saveTarget", "saveRun"} :
              Goto(w, p) \/ Result(w, p, "FAILED")
    BY <1>9 DEF SaveSub, SaveTarget, SaveRun
  <2>2. QED
    BY <1>1, <1>2, <2>1, GotoHeld DEF Working
<1>10. ASSUME Done(w), lease' = lease \/ \A s \in Sub : lease'[s] = lease[s] \/ lease[s].owner = w
       PROVE  Held'
  <2>1. job'[w].pc = "idle" /\ \A v \in Worker : v # w => job'[v] = job[v]
    BY <1>1, <1>10 DEF Done, NoJob
  <2>2. QED
    BY <1>1, <1>10, <2>1, HeldByOthers DEF Working
<1>11. CASE Release(w)
  <2>1. job[w].pc = "release" /\ (Done(w) \/ Goto(w, "wrap"))
        /\ \A s \in Sub : lease'[s] = lease[s] \/ lease[s].owner = w
    BY <1>1, <1>11 DEF Release
  <2>2. QED
    BY <1>1, <1>2, <1>10, <2>1, GotoHeld DEF Working
<1>12. CASE Wrap(w)
  <2>1. job[w].pc # "idle" /\ lease' = lease
        /\ (Done(w) \/ Goto(w, "wrapTarget") \/ Goto(w, "wrapRun"))
    BY <1>12 DEF Wrap
  <2>2. QED
    BY <1>1, <1>2, <1>10, <2>1, GotoHeld DEF Working
<1>13. CASE Crash(w)
  <2>1. Done(w) /\ \A s \in Sub : lease'[s] = lease[s] \/ lease[s].owner = w
    BY <1>1, <1>13 DEF Crash
  <2>2. QED
    BY <1>10, <2>1
<1>14. QED
  BY <1>3, <1>4, <1>5, <1>6, <1>7, <1>8, <1>9, <1>11, <1>12, <1>13 DEF WorkerStep

LEMMA StepHeld == IInv /\ HInv /\ [Next]_vars => HInv'
<1> SUFFICES ASSUME IInv, HInv, [Next]_vars PROVE HInv'
  OBVIOUS
<1>1. CASE UNCHANGED vars
  BY <1>1 DEF vars, HInv, Held, RunsHaveSub, Mine
<1>2. ASSUME NEW w \in Worker,
             \/ WorkerStep(w) \/ Renew(w) \/ Crash(w) \/ \E s \in Sub : StartScheduled(w, s)
      PROVE  HInv'
  BY <1>2, WorkerHeld, WorkerRuns DEF HInv
<1>3. CASE Next
  BY <1>2, <1>3, ApiHeld, UserHeld, ClaimHeld DEF Next
<1>4. QED
  BY <1>1, <1>3

(* The outcome of a sync is written under its worker's lease, although a   *)
(* refused worker saves the outcome of its run all the same, processes die *)
(* with a lease and leases expire.                                         *)
THEOREM JobSavedByOwner == Spec => SavedByOwner
<1>1. Init => HInv
  <2> SUFFICES ASSUME Init PROVE Held /\ RunsHaveSub
    BY DEF HInv
  <2>1. Held
    BY DEF Init, Held, NoJob, Working
  <2>2. \A r \in Run : api[r] = "idle"
    BY DEF Init
  <2>3. \A r \in Run : (\E s \in Sub : run[r] = Orphan(s)) \/ run[r] = NoRow
    BY InitRows
  <2>4. RunsHaveSub
    <3> SUFFICES ASSUME NEW r \in Run, run[r].status # "none"
                 PROVE  run[r].sub \in Sub
      BY <2>2 DEF RunsHaveSub
    <3>1. PICK s \in Sub : run[r] = Orphan(s)
      BY <2>3, NoRowIs
    <3>2. QED
      BY <3>1 DEF Orphan
  <2>5. QED
    BY <2>1, <2>4
<1>2. HInv => [\A w \in Worker : job[w].pc = "saveSub" /\ job'[w] # job[w] /\ sub' # sub
                                    => lease[job[w].sub].owner = w]_vars
  <2>1. ASSUME HInv, NEW w \in Worker, job[w].pc = "saveSub"
        PROVE  lease[job[w].sub].owner = w
    <3>1. lease[job[w].sub] = Mine(w)
      BY <2>1 DEF HInv, Held, Working
    <3>2. QED
      BY <3>1 DEF Mine
  <2>2. QED
    BY <2>1, Zenon
<1>3. QED
  BY <1>1, <1>2, StepHeld, JobInvariant, PTL DEF Spec, JInv, SavedByOwner

-----------------------------------------------------------------------------
(* A run and its target, as long as every send succeeds.                   *)

(* No request got into the catch block of dispatch, which writes to run    *)
(* and target without looking at what became of them.                      *)
SendsSucceed == \A r \in Run : api[r] \in {"idle", "send"}

(* Until its worker saves the outcome a run is RUNNING, unless maintenance *)
(* has overtaken it; the outcome of the target is saved before.            *)
Unsaved ==
    \A w \in Worker : job[w].run # NoRun =>
        /\ job[w].pc \notin {"release", "wrap"} /\ job[w].run \notin overtaken
              => run[job[w].run].status = "RUNNING"
        /\ job[w].pc \in {"saveRun", "wrapRun"} => target[job[w].run] \in Terminal

(* An active target says of the run what the run says of itself, but for a *)
(* run that maintenance has overtaken: that is FAILED.                     *)
TargetAgrees ==
    \A r \in Run : IF r \in overtaken THEN run[r].status = "FAILED"
                   ELSE target[r] \in Active => run[r].status = target[r]

FollowInv == Unsaved /\ TargetAgrees

(* A recorded outcome stays, or the worker of an overtaken run writes its  *)
(* own.                                                                    *)
OwnOutcome(r) == /\ r \in overtaken /\ r \notin overtaken'
                 /\ \E w \in Worker : job[w].run = r /\ run'[r].status = job[w].res
Stays(r) == run[r].status \in Terminal
               => run'[r].status \in {run[r].status, "none"} \/ OwnOutcome(r)
Follows == FollowInv' /\ \A r \in Run : Stays(r)

(* Whoever is no worker leaves a run alone, may fail the target, or writes *)
(* when nobody works on the run or as maintenance that overtakes.          *)
Same(r) == run'[r].status = run[r].status /\ (r \in overtaken' <=> r \in overtaken)

LEMMA OutsideFollows ==
    ASSUME IInv, FollowInv, UNCHANGED job,
           \A r \in Run :
               \/ Same(r) /\ target'[r] \in {target[r], "FAILED"}
               \/ /\ \A w \in Worker : job[w].run # r
                  /\ target'[r] \in Active => run'[r].status = target'[r]
                  /\ r \notin overtaken'
                  /\ Stays(r)
               \/ /\ r \in overtaken' /\ run'[r].status = "FAILED"
                  /\ target'[r] \in {target[r], "FAILED"}
                  /\ Stays(r)
    PROVE  Follows
<1>1. Unsaved'
  <2> SUFFICES ASSUME NEW w \in Worker, job[w].run # NoRun
               PROVE  LET r == job[w].run IN
                      /\ job[w].pc \notin {"release", "wrap"} /\ r \notin overtaken'
                            => run'[r].status = "RUNNING"
                      /\ job[w].pc \in {"saveRun", "wrapRun"} => target'[r] \in Terminal
    BY DEF Unsaved, Terminal
  <2>1. job[w].run \in Run /\ "FAILED" \in Terminal
    BY DEF IInv, TypeOK, JobState, Terminal
  <2>2. QED
    BY <2>1 DEF FollowInv, Unsaved, Same
<1>2. TargetAgrees'
  BY DEF FollowInv, TargetAgrees, Active, Same
<1>3. \A r \in Run : Stays(r)
  BY DEF Stays, Same
<1>4. QED
  BY <1>1, <1>2, <1>3 DEF Follows, FollowInv

(* A worker changes its own run and the target of that.                    *)
LEMMA WorkerFollows ==
    ASSUME NEW w \in Worker, IInv, FollowInv,
           \A v \in Worker : v # w => job'[v] = job[v],
           job'[w].run \in {job[w].run, NoRun},
           \A r \in Run : r # job[w].run => Same(r) /\ target'[r] = target[r],
           job[w].run # NoRun =>
               /\ job'[w].run # NoRun /\ job'[w].pc \notin {"release", "wrap"}
                  /\ job[w].run \notin overtaken'
                     => run'[job[w].run].status = "RUNNING"
               /\ job'[w].run # NoRun /\ job'[w].pc \in {"saveRun", "wrapRun"}
                     => target'[job[w].run] \in Terminal
               /\ IF job[w].run \in overtaken' THEN run'[job[w].run].status = "FAILED"
                  ELSE target'[job[w].run] \in Active
                     => run'[job[w].run].status = target'[job[w].run]
               /\ Stays(job[w].run)
    PROVE  Follows
<1>0. \A v \in Worker : job[v].run \in Run \cup {NoRun}
  BY DEF IInv, TypeOK, JobState
<1>1. Unsaved'
  <2> SUFFICES ASSUME NEW v \in Worker, job'[v].run # NoRun
               PROVE  LET r == job'[v].run IN
                      /\ job'[v].pc \notin {"release", "wrap"} /\ r \notin overtaken'
                            => run'[r].status = "RUNNING"
                      /\ job'[v].pc \in {"saveRun", "wrapRun"} => target'[r] \in Terminal
    BY DEF Unsaved, Terminal
  <2>1. CASE v = w
    BY <2>1
  <2>2. CASE v # w
    <3>1. job'[v] = job[v] /\ job[v].run \in Run /\ job[v].run # job[w].run
      BY <1>0, <2>2 DEF IInv, OneWorkerPerRun
    <3>2. Same(job[v].run) /\ target'[job[v].run] = target[job[v].run]
      BY <3>1
    <3>3. QED
      BY <3>1, <3>2 DEF FollowInv, Unsaved, Same
  <2>3. QED
    BY <2>1, <2>2
<1>2. ASSUME NEW r \in Run
      PROVE  /\ Stays(r)
             /\ IF r \in overtaken' THEN run'[r].status = "FAILED"
                ELSE target'[r] \in Active => run'[r].status = target'[r]
  <2>1. CASE r = job[w].run
    <3>1. job[w].run # NoRun
      BY <2>1, NamesAssumption
    <3>2. QED
      BY <2>1, <3>1
  <2>2. CASE r # job[w].run
    BY <2>2 DEF Stays, FollowInv, TargetAgrees, Same
  <2>3. QED
    BY <2>1, <2>2
<1>3. TargetAgrees'
  BY <1>2 DEF TargetAgrees, Active
<1>4. QED
  BY <1>1, <1>2, <1>3 DEF Follows, FollowInv

LEMMA ApiFollows ==
    ASSUME IInv, Numbered, FollowInv, SendsSucceed, NEW r \in Run,
           \/ \E s \in Sub, type \in {"INITIAL", "MANUAL"} : Enqueue(s, r, type)
           \/ Send(r) \/ DispatchFailed(r) \/ ApiCrash(r) \/ GetOld(r) \/ Purge(r)
    PROVE  Follows
<1>0. run \in [Run -> RunRow] /\ target \in [Run -> Status]
  BY DEF IInv, TypeOK
<1>1. UNCHANGED job
  BY DEF Enqueue, Send, DispatchFailed, ApiCrash, GetOld, Purge
<1>2. CASE \E s \in Sub, type \in {"INITIAL", "MANUAL"} : Enqueue(s, r, type)
  <2>1. run[r].status = "none" /\ r # NoRun
    BY <1>2, FreeNumber, NamesAssumption
  <2>2. (\A w \in Worker : job[w].run # r) /\ r \notin overtaken
    BY <2>1 DEF IInv, WorkedOn, Terminal, FollowInv, TargetAgrees
  <2>3. /\ run'[r].status = "QUEUED" /\ target'[r] = "QUEUED" /\ overtaken' = overtaken
        /\ \A q \in Run : q # r => run'[q] = run[q] /\ target'[q] = target[q]
    BY <1>0, <1>2 DEF Enqueue
  <2>4. Stays(r)
    BY <2>1 DEF Stays, Terminal
  <2>5. QED
    BY <1>1, <2>2, <2>3, <2>4, OutsideFollows DEF Same
<1>3. CASE Send(r) \/ ApiCrash(r)
  <2>1. UNCHANGED <<run, target, overtaken>>
    BY <1>3 DEF Send, ApiCrash
  <2>2. QED
    BY <1>1, <2>1, OutsideFollows DEF Same
<1>4. CASE DispatchFailed(r)
  BY <1>4 DEF DispatchFailed, SendsSucceed
<1>5. CASE GetOld(r)
  <2>1. /\ \A q \in Run : run'[q].status = run[q].status /\ target'[q] = target[q]
        /\ overtaken' = overtaken
    BY <1>0, <1>5 DEF GetOld, RunRow
  <2>2. QED
    BY <1>1, <2>1, OutsideFollows DEF Same
<1>6. CASE Purge(r)
  <2>1. /\ run'[r].status = "none" /\ target'[r] = "none" /\ overtaken' = overtaken \ {r}
        /\ \A q \in Run : q # r => run'[q] = run[q] /\ target'[q] = target[q]
        /\ \A w \in Worker : job[w].run # r
    BY <1>0, <1>6 DEF Purge, Running, NoRow
  <2>2. Stays(r) /\ target'[r] \notin Active
    BY <2>1 DEF Stays, Active
  <2>3. QED
    BY <1>1, <2>1, <2>2, OutsideFollows DEF Same
<1>7. QED
  BY <1>2, <1>3, <1>4, <1>5, <1>6

LEMMA UserFollows ==
    ASSUME IInv, FollowInv, NEW s \in Sub,
           SetPaused(s) \/ RemoveSubscription(s) \/ DeleteUser(s) \/ ExpireLease(s) \/ CoolDown(s)
    PROVE  Follows
<1>1. UNCHANGED <<job, target, overtaken>>
  BY DEF SetPaused, RemoveSubscription, DeleteUser, ExpireLease, CoolDown
<1>2. \A r \in Run : run'[r].status = run[r].status
  <2>1. CASE DeleteUser(s)
    BY <2>1 DEF DeleteUser, IInv, TypeOK, RunRow
  <2>2. CASE SetPaused(s) \/ RemoveSubscription(s) \/ ExpireLease(s) \/ CoolDown(s)
    BY <2>2 DEF SetPaused, RemoveSubscription, ExpireLease, CoolDown
  <2>3. QED
    BY <2>1, <2>2
<1>3. QED
  BY <1>1, <1>2, OutsideFollows DEF Same

(* Of the runs maintenance has read it fails those nobody works on with    *)
(* their targets, and overtakes those that were claimed meanwhile.         *)
LEMMA MaintenanceFollows ==
    ASSUME JInv, FollowInv, Maintenance
    PROVE  Follows
<1>0. /\ run \in [Run -> RunRow] /\ target \in [Run -> Status] /\ IInv /\ Swept
      /\ UNCHANGED job
  BY DEF JInv, IInv, TypeOK, Maintenance, FindStale, FailTargets, FailRuns, AbortMaintenance
<1>1. CASE ~ FailRuns
  <2>1. UNCHANGED <<run, target, overtaken>>
    BY <1>1 DEF Maintenance, FindStale, FailTargets, AbortMaintenance
  <2>2. QED
    BY <1>0, <2>1, OutsideFollows DEF Same
<1>2. CASE FailRuns
  <2> SUFFICES ASSUME NEW r \in Run
               PROVE  \/ Same(r) /\ target'[r] \in {target[r], "FAILED"}
                      \/ /\ \A w \in Worker : job[w].run # r
                         /\ target'[r] \in Active => run'[r].status = target'[r]
                         /\ r \notin overtaken'
                         /\ Stays(r)
                      \/ /\ r \in overtaken' /\ run'[r].status = "FAILED"
                         /\ target'[r] \in {target[r], "FAILED"}
                         /\ Stays(r)
    BY <1>0, OutsideFollows
  <2>1. /\ target'[r] = IF r \in sweep.locked THEN "FAILED" ELSE target[r]
        /\ r \in overtaken' <=> \/ r \in overtaken
                                \/ /\ r \in sweep.ids /\ run[r].status = "RUNNING"
                                   /\ run[r].age # Abandoned
    BY <1>0, <1>2 DEF FailRuns
  <2>2. CASE ~ (r \in sweep.ids /\ run[r].status = "RUNNING")
    <3>1. run'[r] = run[r]
      BY <1>0, <1>2, <2>2 DEF FailRuns
    <3>2. QED
      BY <2>1, <2>2, <3>1 DEF Same
  <2>3. CASE r \in sweep.ids /\ run[r].status = "RUNNING"
    <3>1. run'[r].status = "FAILED" /\ Stays(r) /\ r \notin overtaken
      BY <1>0, <1>2, <2>3 DEF FailRuns, RunRow, Stays, Terminal, FollowInv, TargetAgrees
    <3>2. CASE run[r].age # Abandoned
      BY <2>1, <2>3, <3>1, <3>2
    <3>3. CASE run[r].age = Abandoned
      <4>1. \A w \in Worker : job[w].run # r
        BY <1>0, <2>3, <3>3, NamesAssumption DEF IInv, WorkedOn, Fresh, Abandoned
      <4>2. target[r] \in Active => r \in sweep.locked
        BY <1>0, <1>2, <2>3, <3>1, <3>3 DEF FollowInv, TargetAgrees, Swept, Unheard, FailRuns
      <4>3. target'[r] \notin Active
        BY <2>1, <4>2 DEF Active
      <4>4. QED
        BY <2>1, <3>1, <3>3, <4>1, <4>3
    <3>4. QED
      BY <3>2, <3>3
  <2>4. QED
    BY <2>2, <2>3
<1>3. QED
  BY <1>1, <1>2

LEMMA ClaimFollows ==
    ASSUME IInv, FollowInv, NEW w \in Worker, NEW r \in Run, Deliver(w, r) \/ Recover(w, r)
    PROVE  Follows
<1>0. /\ run \in [Run -> RunRow] /\ target \in [Run -> Status] /\ job \in [Worker -> JobState]
      /\ r # NoRun /\ job[w].run = NoRun /\ overtaken' = overtaken
  BY NamesAssumption DEF IInv, TypeOK, JobKnows, Deliver, Recover
<1>1. CASE Claimable(r) /\ r \notin sweep.locked
  <2>1. PICK q \in BOOLEAN : Claim(w, r, q)
    BY <1>1 DEF Deliver, Recover
  <2>2. (\A v \in Worker : job[v].run # r) /\ r \notin overtaken
    BY <1>0, <1>1 DEF IInv, WorkedOn, Claimable, Terminal, FollowInv, TargetAgrees
  <2>3. /\ run'[r].status = "RUNNING" /\ target'[r] = "RUNNING"
        /\ \A x \in Run : x # r => run'[x] = run[x] /\ target'[x] = target[x]
    BY <1>0, <2>1 DEF Claim, RunRow
  <2>4. /\ \A v \in Worker : v # w => job'[v] = job[v]
        /\ job'[w] = job[w] \/ (job'[w].run = r /\ job'[w].pc = "check")
    BY <1>0, <2>1 DEF Claim
  <2>5. \A v \in Worker : job[v].run \in Run \cup {NoRun}
    BY <1>0 DEF JobState
  <2>6. Unsaved'
    BY <1>0, <2>2, <2>3, <2>4, <2>5 DEF FollowInv, Unsaved, Terminal
  <2>7. TargetAgrees'
    BY <1>0, <2>2, <2>3 DEF FollowInv, TargetAgrees, Active
  <2>8. \A x \in Run : Stays(x)
    BY <1>1, <2>3 DEF Stays, Claimable, Terminal
  <2>9. QED
    BY <2>6, <2>7, <2>8 DEF Follows, FollowInv
<1>2. CASE ~ (Claimable(r) /\ r \notin sweep.locked)
  <2>1. UNCHANGED <<run, target, job>>
    BY <1>2 DEF Deliver, Recover
  <2>2. QED
    BY <1>0, <2>1, OutsideFollows DEF Same
<1>3. QED
  BY <1>1, <1>2

(* A worker that leaves run and target alone only has to go where it may.  *)
LEMMA MoveFollows ==
    ASSUME NEW w \in Worker, IInv, FollowInv,
           \A v \in Worker : v # w => job'[v] = job[v],
           job'[w].run \in {job[w].run, NoRun},
           \A r \in Run : run'[r].status = run[r].status,
           UNCHANGED <<target, overtaken>>,
           job'[w].run = NoRun \/ job'[w].pc \in {"release", "wrap"}
               \/ /\ job'[w].pc \notin {"saveRun", "wrapRun"}
                  /\ job[w].run \in overtaken \/ run[job[w].run].status = "RUNNING"
    PROVE  Follows
<1>1. job[w].run \in Run \cup {NoRun} /\ \A r \in Run : Same(r)
  BY DEF IInv, TypeOK, JobState, Same
<1>2. job[w].run # NoRun =>
        /\ run'[job[w].run].status = run[job[w].run].status
        /\ IF job[w].run \in overtaken THEN run[job[w].run].status = "FAILED"
           ELSE target[job[w].run] \in Active => run[job[w].run].status = target[job[w].run]
        /\ Stays(job[w].run)
  BY <1>1 DEF FollowInv, TargetAgrees, Stays
<1>3. QED
  BY <1>1, <1>2, WorkerFollows

LEMMA WorkerStepFollows ==
    ASSUME IInv, FollowInv, NEW w \in Worker,
           WorkerStep(w) \/ Renew(w) \/ Crash(w) \/ \E s \in Sub : StartScheduled(w, s)
    PROVE  Follows
<1> DEFINE r == job[w].run
<1>0. /\ run \in [Run -> RunRow] /\ target \in [Run -> Status] /\ job \in [Worker -> JobState]
      /\ r \in Run \cup {NoRun}
      /\ r # NoRun /\ job[w].pc \notin {"release", "wrap"}
            => r \in overtaken \/ run[r].status = "RUNNING"
      /\ r # NoRun /\ job[w].pc \in {"saveRun", "wrapRun"} => target[r] \in Terminal
      /\ r # NoRun => IF r \in overtaken THEN run[r].status = "FAILED"
                       ELSE target[r] \in Active => run[r].status = target[r]
      /\ SaveRun(w) \/ overtaken' = overtaken
      /\ job[w].pc \in {"saveSub", "saveTarget", "saveRun"} => job[w].res \in Terminal
      /\ job[w].pc \in {"wrapTarget", "wrapRun"} => r # NoRun
  <2>1. SaveRun(w) \/ overtaken' = overtaken
    BY DEF WorkerStep, Renew, Crash, StartScheduled, Check, Acquire, Begin, EndSync, SaveSub,
           SaveTarget, Release, Wrap
  <2>2. QED
    BY <2>1 DEF IInv, TypeOK, JobState, FollowInv, Unsaved, TargetAgrees, JobKnows
<1>00. /\ {"check", "wrap", "acquire", "begin", "sync", "saveSub", "saveTarget", "saveRun",
           "release", "wrapTarget", "wrapRun"} \subseteq Place
       /\ {"SUCCESS", "DEFERRED", "FAILED"} \subseteq Terminal
  BY DEF Place, Terminal
<1>1. ASSUME NEW s \in Sub, StartScheduled(w, s)
      PROVE  Follows
  <2>1. /\ job'[w].run = NoRun /\ UNCHANGED <<run, target, overtaken>>
        /\ \A v \in Worker : v # w => job'[v] = job[v]
    BY <1>0, <1>1 DEF StartScheduled, NoJob
  <2>2. QED
    BY <2>1, MoveFollows
<1>2. CASE Check(w)
  <2>1. Result(w, "wrap", "FAILED") \/ Goto(w, "acquire")
    BY <1>2 DEF Check
  <2>2. /\ job'[w].pc \in {"wrap", "acquire"} /\ job'[w].run = r
        /\ \A v \in Worker : v # w => job'[v] = job[v]
    BY <1>00, <2>1, GotoMoves, ResultMoves
  <2>3. /\ run' = run /\ job[w].pc = "check" /\ overtaken' = overtaken
        /\ target' = target \/ (r # NoRun /\ target' = [target EXCEPT ![r] = "RUNNING"])
    BY <1>2 DEF Check
  <2> HIDE DEF r
  <2>4. CASE target' = target
    BY <1>0, <2>2, <2>3, <2>4, MoveFollows DEF r
  <2>5. CASE r # NoRun /\ target' = [target EXCEPT ![r] = "RUNNING"]
    <3>1. /\ target'[r] = "RUNNING" /\ run'[r] = run[r] /\ Stays(r)
          /\ \A q \in Run : q # r => Same(q) /\ target'[q] = target[q]
      BY <1>0, <2>3, <2>5 DEF Stays, Same
    <3>2. QED
      BY <1>0, <2>2, <2>3, <2>5, <3>1, WorkerFollows DEF r
  <2>6. QED
    BY <2>3, <2>4, <2>5
<1>3. CASE Acquire(w) \/ Begin(w) \/ Renew(w) \/ EndSync(w) \/ SaveSub(w)
  <2>1. /\ job' = job \/ \E p \in {"begin", "sync", "saveSub", "saveTarget", "release"} :
                            Goto(w, p) \/ \E res \in Terminal : Result(w, p, res)
        /\ UNCHANGED <<target, overtaken>> /\ (run' = run \/ Beat(w))
        /\ job[w].pc \in {"acquire", "begin", "sync", "saveSub"}
    <3>1. CASE Acquire(w) \/ Begin(w)
      BY <1>00, <3>1 DEF Acquire, Begin
    <3>2. CASE Renew(w) \/ EndSync(w)
      BY <1>00, <3>2, BoundsAssumption DEF Renew, EndSync
    <3>3. CASE SaveSub(w)
      BY <1>00, <3>3 DEF SaveSub
    <3>4. QED
      BY <1>3, <3>1, <3>2, <3>3
  <2>2. \A q \in Run : run'[q].status = run[q].status
    BY <2>1, BeatIs
  <2>3. CASE job' = job
    BY <2>1, <2>2, <2>3, OutsideFollows DEF Same
  <2>4. ASSUME NEW p \in {"begin", "sync", "saveSub", "saveTarget", "release"},
               Goto(w, p) \/ \E res \in Terminal : Result(w, p, res)
        PROVE  Follows
    <3>1. /\ job'[w].pc = p /\ job'[w].run = r
          /\ \A v \in Worker : v # w => job'[v] = job[v]
      BY <1>00, <2>4, GotoMoves, ResultMoves
    <3>2. r = NoRun \/ r \in overtaken \/ run[r].status = "RUNNING"
      BY <1>0, <2>1
    <3>3. QED
      BY <2>1, <2>2, <3>1, <3>2, MoveFollows
  <2>5. QED
    BY <2>1, <2>3, <2>4
<1>4. CASE SaveTarget(w)
  <2>1. /\ Goto(w, "saveRun") /\ run' = run /\ overtaken' = overtaken
        /\ job[w].res \in Terminal /\ job[w].pc = "saveTarget"
        /\ target' = IF r = NoRun THEN target ELSE [target EXCEPT ![r] = job[w].res]
    BY <1>0, <1>4 DEF SaveTarget
  <2>2. /\ job'[w].pc = "saveRun" /\ job'[w].run = r
        /\ \A v \in Worker : v # w => job'[v] = job[v]
    BY <1>00, <2>1, GotoMoves
  <2>3. /\ \A q \in Run : q # r => Same(q) /\ target'[q] = target[q]
        /\ r # NoRun => target'[r] \in Terminal /\ Stays(r)
    BY <1>0, <2>1 DEF Stays, Same
  <2> HIDE DEF r
  <2>4. QED
    BY <1>0, <2>1, <2>2, <2>3, WorkerFollows DEF Terminal, Active, r
<1>5. CASE SaveRun(w)
  <2>1. /\ Goto(w, "release") /\ target' = target /\ job[w].res \in Terminal
        /\ job[w].pc = "saveRun" /\ overtaken' = overtaken \ {r}
        /\ run' = IF r = NoRun THEN run
                     ELSE [run EXCEPT ![r].status = job[w].res, ![r].age = Fresh]
    BY <1>0, <1>5 DEF SaveRun
  <2>2. /\ job'[w].pc = "release" /\ job'[w].run = r
        /\ \A v \in Worker : v # w => job'[v] = job[v]
    BY <1>00, <2>1, GotoMoves
  <2>3. /\ \A q \in Run : q # r => Same(q) /\ target'[q] = target[q]
        /\ r # NoRun => target'[r] \in Terminal /\ r \notin overtaken'
    BY <1>0, <2>1 DEF Same
  <2>4. r # NoRun => Stays(r)
    <3>1. r # NoRun => run'[r].status = job[w].res
      BY <1>0, <2>1
    <3>2. r # NoRun /\ r \in overtaken => OwnOutcome(r)
      BY <2>1, <3>1 DEF OwnOutcome
    <3>3. QED
      BY <1>0, <2>1, <3>2 DEF Stays, Terminal
  <2>5. QED
    BY <2>2, <2>3, <2>4, WorkerFollows DEF Terminal, Active
<1>6. CASE Release(w)
  <2>1. (Done(w) \/ Goto(w, "wrap")) /\ UNCHANGED <<run, target, overtaken>>
    BY <1>6 DEF Release
  <2>2. /\ \/ job'[w].run = NoRun
           \/ job'[w].pc = "wrap" /\ job'[w].run = r
        /\ \A v \in Worker : v # w => job'[v] = job[v]
    BY <1>00, <2>1, GotoMoves, DoneEnds
  <2>3. QED
    BY <2>1, <2>2, MoveFollows
<1>7. CASE Wrap(w)
  <2>1. CASE job[w].pc = "wrap"
    <3>1. /\ UNCHANGED <<run, target, overtaken>>
          /\ \/ Goto(w, "wrapTarget") /\ run[r].status = "RUNNING"
             \/ Done(w)
      BY <1>7, <2>1 DEF Wrap
    <3>2. /\ \/ job'[w].run = NoRun
             \/ job'[w].pc = "wrapTarget" /\ job'[w].run = r /\ run[r].status = "RUNNING"
          /\ \A v \in Worker : v # w => job'[v] = job[v]
      BY <1>00, <3>1, GotoMoves, DoneEnds
    <3>3. QED
      BY <3>1, <3>2, MoveFollows
  <2>2. CASE job[w].pc = "wrapTarget"
    <3>1. /\ Goto(w, "wrapRun") /\ run' = run /\ overtaken' = overtaken
          /\ target' = [target EXCEPT ![r] = "FAILED"]
      BY <1>7, <2>2 DEF Wrap
    <3>2. /\ job'[w].pc = "wrapRun" /\ job'[w].run = r
          /\ \A v \in Worker : v # w => job'[v] = job[v]
      BY <1>00, <3>1, GotoMoves
    <3>3. /\ \A q \in Run : q # r => Same(q) /\ target'[q] = target[q]
          /\ target'[r] \in Terminal /\ Stays(r)
      BY <1>0, <1>00, <2>2, <3>1 DEF Stays, Same
    <3>4. QED
      BY <1>0, <2>2, <3>1, <3>2, <3>3, WorkerFollows DEF Terminal, Active
  <2>3. CASE job[w].pc = "wrapRun"
    <3>1. /\ Done(w) /\ target' = target /\ overtaken' = overtaken
          /\ run' = [run EXCEPT ![r].status = "FAILED", ![r].age = Fresh]
      BY <1>7, <2>3 DEF Wrap
    <3>2. job'[w].run = NoRun /\ \A v \in Worker : v # w => job'[v] = job[v]
      BY <3>1, DoneEnds
    <3>3. /\ \A q \in Run : q # r => Same(q) /\ target'[q] = target[q]
          /\ target'[r] \in Terminal /\ run'[r].status = "FAILED" /\ Stays(r)
      BY <1>0, <2>3, <3>1 DEF Stays, Terminal, Same
    <3>4. QED
      BY <3>2, <3>3, WorkerFollows DEF Terminal, Active
  <2>4. QED
    BY <1>7, <2>1, <2>2, <2>3 DEF Wrap
<1>8. CASE Crash(w)
  <2>1. Done(w) /\ UNCHANGED <<run, target, overtaken>>
    BY <1>8 DEF Crash
  <2>2. job'[w].run = NoRun /\ \A v \in Worker : v # w => job'[v] = job[v]
    BY <2>1, DoneEnds
  <2>3. QED
    BY <2>1, <2>2, MoveFollows
<1>9. QED
  BY <1>1, <1>2, <1>3, <1>4, <1>5, <1>6, <1>7, <1>8 DEF WorkerStep

LEMMA StepFollows == JInv /\ FollowInv /\ SendsSucceed /\ [Next]_vars => Follows
<1> SUFFICES ASSUME JInv, FollowInv, SendsSucceed, [Next]_vars PROVE Follows
  OBVIOUS
<1>1. CASE UNCHANGED vars
  BY <1>1, OutsideFollows DEF vars, JInv, Same
<1>2. CASE Next
  BY <1>2, ApiFollows, UserFollows, ClaimFollows, WorkerStepFollows, MaintenanceFollows
     DEF Next, JInv
<1>3. QED
  BY <1>1, <1>2

LEMMA InitFollows == Init => FollowInv
<1> SUFFICES ASSUME Init PROVE FollowInv
  OBVIOUS
<1>1. Unsaved
  BY DEF Init, Unsaved, NoJob
<1>2. TargetAgrees
  BY InitRows DEF Init, TargetAgrees, Orphan, NoRow, Active
<1>3. QED
  BY <1>1, <1>2 DEF FollowInv

(* As long as no send fails an active target is that of an active run, or  *)
(* maintenance has overtaken the run: with workers that crash between the  *)
(* writes to target and run, runs claimed again, also between what         *)
(* maintenance reads and what it writes, users that pause, remove or       *)
(* delete meanwhile.                                                       *)
THEOREM JobTargetFollowsRun == Spec /\ []SendsSucceed => []TargetFollowsRun
<1>1. JInv /\ FollowInv /\ SendsSucceed /\ [Next]_vars => FollowInv'
  BY StepFollows DEF Follows
<1>2. FollowInv => TargetFollowsRun
  BY DEF FollowInv, TargetAgrees, TargetFollowsRun
<1>3. QED
  BY <1>1, <1>2, InitFollows, JobInvariant, PTL DEF Spec

(* As long as no send fails, the outcome of a run that its user was told   *)
(* is never written over, not by a worker that lost its lease, not by the  *)
(* catch block around the sync, not by maintenance, but for one case: the  *)
(* worker of a run maintenance has overtaken writes its own over FAILED.   *)
THEOREM JobOutcomeStays == Spec /\ []SendsSucceed => OutcomeStays
<1>1. JInv /\ FollowInv /\ SendsSucceed /\ [Next]_vars
         => FollowInv' /\ [\A r \in Run :
               run[r].status \in Terminal /\ run'[r].status \notin {run[r].status, "none"}
                  => /\ r \in overtaken /\ r \notin overtaken'
                     /\ \E w \in Worker : job[w].run = r /\ run'[r].status = job[w].res]_vars
  <2> SUFFICES ASSUME JInv, FollowInv, SendsSucceed, [Next]_vars
               PROVE  FollowInv' /\ \A r \in Run : Stays(r)
    BY Zenon DEF Stays, OwnOutcome
  <2>1. QED
    BY StepFollows DEF Follows
<1>2. QED
  BY <1>1, InitFollows, JobInvariant, PTL DEF Spec, OutcomeStays

(* A queue that takes every message is such a one.                         *)
THEOREM SendsSucceedWhen ==
    ASSUME SendOutcomes \subseteq {"ok"}
    PROVE  Spec => []SendsSucceed
<1>1. Init => SendsSucceed
  BY DEF Init, SendsSucceed
<1>2. JInv /\ SendsSucceed /\ [Next]_vars => SendsSucceed'
  <2> SUFFICES ASSUME JInv, SendsSucceed, [Next]_vars, NEW q \in Run
               PROVE  api'[q] \in {"idle", "send"}
    BY DEF SendsSucceed
  <2>0. api \in [Run -> {"idle", "send", "saveSub", "saveTarget", "saveRun"}]
        /\ api[q] \in {"idle", "send"}
    BY DEF JInv, IInv, TypeOK, SendsSucceed
  <2>1. CASE api' = api
    BY <2>0, <2>1
  <2>2. ASSUME NEW r \in Run, NEW s \in Sub, NEW type \in {"INITIAL", "MANUAL"}, Enqueue(s, r, type)
        PROVE  api'[q] \in {"idle", "send"}
    BY <2>0, <2>2 DEF Enqueue
  <2>3. ASSUME NEW r \in Run, Send(r) \/ ApiCrash(r) PROVE api'[q] \in {"idle", "send"}
    BY <2>0, <2>3 DEF Send, ApiCrash
  <2>4. ASSUME NEW r \in Run, DispatchFailed(r) PROVE FALSE
    BY <2>4 DEF DispatchFailed, SendsSucceed
  <2>5. ASSUME \/ UNCHANGED vars \/ Maintenance
               \/ \E r \in Run : GetOld(r) \/ Purge(r)
               \/ \E s \in Sub : \/ SetPaused(s) \/ RemoveSubscription(s) \/ DeleteUser(s)
                                 \/ ExpireLease(s) \/ CoolDown(s)
        PROVE  api' = api
    BY <2>5 DEF vars, Maintenance, FindStale, FailTargets, FailRuns, AbortMaintenance, GetOld,
                Purge, SetPaused, RemoveSubscription, DeleteUser, ExpireLease, CoolDown
  <2>6. ASSUME NEW w \in Worker, \/ \E r \in Run : Deliver(w, r) \/ Recover(w, r)
                                 \/ \E s \in Sub : StartScheduled(w, s)
                                 \/ WorkerStep(w) \/ Renew(w) \/ Crash(w)
        PROVE  api' = api
    BY <2>6 DEF Deliver, Recover, StartScheduled, WorkerStep, Renew, Crash, Check, Acquire,
                Begin, EndSync, SaveSub, SaveTarget, SaveRun, Release, Wrap
  <2>7. QED
    BY <2>1, <2>2, <2>3, <2>4, <2>5, <2>6 DEF Next
<1>3. QED
  BY <1>1, <1>2, JobInvariant, PTL DEF Spec
=============================================================================
