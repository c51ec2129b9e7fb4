-------------------------- MODULE Dashboard_proofs --------------------------
(***************************************************************************)
(* Proofs about Dashboard for any number of subscriptions, watches and     *)
(* reloads, any limit and any number of attempts: the types of the page's  *)
(* state, and that a card a watch has locked still has a watch.            *)
(***************************************************************************)
EXTENDS Dashboard, TLAPS

Server == [subs : SUBSET Sub, made : SUBSET Sub, run : [Sub -> RunStatus]]
Loads == [pc : {"none", "asked", "answered"}, got : List]
Op == [pc : {"none", "call", "answer", "load", "me"},
       sub : Sub \cup {NoSub}, answer : {"none", "ok", "active", "failed", "error"}]
Watching == [pc : {"none", "poll", "load"}, sub : Sub \cup {NoSub},
             tries : 0 .. MaxTries, run : RunStatus]

(* The parts of the state that change together. The answer with a run      *)
(* names its subscription; a watch has one, and an entry that is none is   *)
(* blank.                                                                  *)
Rest == /\ list \in List /\ load \in [Frame -> Loads]
        /\ dialog \in [open : BOOLEAN, preview : BOOLEAN]
Ops == /\ busy \in {"none", "status", "remove", "sync", "resolve", "register"} /\ op \in Op
       /\ (busy = "none") <=> (op.pc = "none")
       /\ op.answer \in {"active", "failed"} => op.sub \in Sub
Cards == /\ spinner \in [Sub -> {"none", "active", "ended"}] /\ watch \in [Watches -> Watching]
         /\ \A w \in Watches : watch[w] = NoWatch \/ watch[w].sub \in Sub
         /\ SpinnerHasWatch
Servers == server \in Server /\ server.subs \subseteq server.made

IInv == Rest /\ Ops /\ Cards /\ Servers

LEMMA Blank == /\ NoLoad \in Loads /\ Asked \in Loads /\ NoOp \in Op /\ NoWatch \in Watching
               /\ NoOp.answer = "none" /\ NoOp.pc = "none" /\ NoWatch.sub = NoSub /\ NoSub \notin Sub
               /\ NoWatch.pc = "none"
  BY DashboardAssumption DEF NoLoad, Asked, NoOp, NoWatch, Empty, Loads, List, Op, Watching, RunStatus

LEMMA InitIInv == Init => IInv
<1> SUFFICES ASSUME Init PROVE IInv
  OBVIOUS
<1>1. Servers
  BY DEF Init, Servers, Server, RunStatus
<1>2. Rest
  BY Blank DEF Init, Rest, Empty, List, Closed
<1>3. Ops
  BY Blank DEF Init, Ops
<1>4. Cards
  BY Blank DEF Init, Cards, SpinnerHasWatch
<1>5. QED
  BY <1>1, <1>2, <1>3, <1>4 DEF IInv

-----------------------------------------------------------------------------
(* Steps that leave cards and watches alone.                               *)

LEMMA OpsStay == Ops /\ UNCHANGED <<busy, op>> => Ops'
  BY DEF Ops
LEMMA CardsStay == Cards /\ UNCHANGED <<spinner, watch>> => Cards'
  BY DEF Cards, SpinnerHasWatch
LEMMA ServersStay == Servers /\ UNCHANGED server => Servers'
  BY DEF Servers
LEMMA RestStays == Rest /\ UNCHANGED <<list, load, dialog>> => Rest'
  BY DEF Rest

LEMMA LoadedRest ==
    ASSUME Rest, NEW f \in Frame, Loaded(f), UNCHANGED dialog
    PROVE  Rest'
<1>1. load[f] \in Loads
  BY DEF Rest
<1>2. list' \in List /\ load' \in [Frame -> Loads]
  BY <1>1, Blank DEF Rest, Loaded, Loads
<1>3. QED
  BY <1>2 DEF Rest

LEMMA EndOps == End => Ops'
  BY Blank DEF End, Ops

LEMMA EndWatchCards ==
    ASSUME Cards, NEW w \in Watches, EndWatch(w)
    PROVE  Cards'
<1>1. /\ spinner' = [spinner EXCEPT ![watch[w].sub] = "none"]
      /\ watch' = [watch EXCEPT ![w] = NoWatch]
  BY DEF EndWatch
<1>2. spinner' \in [Sub -> {"none", "active", "ended"}] /\ watch' \in [Watches -> Watching]
  BY <1>1, Blank DEF Cards
<1>3. \A v \in Watches : watch'[v] = NoWatch \/ watch'[v].sub \in Sub
  BY <1>1 DEF Cards
<1>4. SpinnerHasWatch'
  <2> SUFFICES ASSUME NEW s \in Sub, spinner'[s] # "none" PROVE \E v \in Watches : watch'[v].sub = s
    BY DEF SpinnerHasWatch
  <2>1. s # watch[w].sub /\ spinner[s] # "none"
    BY <1>1 DEF Cards
  <2>2. PICK v \in Watches : watch[v].sub = s
    BY <2>1 DEF Cards, SpinnerHasWatch
  <2>3. watch'[v] = watch[v]
    BY <1>1, <2>1, <2>2 DEF Cards
  <2>4. QED
    BY <2>2, <2>3
<1>5. QED
  BY <1>2, <1>3, <1>4 DEF Cards

(* A watch that goes on: its card says what it found.                      *)
LEMMA WatchGoesOn ==
    ASSUME Cards, NEW w \in Watches, NEW k \in Watching, NEW x \in {"active", "ended"},
           watch[w].pc = "poll", k.sub = watch[w].sub,
           watch' = [watch EXCEPT ![w] = k], spinner' = [spinner EXCEPT ![k.sub] = x]
    PROVE  Cards'
<1>0. watch[w] # NoWatch /\ k.sub \in Sub
  BY Blank DEF Cards
<1>1. spinner' \in [Sub -> {"none", "active", "ended"}] /\ watch' \in [Watches -> Watching]
  BY DEF Cards
<1>2. \A v \in Watches : watch'[v].sub = watch[v].sub
  BY DEF Cards
<1>3. \A v \in Watches : watch'[v] = NoWatch \/ watch'[v].sub \in Sub
  BY <1>0 DEF Cards
<1>4. SpinnerHasWatch'
  <2> SUFFICES ASSUME NEW s \in Sub, spinner'[s] # "none" PROVE \E v \in Watches : watch'[v].sub = s
    BY DEF SpinnerHasWatch
  <2>1. CASE s = k.sub
    BY <2>1, <1>2
  <2>2. CASE s # k.sub
    BY <2>2, <1>2 DEF Cards, SpinnerHasWatch
  <2>3. QED
    BY <2>1, <2>2
<1>5. QED
  BY <1>1, <1>3, <1>4 DEF Cards

-----------------------------------------------------------------------------
(* The API.                                                                *)

LEMMA EndRunKeeps ==
    ASSUME IInv, NEW s \in Sub, EndRun(s)
    PROVE  IInv'
<1>0. Rest /\ Ops /\ Cards /\ Servers
  BY DEF IInv
<1>1. Servers'
  BY <1>0 DEF EndRun, Servers, Server, RunStatus
<1>2. /\ spinner' = spinner
      /\ watch' = [w \in Watches |-> IF watch[w].sub = s THEN [watch[w] EXCEPT !.run = "ended"] ELSE watch[w]]
  BY DEF EndRun
<1>3. ASSUME NEW w \in Watches
      PROVE  /\ watch'[w] \in Watching /\ watch'[w].sub = watch[w].sub
             /\ watch'[w] = NoWatch \/ watch'[w].sub \in Sub
  <2>1. watch[w] \in Watching /\ (watch[w] = NoWatch \/ watch[w].sub \in Sub)
    BY <1>0 DEF Cards
  <2>2. CASE watch[w].sub = s
    <3>1. watch'[w] = [watch[w] EXCEPT !.run = "ended"]
      BY <1>2, <2>2
    <3>2. QED
      BY <2>1, <2>2, <3>1 DEF Watching, RunStatus
  <2>3. CASE watch[w].sub # s
    BY <1>2, <2>1, <2>3
  <2>4. QED
    BY <2>2, <2>3
<1>4. watch' \in [Watches -> Watching]
  BY <1>2, <1>3
<1>5. Cards'
  BY <1>0, <1>2, <1>3, <1>4 DEF Cards, SpinnerHasWatch
<1>6. Rest' /\ Ops'
  BY <1>0, RestStays, OpsStay DEF EndRun
<1>7. QED
  BY <1>1, <1>5, <1>6 DEF IInv

LEMMA ReadChannelsKeeps ==
    ASSUME IInv, NEW f \in Frame, ReadChannels(f)
    PROVE  IInv'
<1>0. Rest /\ Ops /\ Cards /\ Servers
  BY DEF IInv
<1> DEFINE got == [subs |-> server.subs, active |-> {s \in server.subs : server.run[s] = "active"}]
<1>1. got \in List
  BY <1>0 DEF Servers, Server, List
<1>2. load' = [load EXCEPT ![f] = [pc |-> "answered", got |-> got]]
  BY DEF ReadChannels
<1> HIDE DEF got
<1>3. load' \in [Frame -> Loads]
  BY <1>0, <1>1, <1>2 DEF Rest, Loads
<1>4. Rest' /\ Ops' /\ Cards' /\ Servers'
  BY <1>0, <1>3, OpsStay, CardsStay, ServersStay DEF ReadChannels, Rest
<1>5. QED
  BY <1>4 DEF IInv

(* What the server does for an operation, and what it answers.             *)
LEMMA EffectIs ==
    ASSUME Servers, NEW kind, NEW s, NEW answer, Effect(kind, s, answer)
    PROVE  Servers' /\ (answer \in {"active", "failed"} => s \in Sub)
<1>0. server \in Server /\ server.subs \subseteq server.made /\ server.subs \subseteq Sub
  BY DEF Servers, Server
<1>1. CASE UNCHANGED server /\ answer = "ok"
  BY <1>1, ServersStay
<1>2. CASE answer = "ok" /\ server' = [server EXCEPT !.subs = server.subs \ {s}]
  BY <1>0, <1>2 DEF Servers, Server
<1>3. CASE answer = "active" /\ s \in Sub /\ server' = [server EXCEPT !.run[s] = "active"]
  BY <1>0, <1>3 DEF Servers, Server, RunStatus
<1>4. ASSUME NEW x \in RunStatus, s \in Sub,
             server' = [server EXCEPT !.subs = server.subs \cup {s}, !.made = server.made \cup {s}, !.run[s] = x]
      PROVE  Servers' /\ (answer \in {"active", "failed"} => s \in Sub)
  BY <1>0, <1>4 DEF Servers, Server
<1>5. QED
  BY <1>0, <1>1, <1>2, <1>3, <1>4 DEF Effect, RunStatus

LEMMA ProcessKeeps ==
    ASSUME IInv, Process
    PROVE  IInv'
<1>0. Rest /\ Ops /\ Cards /\ Servers
  BY DEF IInv
<1>1. op.pc = "call" /\ UNCHANGED <<list, load, busy, dialog, spinner, watch>> /\ op \in Op /\ busy # "none"
  BY <1>0 DEF Process, Ops
<1>2. Servers' /\ op' \in Op /\ op'.pc = "answer" /\ (op'.answer \in {"active", "failed"} => op'.sub \in Sub)
  <2>1. ASSUME NEW s \in Sub \cup {NoSub}, NEW answer \in {"ok", "active", "failed"}, Effect(busy, s, answer),
               op' \in {[pc |-> "answer", sub |-> s, answer |-> answer],
                        [pc |-> "answer", sub |-> s, answer |-> "error"]}
        PROVE  Servers' /\ op' \in Op /\ op'.pc = "answer" /\ (op'.answer \in {"active", "failed"} => op'.sub \in Sub)
    BY <1>0, <2>1, EffectIs DEF Op
  <2>2. CASE op' = [op EXCEPT !.pc = "answer", !.answer = "error"] /\ UNCHANGED server
    BY <1>0, <1>1, <2>2, ServersStay DEF Op
  <2>3. QED
    BY <2>1, <2>2 DEF Process
<1>3. Ops'
  BY <1>0, <1>1, <1>2 DEF Ops
<1>4. QED
  BY <1>0, <1>1, <1>2, <1>3, RestStays, CardsStay DEF IInv

-----------------------------------------------------------------------------
(* The page.                                                               *)

LEMMA ReloadsKeep ==
    ASSUME IInv, NEW f \in Refreshers, Refresh(f) \/ PageLoaded(f)
    PROVE  IInv'
<1>0. Rest /\ Ops /\ Cards /\ Servers /\ f \in Frame
  BY DEF Frame, IInv
<1>1. CASE Refresh(f)
  <2>1. load' \in [Frame -> Loads]
    BY <1>0, <1>1, Blank DEF Refresh, Rest
  <2>2. QED
    BY <1>0, <1>1, <2>1, OpsStay, CardsStay, ServersStay DEF Refresh, Rest, IInv
<1>2. CASE PageLoaded(f)
  BY <1>0, <1>2, LoadedRest, OpsStay, CardsStay, ServersStay DEF PageLoaded, IInv
<1>3. QED
  BY <1>1, <1>2

LEMMA StartKeeps ==
    ASSUME IInv, NEW kind \in {"status", "remove", "sync", "resolve", "register"}, NEW s \in Sub \cup {NoSub},
           Start(kind, s)
    PROVE  IInv'
<1>0. Rest /\ Ops /\ Cards /\ Servers
  BY DEF IInv
<1>1. Ops'
  BY DEF Start, Ops, Op
<1>2. QED
  BY <1>0, <1>1, RestStays, CardsStay, ServersStay DEF Start, IInv

LEMMA DialogKeeps ==
    ASSUME IInv, Open \/ Edit \/ Cancel
    PROVE  IInv'
<1>0. Rest /\ Ops /\ Cards /\ Servers
  BY DEF IInv
<1>1. dialog' \in [open : BOOLEAN, preview : BOOLEAN]
  <2>1. /\ dialog \in [open : BOOLEAN, preview : BOOLEAN]
        /\ \/ dialog' = [dialog EXCEPT !.open = TRUE] \/ dialog' = [dialog EXCEPT !.preview = FALSE]
           \/ dialog' = [open |-> FALSE, preview |-> FALSE]
    BY <1>0 DEF Open, Edit, Cancel, Dialog, Closed, Rest
  <2>2. CASE dialog' = [dialog EXCEPT !.open = TRUE]
    BY <2>1, <2>2
  <2>3. CASE dialog' = [dialog EXCEPT !.preview = FALSE]
    BY <2>1, <2>3
  <2>4. CASE dialog' = [open |-> FALSE, preview |-> FALSE]
    BY <2>4
  <2>5. QED
    BY <2>1, <2>2, <2>3, <2>4
<1>2. Rest'
  BY <1>0, <1>1 DEF Rest, Open, Edit, Cancel, Dialog
<1>3. QED
  BY <1>0, <1>2, OpsStay, CardsStay, ServersStay DEF Open, Edit, Cancel, Dialog, IInv

LEMMA StartWatchCards ==
    ASSUME Ops, Cards, Servers, StartWatch
    PROVE  Cards'
<1>1. op.sub \in Sub
  BY DEF StartWatch, Ops
<1>2. PICK w \in Watches :
        /\ watch[w] = NoWatch
        /\ watch' = [watch EXCEPT ![w] = [pc |-> "poll", sub |-> op.sub, tries |-> 0, run |-> server.run[op.sub]]]
  BY DEF StartWatch
<1> DEFINE k == [pc |-> "poll", sub |-> op.sub, tries |-> 0, run |-> server.run[op.sub]]
<1>3. k \in Watching /\ k.sub = op.sub
  BY <1>1, DashboardAssumption DEF Watching, Servers, Server
<1>4. watch' = [watch EXCEPT ![w] = k] /\ spinner' = [spinner EXCEPT ![op.sub] = "active"]
  BY <1>2 DEF StartWatch
<1> HIDE DEF k
<1>5. watch' \in [Watches -> Watching] /\ spinner' \in [Sub -> {"none", "active", "ended"}]
  BY <1>3, <1>4 DEF Cards
<1>6. \A v \in Watches : watch'[v] = NoWatch \/ watch'[v].sub \in Sub
  BY <1>1, <1>3, <1>4 DEF Cards
<1>7. SpinnerHasWatch'
  <2> SUFFICES ASSUME NEW s \in Sub, spinner'[s] # "none" PROVE \E v \in Watches : watch'[v].sub = s
    BY DEF SpinnerHasWatch
  <2>1. CASE s = op.sub
    BY <2>1, <1>3, <1>4 DEF Cards
  <2>2. CASE s # op.sub
    <3>1. PICK v \in Watches : watch[v].sub = s
      BY <1>4, <2>2 DEF Cards, SpinnerHasWatch
    <3>2. v # w
      BY <1>2, <3>1, Blank
    <3>3. QED
      BY <1>4, <3>1, <3>2 DEF Cards
  <2>3. QED
    BY <2>1, <2>2
<1>8. QED
  BY <1>5, <1>6, <1>7 DEF Cards

LEMMA OpKeeps ==
    ASSUME IInv, OpStep
    PROVE  IInv'
<1>0. Rest /\ Ops /\ Cards /\ Servers /\ "op" \in Frame
  BY DEF Frame, IInv
<1>1. CASE Process
  BY <1>1, ProcessKeeps
<1>2. CASE OpFails \/ NoWatchNeeded
  BY <1>0, <1>2, EndOps, RestStays, CardsStay, ServersStay DEF OpFails, NoWatchNeeded, IInv
<1>3. CASE Resolved
  <2>1. Rest'
    BY <1>0, <1>3 DEF Resolved, Rest
  <2>2. QED
    BY <1>0, <1>3, <2>1, EndOps, CardsStay, ServersStay DEF Resolved, IInv
<1>4. CASE Answered
  <2>1. Rest'
    BY <1>0, <1>4, Blank DEF Answered, Rest, Closed
  <2>2. op \in Op /\ op' = [op EXCEPT !.pc = "load"] /\ UNCHANGED busy /\ op.pc = "answer"
    BY <1>0, <1>4 DEF Answered, Ops
  <2>3. Ops'
    BY <1>0, <2>2 DEF Ops, Op
  <2>4. QED
    BY <1>0, <1>4, <2>1, <2>3, CardsStay, ServersStay DEF Answered, IInv
<1>5. CASE OpLoaded
  <2>1. Rest'
    BY <1>0, <1>5, LoadedRest DEF OpLoaded
  <2>2. Ops'
    <3>1. CASE End
      BY <3>1, EndOps
    <3>2. CASE op' = [op EXCEPT !.pc = "me"] /\ UNCHANGED busy
      <4>1. op \in Op /\ op.pc = "load"
        BY <1>0, <1>5 DEF OpLoaded, Ops
      <4>2. QED
        BY <1>0, <3>2, <4>1 DEF Ops, Op
    <3>3. QED
      BY <1>5, <3>1, <3>2 DEF OpLoaded
  <2>3. QED
    BY <1>0, <1>5, <2>1, <2>2, CardsStay, ServersStay DEF OpLoaded, IInv
<1>6. CASE StartWatch
  BY <1>0, <1>6, StartWatchCards, EndOps, RestStays, ServersStay DEF StartWatch, IInv
<1>7. QED
  BY <1>1, <1>2, <1>3, <1>4, <1>5, <1>6 DEF OpStep

LEMMA WatchKeeps ==
    ASSUME IInv, NEW w \in Watches, WatchStep(w)
    PROVE  IInv'
<1>0. Rest /\ Ops /\ Cards /\ Servers /\ w \in Frame /\ watch[w] \in Watching
  BY DEF Frame, Cards, IInv
<1>1. Servers' /\ Ops'
  BY <1>0, OpsStay, ServersStay DEF WatchStep, Poll, PollFails, WatchLoaded
<1>2. CASE PollFails(w)
  BY <1>0, <1>1, <1>2, EndWatchCards, RestStays DEF PollFails, IInv
<1>3. CASE WatchLoaded(w)
  BY <1>0, <1>1, <1>3, EndWatchCards, LoadedRest DEF WatchLoaded, IInv
<1>4. CASE Poll(w)
  <2> DEFINE tries == watch[w].tries + 1
  <2>1. /\ watch[w].pc = "poll" /\ UNCHANGED <<list, dialog>>
        /\ \/ /\ tries < MaxTries /\ spinner' = [spinner EXCEPT ![watch[w].sub] = "active"]
              /\ watch' = [watch EXCEPT ![w].tries = tries] /\ UNCHANGED load
           \/ EndWatch(w) /\ UNCHANGED load
           \/ spinner' = [spinner EXCEPT ![watch[w].sub] = "ended"] /\ Reload(w)
    BY <1>4 DEF Poll
  <2>2. CASE EndWatch(w) /\ UNCHANGED load
    BY <1>0, <1>1, <2>1, <2>2, EndWatchCards, RestStays DEF IInv
  <2>3. CASE tries < MaxTries /\ spinner' = [spinner EXCEPT ![watch[w].sub] = "active"]
             /\ watch' = [watch EXCEPT ![w].tries = tries] /\ UNCHANGED load
    <3> DEFINE k == [watch[w] EXCEPT !.tries = tries]
    <3>1. tries \in 0 .. MaxTries
      BY <1>0, <2>3, DashboardAssumption DEF Watching
    <3> HIDE DEF tries
    <3>2. k \in Watching /\ k.sub = watch[w].sub
      BY <1>0, <3>1 DEF Watching
    <3>3. watch' = [watch EXCEPT ![w] = k]
      BY <1>0, <2>3 DEF Cards
    <3> HIDE DEF k
    <3>4. Cards'
      BY <1>0, <2>1, <2>3, <3>2, <3>3, WatchGoesOn
    <3>5. QED
      BY <1>0, <1>1, <2>1, <2>3, <3>4, RestStays DEF IInv
  <2>4. CASE spinner' = [spinner EXCEPT ![watch[w].sub] = "ended"] /\ Reload(w)
    <3> DEFINE k == [watch[w] EXCEPT !.pc = "load"]
    <3>1. k \in Watching /\ k.sub = watch[w].sub
      BY <1>0 DEF Watching
    <3>2. watch' = [watch EXCEPT ![w] = k] /\ load' = [load EXCEPT ![w] = Asked]
      BY <1>0, <2>4 DEF Cards, Reload
    <3> HIDE DEF k
    <3>3. Cards'
      BY <1>0, <2>1, <2>4, <3>1, <3>2, WatchGoesOn
    <3>4. Rest'
      BY <1>0, <2>1, <3>2, Blank DEF Rest
    <3>5. QED
      BY <1>0, <1>1, <3>3, <3>4 DEF IInv
  <2>5. QED
    BY <2>1, <2>2, <2>3, <2>4
<1>5. QED
  BY <1>2, <1>3, <1>4 DEF WatchStep

LEMMA StepIInv == IInv /\ [Next]_vars => IInv'
<1> SUFFICES ASSUME IInv, [Next]_vars PROVE IInv'
  OBVIOUS
<1>1. CASE UNCHANGED vars
  BY <1>1, OpsStay, CardsStay, ServersStay, RestStays DEF vars, IInv
<1>2. ASSUME NEW s \in Sub, SetStatus(s) \/ Remove(s) \/ RequestSync(s) PROVE IInv'
  BY <1>2, StartKeeps DEF SetStatus, Remove, RequestSync
<1>3. CASE Resolve \/ Register
  BY <1>3, StartKeeps DEF Resolve, Register
<1>4. CASE Next
  BY <1>2, <1>3, <1>4, OpKeeps, DialogKeeps, EndRunKeeps, WatchKeeps, ReadChannelsKeeps, ReloadsKeep DEF Next
<1>5. QED
  BY <1>1, <1>4

(* Types of the page, the API's answers and the watches.                   *)
THEOREM DashboardTypeOK == Spec => []TypeOK
<1>1. IInv => TypeOK
  BY DEF IInv, TypeOK, Rest, Ops, Cards, Servers, Server, Loads, Op, Watching
<1>2. QED
  BY <1>1, InitIInv, StepIInv, PTL DEF Spec

(* A card that is locked on the word of a watch has one, however many      *)
(* watches of its channel start, overlap, fail and end.                    *)
THEOREM DashboardSpinnerHasWatch == Spec => []SpinnerHasWatch
<1>1. IInv => SpinnerHasWatch
  BY DEF IInv, Cards
<1>2. QED
  BY <1>1, InitIInv, StepIInv, PTL DEF Spec
=============================================================================
