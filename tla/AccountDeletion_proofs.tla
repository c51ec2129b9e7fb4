----------------------- MODULE AccountDeletion_proofs -----------------------
(***************************************************************************)
(* Proofs about AccountDeletion for any number of requests, users and      *)
(* calendars, whoever else acts: the steps of a deletion are recorded in   *)
(* order, and the calendar of the request is gone once that is recorded.   *)
(* Together the requests are the one procedure that DeletionSaga states,   *)
(* and what it completes leaves nothing while nobody connects or syncs.    *)
(***************************************************************************)
EXTENDS AccountDeletion, TLAPS

(* The steps a request has seen done when it is at a place.                *)
Reached == [p \in Place |->
    CASE p \in {"token", "revoke", "markToken"} -> {"calendar"}
      [] p = "data" -> {"calendar", "token"}
      [] p \in {"auth", "deleteAuth", "markAuth"} -> {"calendar", "token", "data"}
      [] p = "complete" -> {"calendar", "token", "data", "auth"}
      [] OTHER -> {}]

InOrder(t) == \A s \in t.steps : StepBefore[s] \subseteq t.steps
Gone(t, c) == "calendar" \in t.steps /\ t.calendar # 0 => t.calendar \notin c

(* What a request j knows of the tombstone t, the calendars c and their    *)
(* number m: its copy of the tombstone is an old one; it takes the user    *)
(* for deleted only after the calendar step; and where it is about to      *)
(* record that step, the calendar is not there.                            *)
Knows(j, t, c, m) ==
    /\ j.seen.steps \subseteq t.steps
    /\ j.seen.status # "none" => t.status # "none" /\ j.seen.calendar = t.calendar
    /\ j.pc \notin {"idle", "user", "begin"} => j.seen.status # "none"
    /\ j.pc \notin {"idle", "user"} /\ j.user = 0 => "calendar" \in t.steps
    /\ j.calendar <= m
    /\ Reached[j.pc] \subseteq j.seen.steps
    /\ j.pc = "markCalendar" => \/ j.seen.calendar = 0 \/ j.seen.calendar \notin c
                                \/ "calendar" \in t.steps

(* What holds of the rows and of the calendars.                            *)
World ==
    /\ cals \subseteq 1 .. made
    /\ tomb.calendar <= made /\ user.calendar <= made
    /\ \A a \in Actor : act[a].calendar <= made
    /\ user.id = 0 => "calendar" \in tomb.steps
    /\ tomb.status = "none" => tomb = NoTomb

IInv ==
    /\ TypeOK /\ World /\ InOrder(tomb) /\ Gone(tomb, cals)
    /\ \A d \in Request : Knows(req[d], tomb, cals, made)

-----------------------------------------------------------------------------
(* About tombstones.                                                       *)

LEMMA StepsBefore ==
    /\ StepBefore["calendar"] = {} /\ StepBefore["token"] = {"calendar"}
    /\ StepBefore["data"] = {"calendar", "token"}
    /\ StepBefore["auth"] = {"calendar", "token", "data"}
    /\ StepBefore["complete"] = {"calendar", "token", "data", "auth"}
  BY DEF StepBefore, Step

LEMMA ReachedIs ==
    /\ \A p \in {"token", "revoke", "markToken"} : Reached[p] = {"calendar"}
    /\ Reached["data"] = {"calendar", "token"}
    /\ \A p \in {"auth", "deleteAuth", "markAuth"} :
          Reached[p] = {"calendar", "token", "data"}
    /\ Reached["complete"] = {"calendar", "token", "data", "auth"}
    /\ \A p \in {"idle", "user", "begin", "acquire", "calendar", "deleteCalendar",
                 "markCalendar", "fail", "release"} : Reached[p] = {}
  BY DEF Reached, Place

(* A tombstone that goes on from another one.                              *)
Grown(t, u) ==
    /\ t.steps \subseteq u.steps
    /\ t.status # "none" => u.status # "none" /\ u.calendar = t.calendar

(* What a request knows stays true.                                        *)
LEMMA KnowsKept ==
    ASSUME NEW j \in RequestState, NEW t \in Tombstone, NEW u \in Tombstone,
           NEW c, NEW c2, NEW m \in Nat, NEW m2 \in Nat,
           Knows(j, t, c, m), Grown(t, u), t.calendar <= m, m <= m2,
           \A k \in c2 : k \in c \/ (k \in Nat /\ k > m)
    PROVE  Knows(j, u, c2, m2)
<1>1. j.calendar \in Nat /\ j.seen.calendar \in Nat /\ t.calendar \in Nat
  BY ParametersAssumption DEF RequestState, Tombstone, Calendar
<1>2. j.calendar <= m2
  BY <1>1 DEF Knows
<1>3. j.pc = "markCalendar" => \/ j.seen.calendar = 0 \/ j.seen.calendar \notin c2
                               \/ "calendar" \in u.steps
  BY <1>1 DEF Knows, Grown
<1>4. QED
  BY <1>2, <1>3 DEF Knows, Grown

(* A recorded step that was due.                                           *)
LEMMA StepRecorded ==
    ASSUME NEW t \in Tombstone, NEW u \in Tombstone, NEW step \in Step,
           InOrder(t), u.steps = t.steps \cup {step}, StepBefore[step] \subseteq t.steps
    PROVE  InOrder(u)
  BY DEF InOrder

-----------------------------------------------------------------------------
(* The initial state, and the frames of the three kinds of steps.          *)

LEMMA NoRequestKnows ==
    ASSUME NEW t, NEW c, NEW m \in Nat
    PROVE  NoRequest \in RequestState /\ Knows(NoRequest, t, c, m)
  BY ParametersAssumption, ReachedIs
     DEF NoRequest, NoTomb, RequestState, Tombstone, Place, Calendar, UserId, Status, Step, Knows

LEMMA InitIInv == Init => IInv
<1> SUFFICES ASSUME Init PROVE IInv
  OBVIOUS
<1>1. made \in {0, 1} /\ user = [id |-> 1, calendar |-> made, credential |-> TRUE]
      /\ cals = 1 .. made
  BY DEF Init
<1>2. NoTomb \in Tombstone
  BY ParametersAssumption DEF NoTomb, Tombstone, Status, UserId, Calendar
<1>3. TypeOK
  <2>1. user \in [id : UserId, calendar : Calendar, credential : BOOLEAN]
    BY <1>1, ParametersAssumption DEF UserId, Calendar
  <2>2. NoActor \in ActorState
    BY ParametersAssumption DEF NoActor, ActorState, UserId, Calendar
  <2>3. req \in [Request -> RequestState]
    BY NoRequestKnows DEF Init
  <2>4. cals \subseteq 1 .. MaxCalendar /\ made \in Calendar /\ users \in UserId
    BY <1>1, ParametersAssumption DEF Init, Calendar, UserId
  <2>5. QED
    BY <1>2, <2>1, <2>2, <2>3, <2>4 DEF Init, TypeOK
<1>4. World
  BY <1>1 DEF Init, World, NoTomb, NoActor
<1>5. InOrder(tomb) /\ Gone(tomb, cals)
  BY DEF Init, NoTomb, InOrder, Gone
<1>6. \A d \in Request : Knows(req[d], tomb, cals, made)
  BY <1>1, NoRequestKnows DEF Init
<1>7. QED
  BY <1>3, <1>4, <1>5, <1>6 DEF IInv

LEMMA ActorsStay ==
    ASSUME IInv, UNCHANGED actors
    PROVE  UNCHANGED beside /\ pending' \in Pending
  BY DEF actors, IInv, TypeOK

(* One request goes on; tombstone, user and calendars may change.          *)
LEMMA RequestStep ==
    ASSUME IInv, NEW d \in Request, NEW j \in RequestState,
           req' = [req EXCEPT ![d] = j], Knows(j, tomb', cals', made),
           tomb' \in Tombstone, Grown(tomb, tomb'), InOrder(tomb'), Gone(tomb', cals'),
           cals' \subseteq cals, tomb'.calendar <= made, tomb'.status = "none" => tomb' = NoTomb,
           user' \in [id : UserId, calendar : Calendar, credential : BOOLEAN],
           user'.calendar <= made, user'.id = 0 => "calendar" \in tomb'.steps,
           holder' \in Request \cup {Nobody}, {grant', auth'} \subseteq BOOLEAN,
           UNCHANGED beside, pending' \in Pending
    PROVE  IInv'
<1>1. made' = made /\ act' = act /\ users' = users
  BY DEF beside
<1>2. TypeOK'
  <2>1. req' \in [Request -> RequestState]
    BY DEF IInv, TypeOK
  <2>2. cals' \subseteq 1 .. MaxCalendar
    BY DEF IInv, TypeOK
  <2>3. QED
    BY <1>1, <2>1, <2>2 DEF IInv, TypeOK
<1>3. World'
  BY <1>1 DEF IInv, World
<1>4. made \in Nat /\ tomb \in Tombstone /\ tomb.calendar <= made
  BY ParametersAssumption DEF IInv, TypeOK, World, Calendar
<1>5. \A e \in Request : Knows(req'[e], tomb', cals', made)
  <2> TAKE e \in Request
  <2>1. CASE e = d
    <3>1. req'[e] = j
      BY <2>1 DEF IInv, TypeOK
    <3>2. QED
      BY <3>1
  <2>2. CASE e # d
    <3>1. req'[e] = req[e] /\ req[e] \in RequestState /\ Knows(req[e], tomb, cals, made)
      BY <2>2 DEF IInv, TypeOK
    <3>2. Knows(req[e], tomb', cals', made)
      BY <1>4, <3>1, KnowsKept
    <3>3. QED
      BY <3>1, <3>2
  <2>3. QED
    BY <2>1, <2>2
<1>6. QED
  BY <1>1, <1>2, <1>3, <1>5 DEF IInv, Gone, InOrder, Knows

(* The same where the request alone changes, and perhaps the lease.        *)
LEMMA LocalStep ==
    ASSUME IInv, NEW d \in Request, NEW j \in RequestState,
           req' = [req EXCEPT ![d] = j], Knows(j, tomb, cals, made),
           UNCHANGED <<tomb, user, outside, actors>>, holder' \in Request \cup {Nobody}
    PROVE  IInv'
<1>1. tomb' = tomb /\ user' = user /\ cals' = cals /\ grant' = grant /\ auth' = auth
  BY DEF outside
<1>2. Grown(tomb, tomb)
  BY DEF Grown
<1>3. /\ tomb \in Tombstone /\ {grant, auth} \subseteq BOOLEAN
      /\ user \in [id : UserId, calendar : Calendar, credential : BOOLEAN]
      /\ InOrder(tomb) /\ Gone(tomb, cals) /\ World
  BY DEF IInv, TypeOK
<1>4. QED
  BY <1>1, <1>2, <1>3, RequestStep, ActorsStay DEF World

(* Other actors: the requests, the tombstone and the lease stay.           *)
LEMMA WorldStep ==
    ASSUME IInv, UNCHANGED deletion,
           user' \in [id : UserId, calendar : Calendar, credential : BOOLEAN],
           act' \in [Actor -> ActorState],
           {grant', auth'} \subseteq BOOLEAN /\ pending' \in Pending,
           made' \in Calendar, users' \in UserId, cals' \subseteq 1 .. MaxCalendar,
           made <= made', cals' \subseteq cals \cup (made + 1 .. made'),
           user'.calendar <= made', user'.id = 0 => user.id = 0,
           \A a \in Actor : act'[a].calendar <= made'
    PROVE  IInv'
<1>1. tomb' = tomb /\ holder' = holder /\ req' = req
  BY DEF deletion
<1>2. made \in Nat /\ made' \in Nat /\ tomb \in Tombstone /\ tomb.calendar \in Nat
      /\ tomb.calendar <= made
  BY ParametersAssumption DEF IInv, TypeOK, World, Calendar, Tombstone
<1>3. TypeOK'
  BY <1>1 DEF IInv, TypeOK
<1>4. World'
  <2>1. cals' \subseteq 1 .. made'
    BY <1>2 DEF IInv, World
  <2>2. QED
    BY <1>1, <1>2, <2>1 DEF IInv, World
<1>5. Gone(tomb, cals')
  BY <1>2 DEF IInv, Gone
<1>6. Grown(tomb, tomb) /\ \A k \in cals' : k \in cals \/ (k \in Nat /\ k > made)
  BY <1>2 DEF Grown
<1>7. \A d \in Request : Knows(req[d], tomb, cals', made')
  BY <1>2, <1>6, KnowsKept DEF IInv, TypeOK
<1>8. QED
  BY <1>1, <1>3, <1>4, <1>5, <1>7 DEF IInv, Gone, InOrder, Knows

-----------------------------------------------------------------------------
(* The steps of a request.                                                 *)

LEMMA Facts ==
    ASSUME IInv, NEW d \in Request
    PROVE  /\ req[d] \in RequestState /\ Knows(req[d], tomb, cals, made)
           /\ req \in [Request -> RequestState] /\ tomb \in Tombstone
           /\ user \in [id : UserId, calendar : Calendar, credential : BOOLEAN]
           /\ holder \in Request \cup {Nobody}
           /\ {grant, auth} \subseteq BOOLEAN /\ pending \in Pending
           /\ World /\ InOrder(tomb) /\ Gone(tomb, cals) /\ made \in Nat
  BY ParametersAssumption DEF IInv, TypeOK, Calendar

(* A request that goes to another place, with or without an outside effect. *)
LEMMA GotoStep ==
    ASSUME IInv, NEW d \in Request, NEW place \in Place, Goto(d, place),
           req[d].pc \notin {"idle", "user", "begin"},
           Reached[place] \subseteq req[d].seen.steps,
           place = "markCalendar" => \/ req[d].seen.calendar = 0
                                     \/ req[d].seen.calendar \notin cals'
                                     \/ "calendar" \in tomb.steps,
           UNCHANGED <<tomb, user, actors>>, holder' \in Request \cup {Nobody},
           cals' \subseteq cals, {grant', auth'} \subseteq BOOLEAN
    PROVE  IInv'
<1> DEFINE j == [req[d] EXCEPT !.pc = place]
<1>1. j \in RequestState /\ j.pc = place /\ j.seen = req[d].seen /\ j.user = req[d].user
      /\ j.calendar = req[d].calendar
  BY Facts DEF RequestState
<1>2. req' = [req EXCEPT ![d] = j]
  BY DEF Goto
<1> HIDE DEF j
<1>3. Knows(j, tomb, cals', made)
  BY <1>1, Facts DEF Knows
<1>4. Grown(tomb, tomb) /\ Gone(tomb, cals')
  BY Facts DEF Grown, Gone
<1>5. tomb' = tomb /\ user' = user
  OBVIOUS
<1>6. QED
  BY <1>1, <1>2, <1>3, <1>4, <1>5, Facts, RequestStep, ActorsStay DEF World

(* A request that records a step.                                          *)
LEMMA MarkStep ==
    ASSUME IInv, NEW d \in Request, NEW step \in Step, NEW status \in Status \ {"none"},
           NEW to \in Place \ {"markCalendar"}, Mark(d, step, status, to),
           req[d].pc \notin {"idle", "user", "begin"},
           StepBefore[step] \subseteq req[d].seen.steps,
           Reached[to] \subseteq req[d].seen.steps \cup {step},
           step = "calendar" => \/ req[d].seen.calendar = 0
                                \/ req[d].seen.calendar \notin cals
                                \/ "calendar" \in tomb.steps
    PROVE  IInv'
<1> DEFINE j == [req[d] EXCEPT !.pc = to, !.seen.steps = @ \cup {step}]
<1>1. /\ tomb' = [tomb EXCEPT !.status = status, !.steps = @ \cup {step}]
      /\ req' = [req EXCEPT ![d] = j] /\ UNCHANGED <<user, holder, outside, actors>>
  BY Facts DEF Mark
<1>2. tomb' \in Tombstone /\ tomb'.status = status /\ tomb'.calendar = tomb.calendar
      /\ tomb'.steps = tomb.steps \cup {step}
  BY <1>1, Facts DEF Tombstone
<1>3. j \in RequestState /\ j.pc = to /\ j.user = req[d].user /\ j.calendar = req[d].calendar
      /\ j.seen.status = req[d].seen.status /\ j.seen.calendar = req[d].seen.calendar
      /\ j.seen.steps = req[d].seen.steps \cup {step}
  BY Facts DEF RequestState, Tombstone
<1> HIDE DEF j
<1>4. tomb.status # "none" /\ req[d].seen.steps \subseteq tomb.steps
      /\ req[d].seen.calendar = tomb.calendar
  BY Facts DEF Knows
<1>5. Grown(tomb, tomb')
  BY <1>2 DEF Grown
<1>6. InOrder(tomb')
  BY <1>2, <1>4, Facts, StepRecorded
<1>7. Gone(tomb', cals)
  BY <1>2, <1>4, Facts DEF Gone
<1>8. Knows(j, tomb', cals, made)
  <2>1. j.seen.steps \subseteq tomb'.steps /\ Reached[j.pc] \subseteq j.seen.steps
    BY <1>2, <1>3, <1>4
  <2>2. j.seen.status # "none" => tomb'.status # "none" /\ j.seen.calendar = tomb'.calendar
    BY <1>2, <1>3, <1>4
  <2>3. j.seen.status # "none" /\ j.pc # "markCalendar" /\ j.calendar <= made
        /\ (j.user = 0 => "calendar" \in tomb'.steps)
    BY <1>2, <1>3, Facts DEF Knows
  <2>4. QED
    BY <2>1, <2>2, <2>3 DEF Knows
<1>9. /\ user' = user /\ holder' = holder /\ cals' = cals /\ grant' = grant /\ auth' = auth
      /\ UNCHANGED actors
  BY <1>1 DEF outside
<1>10. user.id = 0 => "calendar" \in tomb'.steps
  BY <1>2, Facts DEF World
<1>11. tomb'.calendar <= made /\ tomb'.status # "none" /\ user.calendar <= made
  BY <1>2, Facts DEF World
<1>12. QED
  BY <1>1, <1>2, <1>3, <1>5, <1>6, <1>7, <1>8, <1>9, <1>10, <1>11, Facts, RequestStep, ActorsStay

(* A request that is over.                                                 *)
LEMMA EndStep ==
    ASSUME IInv, NEW d \in Request, req' = [req EXCEPT ![d] = NoRequest],
           UNCHANGED <<tomb, user, outside, actors>>, holder' \in Request \cup {Nobody}
    PROVE  IInv'
  BY Facts, NoRequestKnows, LocalStep

(* Before the lease, up to the first reads.                                *)
LEMMA ReadStep ==
    ASSUME IInv, NEW d \in Request, Find(d) \/ FindUser(d) \/ Begin(d) \/ Acquire(d)
    PROVE  IInv'
<1>1. CASE Find(d)
  <2> DEFINE j == [NoRequest EXCEPT !.pc = "user", !.seen = tomb]
  <2>1. j \in RequestState /\ j.pc = "user" /\ j.seen = tomb /\ j.calendar = 0
    BY Facts, NoRequestKnows DEF NoRequest, RequestState, Place
  <2>2. req' = [req EXCEPT ![d] = j] /\ UNCHANGED <<tomb, user, holder, outside, actors>>
    BY <1>1 DEF Find
  <2> HIDE DEF j
  <2>3. Knows(j, tomb, cals, made)
    BY <2>1, Facts, ReachedIs DEF Knows
  <2>4. QED
    BY <2>1, <2>2, <2>3, Facts, LocalStep
<1>2. CASE FindUser(d)
  <2>1. UNCHANGED <<tomb, user, holder, outside, actors>>
    BY <1>2 DEF FindUser
  <2> DEFINE j == [req[d] EXCEPT !.pc = IF req[d].seen.status # "none" THEN "acquire" ELSE "begin",
                                 !.user = user.id, !.calendar = user.calendar]
  <2>2. CASE req[d].seen.status = "none" /\ user.id = 0
    <3>1. req' = [req EXCEPT ![d] = NoRequest]
      BY <1>2, <2>2 DEF FindUser
    <3>2. QED
      BY <2>1, <3>1, Facts, EndStep
  <2>3. CASE req[d].seen.status # "none" \/ user.id # 0
    <3>1. req' = [req EXCEPT ![d] = j]
      <4>1. CASE req[d].seen.status # "none"
        BY <1>2, <4>1 DEF FindUser
      <4>2. CASE req[d].seen.status = "none" /\ user.id # 0
        BY <1>2, <4>2 DEF FindUser
      <4>3. QED
        BY <2>3, <4>1, <4>2
    <3>2. /\ j \in RequestState /\ j.seen = req[d].seen /\ j.user = user.id
          /\ j.calendar = user.calendar
          /\ j.pc = IF req[d].seen.status # "none" THEN "acquire" ELSE "begin"
      BY Facts DEF RequestState, Place
    <3> HIDE DEF j
    <3>3. Knows(j, tomb, cals, made)
      BY <2>3, <3>2, Facts, ReachedIs DEF Knows, World
    <3>4. QED
      BY <2>1, <3>1, <3>2, <3>3, Facts, LocalStep
  <2>4. QED
    BY <2>2, <2>3
<1>3. CASE Begin(d)
  <2> DEFINE j == [req[d] EXCEPT !.pc = "acquire", !.seen = tomb']
             new == [status |-> "REQUESTED", user |-> req[d].user,
                     calendar |-> req[d].calendar, steps |-> {}]
  <2>1. /\ req[d].pc = "begin" /\ tomb' = IF tomb.status # "none" THEN tomb ELSE new
        /\ req' = [req EXCEPT ![d] = j] /\ UNCHANGED <<user, holder, outside, actors>>
    BY <1>3 DEF Begin
  <2>2. new \in Tombstone /\ new.status = "REQUESTED" /\ new.steps = {}
        /\ new.calendar = req[d].calendar
    BY Facts DEF RequestState, Tombstone, Status
  <2> HIDE DEF new
  <2>3. tomb' \in Tombstone /\ tomb'.status # "none" /\ tomb'.steps = tomb.steps
        /\ tomb'.calendar <= made
    <3>1. CASE tomb.status # "none"
      BY <2>1, <3>1, Facts DEF World
    <3>2. CASE tomb.status = "none"
      <4>1. tomb' = new /\ tomb.steps = {} /\ req[d].calendar <= made
        BY <2>1, <3>2, Facts DEF World, NoTomb, Knows
      <4>2. QED
        BY <2>2, <4>1
    <3>3. QED
      BY <3>1, <3>2
  <2>4. j \in RequestState /\ j.pc = "acquire" /\ j.seen = tomb' /\ j.user = req[d].user
        /\ j.calendar = req[d].calendar
    BY <2>3, Facts DEF RequestState, Place
  <2> HIDE DEF j
  <2>5. Knows(j, tomb', cals, made)
    BY <2>1, <2>3, <2>4, Facts, ReachedIs DEF Knows
  <2>6. Grown(tomb, tomb') /\ InOrder(tomb') /\ Gone(tomb', cals)
    BY <2>1, <2>2, <2>3, Facts DEF Grown, InOrder, Gone
  <2>7. user' = user /\ holder' = holder /\ cals' = cals /\ grant' = grant /\ auth' = auth
        /\ UNCHANGED actors
    BY <2>1 DEF outside
  <2>8. user.calendar <= made /\ (user.id = 0 => "calendar" \in tomb'.steps)
    BY <2>3, Facts DEF World
  <2>9. QED
    BY <2>1, <2>3, <2>4, <2>5, <2>6, <2>7, <2>8, Facts, RequestStep, ActorsStay
<1>4. CASE Acquire(d)
  <2>1. req[d].pc = "acquire" /\ UNCHANGED <<tomb, user, outside, actors>>
    BY <1>4 DEF Acquire
  <2>2. CASE holder = Nobody
    <3>1. holder' = d /\ Goto(d, "calendar")
      BY <1>4, <2>2 DEF Acquire
    <3>2. QED
      BY <2>1, <3>1, Facts, ReachedIs, GotoStep DEF Place, outside
  <2>3. CASE holder # Nobody
    <3>1. req' = [req EXCEPT ![d] = NoRequest] /\ holder' = holder
      BY <1>4, <2>3 DEF Acquire
    <3>2. QED
      BY <2>1, <3>1, Facts, EndStep
  <2>4. QED
    BY <2>2, <2>3
<1>5. QED
  BY <1>1, <1>2, <1>3, <1>4

(* The places where a step begins.                                         *)
LEMMA StartStep ==
    ASSUME IInv, NEW d \in Request,
           \/ StartCalendar(d) \/ StartToken(d) \/ StartAuth(d) \/ Fails(d)
    PROVE  IInv'
<1>1. UNCHANGED <<tomb, user, holder, outside, actors>>
  BY DEF StartCalendar, StartToken, StartAuth, Fails
<1>2. UNCHANGED <<tomb, user, actors>> /\ holder' \in Request \cup {Nobody}
      /\ cals' = cals /\ {grant', auth'} \subseteq BOOLEAN
  BY <1>1, Facts DEF outside
<1>3. req[d] \in RequestState /\ Knows(req[d], tomb, cals, made)
  BY Facts
<1>4. CASE StartCalendar(d)
  <2> DEFINE place == IF Seen(d, "calendar") THEN "token"
                      ELSE IF req[d].user # 0 /\ req[d].seen.calendar # 0
                           THEN "deleteCalendar" ELSE "markCalendar"
  <2>1. Goto(d, place) /\ req[d].pc = "calendar"
    BY <1>4 DEF StartCalendar
  <2>2. place \in Place /\ Reached[place] \subseteq req[d].seen.steps
    BY ReachedIs DEF Seen, Place
  <2>3. place = "markCalendar" => req[d].seen.calendar = 0 \/ "calendar" \in tomb.steps
    BY <1>3, <2>1 DEF Knows
  <2> HIDE DEF place
  <2>4. QED
    BY <1>2, <2>1, <2>2, <2>3, GotoStep
<1>5. CASE StartToken(d)
  <2> DEFINE place == IF Seen(d, "token") THEN "data"
                      ELSE IF req[d].user # 0 THEN "revoke" ELSE "markToken"
  <2>1. Goto(d, place) /\ req[d].pc = "token" /\ place \in Place /\ place # "markCalendar"
    BY <1>5 DEF StartToken, Place
  <2>2. Reached[place] \subseteq req[d].seen.steps
    BY <1>3, <2>1, ReachedIs DEF Seen, Knows
  <2> HIDE DEF place
  <2>3. QED
    BY <1>2, <2>1, <2>2, GotoStep
<1>6. CASE StartAuth(d)
  <2> DEFINE place == IF Seen(d, "auth") THEN "complete" ELSE "deleteAuth"
  <2>1. Goto(d, place) /\ req[d].pc = "auth" /\ place \in Place /\ place # "markCalendar"
    BY <1>6 DEF StartAuth, Place
  <2>2. Reached[place] \subseteq req[d].seen.steps
    BY <1>3, <2>1, ReachedIs DEF Seen, Knows
  <2> HIDE DEF place
  <2>3. QED
    BY <1>2, <2>1, <2>2, GotoStep
<1>7. CASE Fails(d)
  <2>1. Goto(d, "fail") /\ req[d].pc \notin {"idle", "user", "begin"}
    BY <1>7 DEF Fails, Step
  <2>2. Reached["fail"] \subseteq req[d].seen.steps /\ "fail" \in Place
    BY ReachedIs DEF Place
  <2>3. QED
    BY <1>2, <2>1, <2>2, GotoStep
<1>8. QED
  BY <1>4, <1>5, <1>6, <1>7

(* The outside calls.                                                      *)
LEMMA OutsideStep ==
    ASSUME IInv, NEW d \in Request, DeleteCalendar(d) \/ Revoke(d) \/ DeleteAuth(d)
    PROVE  IInv'
<1>1. req[d] \in RequestState /\ Knows(req[d], tomb, cals, made)
  BY Facts
<1>2. Reached["markCalendar"] = {} /\ Reached["fail"] = {}
      /\ {"markCalendar", "markToken", "markAuth", "fail"} \subseteq Place
  BY ReachedIs DEF Place
<1>3. CASE DeleteCalendar(d)
  <2>1. /\ req[d].pc = "deleteCalendar" /\ cals' = cals \ {req[d].seen.calendar}
        /\ UNCHANGED <<tomb, user, holder, grant, auth, actors>>
    BY <1>3 DEF DeleteCalendar
  <2>2. PICK place \in {"markCalendar", "fail"} : Goto(d, place)
    BY <1>3 DEF DeleteCalendar
  <2>3. Reached[place] \subseteq req[d].seen.steps /\ place \in Place
    BY <1>2, <2>2
  <2>4. QED
    BY <2>1, <2>2, <2>3, Facts, GotoStep
<1>4. CASE Revoke(d)
  <2>1. /\ req[d].pc = "revoke" /\ grant' \in BOOLEAN
        /\ UNCHANGED <<tomb, user, holder, cals, auth, actors>>
    BY <1>4 DEF Revoke
  <2>2. PICK place \in {"markToken", "fail"} : Goto(d, place)
    BY <1>4 DEF Revoke
  <2>3. Reached[place] \subseteq req[d].seen.steps /\ place \in Place
    BY <1>1, <1>2, <2>1, <2>2, ReachedIs DEF Knows
  <2>4. QED
    BY <2>1, <2>2, <2>3, Facts, GotoStep
<1>5. CASE DeleteAuth(d)
  <2>1. /\ req[d].pc = "deleteAuth" /\ auth' \in BOOLEAN
        /\ UNCHANGED <<tomb, user, holder, cals, grant, actors>>
    BY <1>5 DEF DeleteAuth
  <2>2. PICK place \in {"markAuth", "fail"} : Goto(d, place)
    BY <1>5 DEF DeleteAuth
  <2>3. Reached[place] \subseteq req[d].seen.steps /\ place \in Place
    BY <1>1, <1>2, <2>1, <2>2, ReachedIs DEF Knows
  <2>4. QED
    BY <2>1, <2>2, <2>3, Facts, GotoStep
<1>6. QED
  BY <1>3, <1>4, <1>5

(* The records of the steps.                                               *)
LEMMA RecordStep ==
    ASSUME IInv, NEW d \in Request,
           MarkCalendar(d) \/ MarkToken(d) \/ MarkAuth(d) \/ Complete(d)
    PROVE  IInv'
<1>1. req[d] \in RequestState /\ Knows(req[d], tomb, cals, made)
  BY Facts
<1>2. {"token", "data", "complete", "release"} \subseteq Place \ {"markCalendar"}
      /\ {"CALENDAR_DELETED", "TOKEN_REVOKED", "AUTH_DELETED", "COMPLETED"}
            \subseteq Status \ {"none"}
      /\ {"calendar", "token", "auth", "complete"} \subseteq Step
  BY DEF Place, Status, Step
<1>3. CASE MarkCalendar(d)
  <2>1. req[d].pc = "markCalendar" /\ Mark(d, "calendar", "CALENDAR_DELETED", "token")
    BY <1>3 DEF MarkCalendar
  <2>2. \/ req[d].seen.calendar = 0 \/ req[d].seen.calendar \notin cals
        \/ "calendar" \in tomb.steps
    BY <1>1, <2>1 DEF Knows
  <2>3. QED
    BY <1>2, <2>1, <2>2, ReachedIs, StepsBefore, MarkStep
<1>4. CASE MarkToken(d)
  <2>1. req[d].pc = "markToken" /\ Mark(d, "token", "TOKEN_REVOKED", "data")
    BY <1>4 DEF MarkToken
  <2>2. "calendar" \in req[d].seen.steps
    BY <1>1, <2>1, ReachedIs DEF Knows
  <2>3. QED
    BY <1>2, <2>1, <2>2, ReachedIs, StepsBefore, MarkStep
<1>5. CASE MarkAuth(d)
  <2>1. req[d].pc = "markAuth" /\ Mark(d, "auth", "AUTH_DELETED", "complete")
    BY <1>5 DEF MarkAuth
  <2>2. {"calendar", "token", "data"} \subseteq req[d].seen.steps
    BY <1>1, <2>1, ReachedIs DEF Knows
  <2>3. QED
    BY <1>2, <2>1, <2>2, ReachedIs, StepsBefore, MarkStep
<1>6. CASE Complete(d)
  <2>1. req[d].pc = "complete"
    BY <1>6 DEF Complete
  <2>2. {"calendar", "token", "data", "auth"} \subseteq req[d].seen.steps
    BY <1>1, <2>1, ReachedIs DEF Knows
  <2>3. CASE Seen(d, "complete")
    <3>1. Goto(d, "release") /\ UNCHANGED <<tomb, user, holder, outside, actors>>
      BY <1>6, <2>3 DEF Complete
    <3>2. QED
      BY <1>2, <2>1, <3>1, Facts, ReachedIs, GotoStep DEF outside
  <2>4. CASE ~ Seen(d, "complete")
    <3>1. Mark(d, "complete", "COMPLETED", "release")
      BY <1>6, <2>4 DEF Complete
    <3>2. QED
      BY <1>2, <2>1, <2>2, <3>1, ReachedIs, StepsBefore, MarkStep
  <2>5. QED
    BY <2>3, <2>4
<1>7. QED
  BY <1>3, <1>4, <1>5, <1>6

(* The rows of the user and their record.                                  *)
LEMMA DataStep ==
    ASSUME IInv, NEW d \in Request, DeleteData(d)
    PROVE  IInv'
<1>1. req[d].pc = "data" /\ UNCHANGED <<holder, outside, beside>>
  BY DEF DeleteData
<1>2. {"calendar", "token"} \subseteq req[d].seen.steps
      /\ req[d].seen.steps \subseteq tomb.steps /\ req[d].seen.status # "none"
      /\ tomb.status # "none" /\ req[d].seen.calendar = tomb.calendar
  BY <1>1, Facts, ReachedIs DEF Knows
<1>3. CASE Seen(d, "data")
  <2>1. Goto(d, "auth") /\ UNCHANGED <<tomb, user, actors>>
    BY <1>1, <1>3 DEF DeleteData, actors
  <2>2. "auth" \in Place /\ Reached["auth"] \subseteq req[d].seen.steps
    BY <1>2, <1>3, ReachedIs DEF Place, Seen
  <2>3. QED
    BY <1>1, <2>1, <2>2, Facts, GotoStep DEF outside
<1>4. CASE ~ Seen(d, "data")
  <2> DEFINE j == [req[d] EXCEPT !.pc = "auth", !.user = 0, !.seen.steps = @ \cup {"data"}]
  <2>1. req' = [req EXCEPT ![d] = j]
        /\ user' = (IF req[d].seen.user # 0 /\ user.id = req[d].seen.user THEN NoUser ELSE user)
        /\ tomb' = [tomb EXCEPT !.status = "DATA_DELETED", !.steps = @ \cup {"data"},
                                !.user = IF req[d].seen.user # 0 THEN 0 ELSE @]
    BY <1>4, Facts DEF DeleteData
  <2>2. 0 \in UserId /\ 0 \in Calendar /\ "data" \in Step /\ "DATA_DELETED" \in Status
        /\ "auth" \in Place
    BY ParametersAssumption DEF UserId, Calendar, Step, Status, Place
  <2>3. tomb' \in Tombstone /\ tomb'.status = "DATA_DELETED" /\ tomb'.calendar = tomb.calendar
        /\ tomb'.steps = tomb.steps \cup {"data"}
    BY <2>1, <2>2, Facts DEF Tombstone
  <2>4. j \in RequestState /\ j.pc = "auth" /\ j.user = 0 /\ j.calendar = req[d].calendar
        /\ j.seen.status = req[d].seen.status /\ j.seen.calendar = req[d].seen.calendar
        /\ j.seen.steps = req[d].seen.steps \cup {"data"}
    BY <2>2, Facts DEF RequestState, Tombstone
  <2> HIDE DEF j
  <2>5. Knows(j, tomb', cals, made)
    <3>1. j.seen.steps \subseteq tomb'.steps /\ Reached[j.pc] \subseteq j.seen.steps
          /\ "calendar" \in tomb'.steps
      BY <1>2, <2>3, <2>4, ReachedIs
    <3>2. j.calendar <= made
      BY <2>4, Facts DEF Knows
    <3>3. QED
      BY <1>2, <2>3, <2>4, <3>1, <3>2 DEF Knows
  <2>6. Grown(tomb, tomb')
    BY <2>3 DEF Grown
  <2>7. InOrder(tomb')
    BY <1>2, <2>2, <2>3, Facts, StepsBefore, StepRecorded
  <2>8. Gone(tomb', cals)
    BY <2>3, Facts DEF Gone
  <2>9. user' \in [id : UserId, calendar : Calendar, credential : BOOLEAN]
        /\ user'.calendar <= made
    <3>1. NoUser \in [id : UserId, calendar : Calendar, credential : BOOLEAN]
          /\ NoUser.calendar = 0
      BY <2>2 DEF NoUser
    <3>2. QED
      BY <2>1, <3>1, Facts DEF World
  <2>p. pending' \in Pending
    <3>1. NonePending \in Pending
      BY DEF NonePending, Pending
    <3>2. pending' \in {pending, NonePending}
      BY <1>4 DEF DeleteData
    <3>3. QED
      BY <3>1, <3>2, Facts
  <2>10. holder' = holder /\ cals' = cals /\ grant' = grant /\ auth' = auth /\ UNCHANGED beside
    BY <1>1 DEF outside
  <2>11. tomb'.calendar <= made /\ tomb'.status # "none" /\ "calendar" \in tomb'.steps
    BY <1>2, <2>3, Facts DEF World
  <2>12. QED
    BY <2>1, <2>3, <2>4, <2>5, <2>6, <2>7, <2>8, <2>9, <2>p, <2>10, <2>11, Facts, RequestStep
<1>5. QED
  BY <1>3, <1>4

(* The ways out of a request, and the lapse of the lease.                  *)
LEMMA LeaveStep ==
    ASSUME IInv, NEW d \in Request, MarkFailed(d) \/ Release(d) \/ Crash(d)
    PROVE  IInv'
<1>1. CASE MarkFailed(d)
  <2> DEFINE j == [req[d] EXCEPT !.pc = "release"]
  <2>1. /\ req[d].pc = "fail" /\ req' = [req EXCEPT ![d] = j]
        /\ tomb' = (IF holder = d THEN [tomb EXCEPT !.status = "FAILED"] ELSE tomb)
        /\ UNCHANGED <<user, holder, outside, actors>>
    BY <1>1 DEF MarkFailed, Goto
  <2>2. tomb.status # "none" /\ req[d].seen.status # "none"
    BY <2>1, Facts DEF Knows
  <2>3. tomb' \in Tombstone /\ tomb'.status # "none" /\ tomb'.calendar = tomb.calendar
        /\ tomb'.steps = tomb.steps
    BY <2>1, <2>2, Facts DEF Tombstone, Status
  <2>4. j \in RequestState /\ j.pc = "release" /\ j.seen = req[d].seen
        /\ j.user = req[d].user /\ j.calendar = req[d].calendar
    BY Facts DEF RequestState, Place
  <2> HIDE DEF j
  <2>5. Knows(j, tomb', cals, made)
    BY <2>1, <2>3, <2>4, Facts, ReachedIs DEF Knows
  <2>6. Grown(tomb, tomb') /\ InOrder(tomb') /\ Gone(tomb', cals)
    BY <2>3, Facts DEF Grown, InOrder, Gone
  <2>7. user' = user /\ holder' = holder /\ cals' = cals /\ grant' = grant /\ auth' = auth
        /\ UNCHANGED actors
    BY <2>1 DEF outside
  <2>8. tomb'.calendar <= made /\ user.calendar <= made
        /\ (user.id = 0 => "calendar" \in tomb'.steps)
    BY <2>3, Facts DEF World
  <2>9. QED
    BY <2>1, <2>3, <2>4, <2>5, <2>6, <2>7, <2>8, Facts, RequestStep, ActorsStay
<1>2. CASE Release(d)
  <2>1. req' = [req EXCEPT ![d] = NoRequest] /\ holder' \in Request \cup {Nobody}
        /\ UNCHANGED <<tomb, user, outside, actors>>
    BY <1>2, Facts DEF Release
  <2>2. QED
    BY <2>1, EndStep
<1>3. CASE Crash(d)
  <2>1. req' = [req EXCEPT ![d] = NoRequest] /\ UNCHANGED <<tomb, user, holder, outside, actors>>
    BY <1>3 DEF Crash
  <2>2. QED
    BY <2>1, Facts, EndStep
<1>4. QED
  BY <1>1, <1>2, <1>3

-----------------------------------------------------------------------------
(* The steps beside the deletion.                                          *)

LEMMA ActorFacts ==
    ASSUME IInv
    PROVE  /\ act \in [Actor -> ActorState] /\ \A a \in Actor : act[a].calendar <= made
           /\ user \in [id : UserId, calendar : Calendar, credential : BOOLEAN]
           /\ {grant, auth} \subseteq BOOLEAN /\ pending \in Pending
           /\ made \in Calendar /\ users \in UserId /\ made \in Nat /\ users \in Nat
           /\ cals \subseteq 1 .. MaxCalendar /\ user.calendar <= made
           /\ MaxCalendar \in Nat /\ MaxUser \in Nat /\ "onboard" \in Actor /\ "sync" \in Actor
  BY ParametersAssumption DEF IInv, TypeOK, World, Calendar, UserId, Actor

(* An actor in another state.                                              *)
LEMMA ActorMoves ==
    ASSUME IInv, NEW a \in Actor, NEW x \in ActorState, act' = [act EXCEPT ![a] = x],
           NEW m \in Nat, x.calendar <= m, made <= m
    PROVE  act' \in [Actor -> ActorState] /\ \A b \in Actor : act'[b].calendar <= m
<1>1. \A b \in Actor : act'[b] = IF b = a THEN x ELSE act[b]
  BY ActorFacts
<1>2. \A b \in Actor : act[b].calendar \in Nat /\ act[b].calendar <= made
  BY ActorFacts DEF ActorState, Calendar
<1>3. \A b \in Actor : act'[b].calendar <= m
  BY <1>1, <1>2, ActorFacts
<1>4. QED
  BY <1>3, ActorFacts

LEMMA ActorEnds ==
    ASSUME IInv, NEW a \in Actor, GiveUp(a)
    PROVE  act' \in [Actor -> ActorState] /\ \A b \in Actor : act'[b].calendar <= made
<1>1. NoActor \in ActorState /\ NoActor.calendar = 0
  BY ParametersAssumption DEF NoActor, ActorState, UserId, Calendar
<1>2. QED
  BY <1>1, ActorFacts, ActorMoves DEF GiveUp

LEMMA ActorGoes ==
    ASSUME IInv, NEW a \in Actor,
           NEW place \in {"idle", "ensure", "verify", "check", "create", "save", "complete"},
           Move(a, place)
    PROVE  act' \in [Actor -> ActorState] /\ \A b \in Actor : act'[b].calendar <= made
<1> DEFINE x == [act[a] EXCEPT !.pc = place]
<1>1. x \in ActorState /\ x.calendar = act[a].calendar
  BY ActorFacts DEF ActorState
<1>2. act' = [act EXCEPT ![a] = x]
  BY DEF Move
<1> HIDE DEF x
<1>3. QED
  BY <1>1, <1>2, ActorFacts, ActorMoves

LEMMA OnboardStep ==
    ASSUME IInv, Onboard \/ EnsureUser \/ Verify \/ CompleteOnboarding \/ SyncStarts
    PROVE  IInv'
<1>1. CASE Onboard
  <2>1. Move("onboard", "ensure") /\ grant' = TRUE
        /\ UNCHANGED <<deletion, user, cals, auth, pending, made, users>>
    BY <1>1 DEF Onboard
  <2>2. QED
    BY <2>1, ActorFacts, ActorGoes, WorldStep
<1>2. CASE EnsureUser
  <2> DEFINE x == [pc |-> "verify", user |-> user'.id, calendar |-> user'.calendar]
  <2>1. /\ UNCHANGED <<deletion, cals, grant, auth, pending, made>>
        /\ act' = [act EXCEPT !["onboard"] = x]
        /\ user.id = 0 => users < MaxUser
        /\ user' = IF user.id # 0 THEN user ELSE [NoUser EXCEPT !.id = users + 1]
        /\ users' = IF user.id # 0 THEN users ELSE users + 1
    BY <1>2 DEF EnsureUser, outside
  <2>2. users' \in UserId /\ user'.calendar <= made /\ user'.id # 0
        /\ user' \in [id : UserId, calendar : Calendar, credential : BOOLEAN]
    <3>1. CASE user.id # 0
      BY <2>1, <3>1, ActorFacts
    <3>2. CASE user.id = 0
      <4>1. users + 1 \in UserId /\ users + 1 # 0 /\ 0 \in Calendar
        BY <2>1, <3>2, ActorFacts DEF UserId, Calendar
      <4>2. user' = [id |-> users + 1, calendar |-> 0, credential |-> FALSE]
            /\ users' = users + 1
        BY <2>1, <3>2 DEF NoUser
      <4>3. QED
        BY <4>1, <4>2, ActorFacts
    <3>3. QED
      BY <3>1, <3>2
  <2>3. x \in ActorState /\ x.calendar = user'.calendar
    BY <2>2 DEF ActorState
  <2> HIDE DEF x
  <2>4. act' \in [Actor -> ActorState] /\ \A b \in Actor : act'[b].calendar <= made
    BY <2>1, <2>2, <2>3, ActorFacts, ActorMoves
  <2>5. QED
    BY <2>1, <2>2, <2>4, ActorFacts, WorldStep
<1>3. CASE Verify
  <2>1. UNCHANGED <<deletion, cals, grant, auth, pending, made, users>>
        /\ (user' = user \/ user' = [user EXCEPT !.credential = TRUE])
        /\ (Move("onboard", "check") \/ GiveUp("onboard"))
    BY <1>3 DEF Verify, outside
  <2>2. user' \in [id : UserId, calendar : Calendar, credential : BOOLEAN]
        /\ user'.calendar = user.calendar /\ user'.id = user.id
    BY <2>1, ActorFacts
  <2>3. act' \in [Actor -> ActorState] /\ \A b \in Actor : act'[b].calendar <= made
    BY <2>1, ActorFacts, ActorGoes, ActorEnds
  <2>4. QED
    BY <2>1, <2>2, <2>3, ActorFacts, WorldStep
<1>4. CASE CompleteOnboarding
  <2>1. UNCHANGED <<deletion, cals, grant, auth, made, users>> /\ GiveUp("onboard")
        /\ pending' \in Pending
        /\ (user' = user \/ user' = [user EXCEPT !.calendar = act["onboard"].calendar,
                                                 !.credential = TRUE])
    <3>1. pending' \in Pending
      BY <1>4, ActorFacts DEF CompleteOnboarding, Pending
    <3>2. QED
      BY <1>4, <3>1 DEF CompleteOnboarding, outside
  <2>2. act["onboard"].calendar \in Calendar /\ act["onboard"].calendar <= made
    BY ActorFacts DEF ActorState
  <2>3. user' \in [id : UserId, calendar : Calendar, credential : BOOLEAN]
        /\ user'.calendar <= made /\ user'.id = user.id
    BY <2>1, <2>2, ActorFacts
  <2>4. act' \in [Actor -> ActorState] /\ \A b \in Actor : act'[b].calendar <= made
    BY <2>1, ActorFacts, ActorEnds
  <2>5. QED
    <3>1. {grant', auth'} \subseteq BOOLEAN /\ pending' \in Pending
      BY <2>1, ActorFacts
    <3>2. QED
      BY <2>1, <2>3, <2>4, <3>1, ActorFacts, WorldStep
<1>5. CASE SyncStarts
  <2> DEFINE x == [pc |-> "check", user |-> user.id, calendar |-> user.calendar]
  <2>1. UNCHANGED <<deletion, user, cals, grant, auth, pending, made, users>>
        /\ act' = [act EXCEPT !["sync"] = x]
    BY <1>5 DEF SyncStarts, outside
  <2>2. x \in ActorState /\ x.calendar = user.calendar
    BY ActorFacts DEF ActorState
  <2> HIDE DEF x
  <2>3. act' \in [Actor -> ActorState] /\ \A b \in Actor : act'[b].calendar <= made
    BY <2>1, <2>2, ActorFacts, ActorMoves
  <2>4. QED
    BY <2>1, <2>3, ActorFacts, WorldStep
<1>6. QED
  BY <1>1, <1>2, <1>3, <1>4, <1>5

LEMMA CalendarStep ==
    ASSUME IInv, NEW a \in Actor,
           CheckCalendar(a) \/ CreateCalendar(a) \/ SaveCalendar(a) \/ ActorFails(a)
    PROVE  IInv'
<1>1. CASE CheckCalendar(a)
  <2>1. UNCHANGED <<deletion, user, cals, grant, auth, pending, made, users>>
        /\ Move(a, IF act[a].calendar \in cals THEN After(a) ELSE "create")
    BY <1>1 DEF CheckCalendar, outside
  <2>2. (IF act[a].calendar \in cals THEN After(a) ELSE "create")
           \in {"idle", "ensure", "verify", "check", "create", "save", "complete"}
    BY DEF After
  <2>3. act' \in [Actor -> ActorState] /\ \A b \in Actor : act'[b].calendar <= made
    BY <2>1, <2>2, ActorGoes
  <2>4. QED
    BY <2>1, <2>3, ActorFacts, WorldStep
<1>2. CASE CreateCalendar(a)
  <2> DEFINE x == [act[a] EXCEPT !.pc = "save", !.calendar = made + 1]
  <2>1. /\ made < MaxCalendar /\ made' = made + 1 /\ cals' = cals \cup {made + 1}
        /\ UNCHANGED <<deletion, user, grant, auth, pending, users>>
        /\ (act' = [act EXCEPT ![a] = x] \/ GiveUp(a))
    BY <1>2, ActorFacts DEF CreateCalendar
  <2>2. made + 1 \in Calendar /\ made <= made + 1 /\ made + 1 \in Nat
        /\ cals' \subseteq 1 .. MaxCalendar /\ cals' \subseteq cals \cup (made + 1 .. made')
    BY <2>1, ActorFacts DEF Calendar
  <2>3. x \in ActorState /\ x.calendar = made + 1
    BY <2>2, ActorFacts DEF ActorState
  <2> HIDE DEF x
  <2> DEFINE m == made + 1
  <2>10. m \in Nat /\ x.calendar <= m /\ made <= m
    BY <2>2, <2>3, ActorFacts
  <2> HIDE DEF m
  <2>4. act' \in [Actor -> ActorState] /\ \A b \in Actor : act'[b].calendar <= m
    <3>1. CASE act' = [act EXCEPT ![a] = x]
      BY <2>10, <2>3, <3>1, ActorMoves
    <3>2. CASE GiveUp(a)
      <4>1. act' \in [Actor -> ActorState] /\ \A b \in Actor : act'[b].calendar <= made
        BY <3>2, ActorEnds
      <4>2. \A b \in Actor : act'[b].calendar \in Nat
        BY <4>1 DEF ActorState, Calendar
      <4>3. QED
        BY <2>10, <4>1, <4>2, ActorFacts
    <3>3. QED
      BY <2>1, <3>1, <3>2
  <2>5. user.calendar <= made'
    BY <2>1, ActorFacts DEF Calendar
  <2>6. \A b \in Actor : act'[b].calendar <= made'
    BY <2>1, <2>4 DEF m
  <2>7. QED
    BY <2>1, <2>2, <2>4, <2>5, <2>6, ActorFacts, WorldStep
<1>3. CASE SaveCalendar(a)
  <2>1. UNCHANGED <<deletion, cals, grant, auth, pending, made, users>>
        /\ (user' = user \/ user' = [user EXCEPT !.calendar = act[a].calendar])
        /\ (Move(a, After(a)) \/ GiveUp(a))
    BY <1>3 DEF SaveCalendar, outside
  <2>2. After(a) \in {"idle", "ensure", "verify", "check", "create", "save", "complete"}
    BY DEF After
  <2>3. act[a].calendar \in Calendar /\ act[a].calendar <= made
    BY ActorFacts DEF ActorState
  <2>4. user' \in [id : UserId, calendar : Calendar, credential : BOOLEAN]
        /\ user'.calendar <= made /\ user'.id = user.id
    BY <2>1, <2>3, ActorFacts
  <2>5. act' \in [Actor -> ActorState] /\ \A b \in Actor : act'[b].calendar <= made
    BY <2>1, <2>2, ActorGoes, ActorEnds
  <2>6. QED
    BY <2>1, <2>4, <2>5, ActorFacts, WorldStep
<1>4. CASE ActorFails(a)
  <2>1. UNCHANGED <<deletion, user, cals, grant, auth, pending, made, users>> /\ GiveUp(a)
    BY <1>4 DEF ActorFails, outside
  <2>2. QED
    BY <2>1, ActorFacts, ActorEnds, WorldStep
<1>5. QED
  BY <1>1, <1>2, <1>3, <1>4

LEMMA UserStep ==
    ASSUME IInv, Cleanup \/ MapEvent \/ Unmap \/ UserRevokes \/ UserDeletesCalendar
    PROVE  IInv'
<1>1. UNCHANGED <<deletion, user, act, auth, made, users>> /\ cals' \subseteq cals
      /\ grant' \in BOOLEAN
  BY ActorFacts DEF Cleanup, MapEvent, Unmap, UserRevokes, UserDeletesCalendar, outside,
                    actors, beside
<1>2. pending' \in Pending
  <2>1. CASE Cleanup \/ MapEvent
    BY <2>1, ActorFacts DEF Cleanup, MapEvent, Pending
  <2>2. CASE Unmap
    BY <2>2, ActorFacts DEF Unmap, Pending
  <2>3. CASE UserRevokes \/ UserDeletesCalendar
    BY <2>3, ActorFacts DEF UserRevokes, UserDeletesCalendar, actors
  <2>4. QED
    BY <2>1, <2>2, <2>3
<1>3. QED
  BY <1>1, <1>2, ActorFacts, WorldStep

-----------------------------------------------------------------------------

LEMMA NextIInv == IInv /\ [Next]_vars => IInv'
<1> SUFFICES ASSUME IInv, [Next]_vars PROVE IInv'
  OBVIOUS
<1>1. ASSUME NEW d \in Request,
             Advance(d) \/ Fails(d) \/ MarkFailed(d) \/ Release(d) \/ Crash(d)
      PROVE  IInv'
  <2>1. CASE Find(d) \/ FindUser(d) \/ Begin(d) \/ Acquire(d)
    BY <2>1, ReadStep
  <2>2. CASE StartCalendar(d) \/ StartToken(d) \/ StartAuth(d) \/ Fails(d)
    BY <2>2, StartStep
  <2>3. CASE DeleteCalendar(d) \/ Revoke(d) \/ DeleteAuth(d)
    BY <2>3, OutsideStep
  <2>4. CASE MarkCalendar(d) \/ MarkToken(d) \/ MarkAuth(d) \/ Complete(d)
    BY <2>4, RecordStep
  <2>5. CASE DeleteData(d)
    BY <2>5, DataStep
  <2>6. CASE MarkFailed(d) \/ Release(d) \/ Crash(d)
    BY <2>6, LeaveStep
  <2>7. QED
    BY <1>1, <2>1, <2>2, <2>3, <2>4, <2>5, <2>6 DEF Advance
<1>2. CASE Lapse
  <2>1. UNCHANGED <<tomb, user, req, cals, grant, auth, act, pending, made, users>>
        /\ holder' = Nobody
    BY <1>2 DEF Lapse, outside, actors, beside
  <2>2. QED
    BY <2>1 DEF IInv, TypeOK, World, Gone, InOrder, Knows
<1>3. CASE Onboard \/ EnsureUser \/ Verify \/ CompleteOnboarding \/ SyncStarts
  BY <1>3, OnboardStep
<1>4. ASSUME NEW a \in Actor,
             CheckCalendar(a) \/ CreateCalendar(a) \/ SaveCalendar(a) \/ ActorFails(a)
      PROVE  IInv'
  BY <1>4, CalendarStep
<1>5. CASE Cleanup \/ MapEvent \/ Unmap \/ UserRevokes \/ UserDeletesCalendar
  BY <1>5, UserStep
<1>6. CASE UNCHANGED vars
  BY <1>6 DEF vars, IInv, TypeOK, World, Gone, InOrder, Knows
<1>7. QED
  BY <1>1, <1>2, <1>3, <1>4, <1>5, <1>6 DEF Next

(* The inductive invariant of a deletion: copies of the tombstone are old  *)
(* ones, and a request that is about to record the calendar step has seen  *)
(* the calendar gone, or the step is recorded already.                     *)
THEOREM DeletionInvariant == Spec => []IInv
  BY InitIInv, NextIInv, PTL DEF Spec

(* Tombstone, rows, requests and calendars keep their types.               *)
THEOREM DeletionTypeOK == Spec => []TypeOK
<1>1. IInv => TypeOK
  BY DEF IInv
<1>2. QED
  BY <1>1, DeletionInvariant, PTL

(* However many requests overlap, whatever is lost and whoever crashes, no *)
(* step of the deletion is recorded before the ones it needs.              *)
THEOREM DeletionStepsInOrder == Spec => []StepsInOrder
<1>1. IInv => StepsInOrder
  BY DEF IInv, InOrder, StepsInOrder
<1>2. QED
  BY <1>1, DeletionInvariant, PTL

(* Once the tombstone says that the calendar is deleted, the calendar of   *)
(* the request is gone and does not come back.                             *)
THEOREM DeletionSnapshotCalendarGone == Spec => []SnapshotCalendarGone
<1>1. IInv => SnapshotCalendarGone
  BY DEF IInv, Gone, SnapshotCalendarGone
<1>2. QED
  BY <1>1, DeletionInvariant, PTL

-----------------------------------------------------------------------------
(* The deletion as one procedure.                                          *)

(* Who begins has a user, and a copy without a user is a copy of a         *)
(* tombstone without one.                                                  *)
Copied(j, t) ==
    /\ j.pc = "begin" => j.user # 0
    /\ j.seen.status # "none" /\ j.seen.user = 0 => t.user = 0
Copies == \A d \in Request : Copied(req[d], tomb)

(* The user of a tombstone may go but never come back.                     *)
Parted(t, u) == t.status # "none" /\ t.user = 0 => u.user = 0

LEMMA CopyKept ==
    ASSUME IInv, Copies, NEW d \in Request, NEW j, req' = [req EXCEPT ![d] = j],
           Copied(j, tomb'), Parted(tomb, tomb')
    PROVE  Copies'
<1> SUFFICES ASSUME NEW e \in Request PROVE Copied(req'[e], tomb')
  BY DEF Copies, Copied
<1>1. CASE e = d
  BY <1>1, Facts
<1>2. CASE e # d
  <2>1. req'[e] = req[e] /\ Copied(req[e], tomb)
    BY <1>2, Facts DEF Copies
  <2>2. req[e].seen.status # "none" => tomb.status # "none"
    BY Facts DEF Knows
  <2>3. QED
    BY <2>1, <2>2 DEF Copied, Parted
<1>3. QED
  BY <1>1, <1>2

(* A request that keeps its copy, but for steps, and does not go to begin. *)
LEMMA SameCopy ==
    ASSUME IInv, Copies, NEW d \in Request, NEW j, req' = [req EXCEPT ![d] = j],
           j.pc # "begin", j.seen.status = req[d].seen.status, j.seen.user = req[d].seen.user,
           Parted(tomb, tomb')
    PROVE  Copies'
<1>1. Copied(req[d], tomb) /\ (req[d].seen.status # "none" => tomb.status # "none")
  BY Facts DEF Copies, Knows
<1>2. Copied(j, tomb')
  BY <1>1 DEF Copied, Parted
<1>3. QED
  BY <1>2, CopyKept

LEMMA GotoCopies ==
    ASSUME IInv, Copies, NEW d \in Request, NEW place \in Place \ {"begin"}, Goto(d, place),
           Parted(tomb, tomb')
    PROVE  Copies'
<1> DEFINE j == [req[d] EXCEPT !.pc = place]
<1>1. req' = [req EXCEPT ![d] = j]
  BY DEF Goto
<1>2. j.pc = place /\ j.seen = req[d].seen
  BY Facts DEF RequestState
<1> HIDE DEF j
<1>3. QED
  BY <1>1, <1>2, SameCopy

(* Recording a step, in the abstract and with the copies.                  *)
LEMMA MarkSaga ==
    ASSUME IInv, Copies, NEW d \in Request, NEW step \in Saga!Steps, NEW to \in Place \ {"begin"},
           Mark(d, step.name, step.status, to), step.before \subseteq req[d].seen.steps,
           req[d].seen.status # "none"
    PROVE  Copies' /\ Saga!Record(step)
<1> DEFINE j == [req[d] EXCEPT !.pc = to, !.seen.steps = @ \cup {step.name}]
<1>1. /\ tomb' = [tomb EXCEPT !.status = step.status, !.steps = @ \cup {step.name}]
      /\ req' = [req EXCEPT ![d] = j] /\ UNCHANGED user
  BY DEF Mark
<1>2. j.pc = to /\ j.seen.status = req[d].seen.status /\ j.seen.user = req[d].seen.user
  BY Facts DEF RequestState, Tombstone
<1>3. tomb'.user = tomb.user
  BY <1>1, Facts DEF Tombstone
<1>4. tomb.status # "none" /\ req[d].seen.steps \subseteq tomb.steps
  BY Facts DEF Knows
<1> HIDE DEF j
<1>5. Copies'
  BY <1>1, <1>2, <1>3, SameCopy DEF Parted
<1>6. Saga!Record(step)
  BY <1>1, <1>4 DEF Saga!Record, Saga!NoTomb
<1>7. QED
  BY <1>5, <1>6

(* A step of the abstract deletion, or none.                               *)
SagaStep == Saga!Next \/ UNCHANGED <<tomb, user.id>>

LEMMA ReadSaga ==
    ASSUME IInv, Copies, NEW d \in Request, Find(d) \/ FindUser(d) \/ Begin(d) \/ Acquire(d)
    PROVE  Copies' /\ SagaStep
<1>1. CASE Find(d)
  <2> DEFINE j == [NoRequest EXCEPT !.pc = "user", !.seen = tomb]
  <2>1. req' = [req EXCEPT ![d] = j] /\ UNCHANGED <<tomb, user>>
    BY <1>1 DEF Find
  <2>2. j.pc = "user" /\ j.seen = tomb
    BY DEF NoRequest
  <2> HIDE DEF j
  <2>3. QED
    BY <2>1, <2>2, CopyKept DEF Copied, Parted, SagaStep
<1>2. CASE FindUser(d)
  <2>1. UNCHANGED <<tomb, user>>
    BY <1>2 DEF FindUser
  <2>2. CASE req[d].seen.status # "none"
    <3> DEFINE j == [req[d] EXCEPT !.pc = "acquire", !.user = user.id, !.calendar = user.calendar]
    <3>1. req' = [req EXCEPT ![d] = j] /\ j.pc = "acquire" /\ j.seen = req[d].seen
      BY <1>2, <2>2, Facts DEF FindUser, RequestState
    <3> HIDE DEF j
    <3>2. Copies'
      BY <2>1, <3>1, SameCopy DEF Parted
    <3>3. QED
      BY <2>1, <3>2 DEF SagaStep
  <2>3. CASE req[d].seen.status = "none" /\ user.id # 0
    <3> DEFINE j == [req[d] EXCEPT !.pc = "begin", !.user = user.id, !.calendar = user.calendar]
    <3>1. req' = [req EXCEPT ![d] = j] /\ j.user = user.id /\ j.seen = req[d].seen
      BY <1>2, <2>3, Facts DEF FindUser, RequestState
    <3> HIDE DEF j
    <3>2. Copied(j, tomb') /\ Parted(tomb, tomb')
      BY <2>1, <2>3, <3>1 DEF Copied, Parted
    <3>3. Copies'
      BY <3>1, <3>2, CopyKept
    <3>4. QED
      BY <2>1, <3>3 DEF SagaStep
  <2>4. CASE req[d].seen.status = "none" /\ user.id = 0
    <3>1. req' = [req EXCEPT ![d] = NoRequest]
      BY <1>2, <2>4 DEF FindUser
    <3>2. QED
      BY <2>1, <3>1, CopyKept DEF Copied, Parted, NoRequest, NoTomb, SagaStep
  <2>5. QED
    BY <2>2, <2>3, <2>4
<1>3. CASE Begin(d)
  <2> DEFINE new == [status |-> "REQUESTED", user |-> req[d].user,
                     calendar |-> req[d].calendar, steps |-> {}]
             j == [req[d] EXCEPT !.pc = "acquire", !.seen = tomb']
  <2>1. /\ req' = [req EXCEPT ![d] = j] /\ UNCHANGED user
        /\ tomb' = IF tomb.status # "none" THEN tomb ELSE new
    BY <1>3 DEF Begin
  <2>2. j.pc = "acquire" /\ j.seen = tomb'
    BY Facts DEF RequestState
  <2>3. req[d].user \in 1 .. MaxUser /\ req[d].calendar \in 0 .. MaxCalendar
    BY <1>3, Facts, ParametersAssumption DEF Begin, Copies, Copied, RequestState, UserId, Calendar
  <2>4. Parted(tomb, tomb')
    BY <2>1 DEF Parted
  <2>5. tomb.status = "none" => tomb = Saga!NoTomb
    BY Facts DEF World, NoTomb, Saga!NoTomb
  <2>6. tomb' = tomb \/ Saga!Begin
    BY <2>1, <2>3, <2>5 DEF Saga!Begin
  <2> HIDE DEF j
  <2>7. QED
    BY <2>1, <2>2, <2>4, <2>6, CopyKept DEF Copied, SagaStep, Saga!Next
<1>4. CASE Acquire(d)
  <2>1. UNCHANGED <<tomb, user>>
    BY <1>4 DEF Acquire
  <2>2. Goto(d, "calendar") \/ req' = [req EXCEPT ![d] = NoRequest]
    BY <1>4 DEF Acquire
  <2>3. Copies'
    BY <2>1, <2>2, GotoCopies, CopyKept DEF Place, Parted, Copied, NoRequest, NoTomb
  <2>4. QED
    BY <2>1, <2>3 DEF SagaStep
<1>5. QED
  BY <1>1, <1>2, <1>3, <1>4

(* Steps that move a request and leave tombstone and user alone.           *)
LEMMA MovesSaga ==
    ASSUME IInv, Copies, NEW d \in Request,
           \/ StartCalendar(d) \/ DeleteCalendar(d) \/ StartToken(d) \/ Revoke(d)
           \/ StartAuth(d) \/ DeleteAuth(d) \/ Fails(d)
    PROVE  Copies' /\ SagaStep
<1>1. UNCHANGED <<tomb, user>>
  BY DEF StartCalendar, DeleteCalendar, StartToken, Revoke, StartAuth, DeleteAuth, Fails
<1>2. \E place \in Place \ {"begin"} : Goto(d, place)
  BY DEF StartCalendar, DeleteCalendar, StartToken, Revoke, StartAuth, DeleteAuth, Fails, Place
<1>3. QED
  BY <1>1, <1>2, GotoCopies DEF Parted, SagaStep

LEMMA RecordSaga ==
    ASSUME IInv, Copies, NEW d \in Request,
           MarkCalendar(d) \/ MarkToken(d) \/ MarkAuth(d) \/ Complete(d)
    PROVE  Copies' /\ SagaStep
<1>1. /\ Reached[req[d].pc] \subseteq req[d].seen.steps
      /\ req[d].pc \in {"markCalendar", "markToken", "markAuth", "complete"}
      /\ req[d].seen.status # "none"
  BY Facts DEF Knows, MarkCalendar, MarkToken, MarkAuth, Complete
<1>2. {"token", "data", "complete", "release"} \subseteq Place \ {"begin"}
  BY DEF Place
<1>3. ASSUME NEW step \in Saga!Steps, NEW to \in Place \ {"begin"},
             Mark(d, step.name, step.status, to), step.before \subseteq req[d].seen.steps
      PROVE  Copies' /\ SagaStep
  BY <1>1, <1>3, MarkSaga DEF SagaStep, Saga!Next
<1>4. CASE MarkCalendar(d)
  <2> DEFINE step == [name |-> "calendar", before |-> {}, status |-> "CALENDAR_DELETED"]
  <2>1. step \in Saga!Steps /\ Mark(d, step.name, step.status, "token")
    BY <1>4 DEF MarkCalendar, Saga!Steps
  <2>2. QED
    BY <1>2, <1>3, <2>1
<1>5. CASE MarkToken(d)
  <2> DEFINE step == [name |-> "token", before |-> {"calendar"}, status |-> "TOKEN_REVOKED"]
  <2>1. step \in Saga!Steps /\ Mark(d, step.name, step.status, "data")
    BY <1>5 DEF MarkToken, Saga!Steps
  <2>2. step.before \subseteq req[d].seen.steps
    BY <1>1, <1>5, ReachedIs DEF MarkToken
  <2>3. QED
    BY <1>2, <1>3, <2>1, <2>2
<1>6. CASE MarkAuth(d)
  <2> DEFINE step == [name |-> "auth", before |-> {"calendar", "token", "data"},
                      status |-> "AUTH_DELETED"]
  <2>1. step \in Saga!Steps /\ Mark(d, step.name, step.status, "complete")
    BY <1>6 DEF MarkAuth, Saga!Steps
  <2>2. step.before \subseteq req[d].seen.steps
    BY <1>1, <1>6, ReachedIs DEF MarkAuth
  <2>3. QED
    BY <1>2, <1>3, <2>1, <2>2
<1>7. CASE Complete(d)
  <2> DEFINE step == [name |-> "complete", before |-> {"calendar", "token", "data", "auth"},
                      status |-> "COMPLETED"]
  <2>1. CASE Seen(d, "complete")
    <3>1. Goto(d, "release") /\ UNCHANGED <<tomb, user>>
      BY <1>7, <2>1 DEF Complete
    <3>2. QED
      BY <1>2, <3>1, GotoCopies DEF Parted, SagaStep
  <2>2. CASE ~ Seen(d, "complete")
    <3>1. step \in Saga!Steps /\ Mark(d, step.name, step.status, "release")
      BY <1>7, <2>2 DEF Complete, Saga!Steps
    <3>2. step.before \subseteq req[d].seen.steps
      BY <1>1, <1>7, ReachedIs DEF Complete
    <3>3. QED
      BY <1>2, <1>3, <3>1, <3>2
  <2>3. QED
    BY <2>1, <2>2
<1>8. QED
  BY <1>4, <1>5, <1>6, <1>7

LEMMA DataSaga ==
    ASSUME IInv, Copies, NEW d \in Request, DeleteData(d)
    PROVE  Copies' /\ SagaStep
<1>1. {"calendar", "token"} \subseteq tomb.steps /\ tomb.status # "none"
      /\ req[d].seen.status # "none"
  BY Facts, ReachedIs DEF Knows, DeleteData
<1>2. CASE Seen(d, "data")
  BY <1>2, GotoCopies DEF DeleteData, Parted, SagaStep, Place
<1>3. CASE ~ Seen(d, "data")
  <2> DEFINE j == [req[d] EXCEPT !.pc = "auth", !.user = 0, !.seen.steps = @ \cup {"data"}]
  <2>1. /\ req' = [req EXCEPT ![d] = j] /\ user' \in {user, NoUser}
        /\ tomb' = [tomb EXCEPT !.status = "DATA_DELETED", !.steps = @ \cup {"data"},
                                !.user = IF req[d].seen.user # 0 THEN 0 ELSE @]
    BY <1>3 DEF DeleteData
  <2>2. j.pc = "auth" /\ j.seen.status = req[d].seen.status /\ j.seen.user = req[d].seen.user
    BY Facts DEF RequestState, Tombstone
  <2>3. req[d].seen.user = 0 => tomb.user = 0
    BY <1>1 DEF Copies, Copied
  <2>4. tomb' = [tomb EXCEPT !.status = "DATA_DELETED", !.user = 0, !.steps = @ \cup {"data"}]
    BY <2>1, <2>3, Facts DEF Tombstone
  <2>5. tomb'.user = 0
    BY <2>4, Facts DEF Tombstone
  <2> HIDE DEF j
  <2>6. Copies'
    BY <2>1, <2>2, <2>5, SameCopy DEF Parted
  <2>7. user.id' \in {user.id, 0}
    BY <2>1 DEF NoUser
  <2>8. Saga!DeleteUserData
    BY <1>1, <2>4, <2>7 DEF Saga!DeleteUserData, Saga!NoTomb
  <2>9. QED
    BY <2>6, <2>8 DEF SagaStep, Saga!Next
<1>4. QED
  BY <1>2, <1>3

LEMMA LeaveSaga ==
    ASSUME IInv, Copies, NEW d \in Request, MarkFailed(d) \/ Release(d) \/ Crash(d)
    PROVE  Copies' /\ SagaStep
<1>1. CASE MarkFailed(d)
  <2>1. tomb.status # "none"
    BY <1>1, Facts DEF MarkFailed, Knows
  <2>2. tomb' = tomb \/ Saga!Fail
    BY <1>1, <2>1 DEF MarkFailed, Saga!Fail, Saga!NoTomb
  <2>3. tomb'.user = tomb.user
    BY <1>1, Facts DEF MarkFailed, Tombstone
  <2>4. Copies'
    BY <1>1, <2>3, GotoCopies DEF MarkFailed, Parted, Place
  <2>5. QED
    BY <1>1, <2>2, <2>4 DEF MarkFailed, SagaStep, Saga!Next
<1>2. CASE Release(d) \/ Crash(d)
  <2>1. UNCHANGED <<tomb, user>> /\ req' = [req EXCEPT ![d] = NoRequest]
    BY <1>2 DEF Release, Crash
  <2>2. QED
    BY <2>1, CopyKept DEF Parted, Copied, NoRequest, NoTomb, SagaStep
<1>3. QED
  BY <1>1, <1>2

(* Everybody else leaves requests and tombstone alone; only a login may    *)
(* give the subject a user again.                                          *)
LEMMA OthersSaga ==
    ASSUME IInv, Copies,
           \/ Lapse \/ Onboard \/ EnsureUser \/ Verify \/ CompleteOnboarding
           \/ SyncStarts \/ Cleanup \/ MapEvent \/ Unmap \/ UserRevokes \/ UserDeletesCalendar
           \/ \E a \in Actor : \/ CheckCalendar(a) \/ CreateCalendar(a) \/ SaveCalendar(a)
                               \/ ActorFails(a)
    PROVE  Copies' /\ SagaStep
<1>1. UNCHANGED <<tomb, req>>
  BY DEF Lapse, Onboard, EnsureUser, Verify, CompleteOnboarding, SyncStarts, Cleanup,
         MapEvent, Unmap, UserRevokes, UserDeletesCalendar, CheckCalendar, CreateCalendar,
         SaveCalendar, ActorFails, deletion
<1>2. Copies'
  BY <1>1 DEF Copies, Copied
<1>3. user \in [id : UserId, calendar : Calendar, credential : BOOLEAN] /\ users \in UserId
  BY DEF IInv, TypeOK
<1>4. CASE EnsureUser
  <2>1. CASE user.id # 0
    BY <1>1, <1>2, <1>4, <2>1 DEF EnsureUser, SagaStep
  <2>2. CASE user.id = 0
    <3>1. user' = [NoUser EXCEPT !.id = users + 1] /\ users < MaxUser
      BY <1>4, <2>2 DEF EnsureUser
    <3>2. user.id' = users + 1
      BY <3>1 DEF NoUser
    <3>3. user.id' \in 1 .. MaxUser
      BY <1>3, <3>1, <3>2, ParametersAssumption DEF UserId
    <3>4. Saga!EnsureUser
      BY <1>1, <2>2, <3>3 DEF Saga!EnsureUser
    <3>5. QED
      BY <1>2, <3>4 DEF SagaStep, Saga!Next
  <2>3. QED
    BY <2>1, <2>2
<1>5. CASE Verify \/ CompleteOnboarding \/ \E a \in Actor : SaveCalendar(a)
  <2>1. user.id' = user.id
    BY <1>3, <1>5 DEF Verify, CompleteOnboarding, SaveCalendar
  <2>2. QED
    BY <1>1, <1>2, <2>1 DEF SagaStep
<1>6. CASE \/ Lapse \/ Onboard \/ SyncStarts \/ Cleanup \/ MapEvent \/ Unmap
           \/ UserRevokes \/ UserDeletesCalendar
           \/ \E a \in Actor : CheckCalendar(a) \/ CreateCalendar(a) \/ ActorFails(a)
  <2>1. user' = user
    BY <1>6 DEF Lapse, Onboard, SyncStarts, Cleanup, MapEvent, Unmap, UserRevokes,
                    UserDeletesCalendar, CheckCalendar, CreateCalendar, ActorFails
  <2>2. QED
    BY <1>1, <1>2, <2>1 DEF SagaStep
<1>7. QED
  BY <1>4, <1>5, <1>6

LEMMA NextSaga == IInv /\ Copies /\ [Next]_vars => Copies' /\ SagaStep
<1> SUFFICES ASSUME IInv, Copies, [Next]_vars PROVE Copies' /\ SagaStep
  OBVIOUS
<1>1. CASE UNCHANGED vars
  BY <1>1 DEF vars, Copies, Copied, SagaStep
<1>2. ASSUME NEW d \in Request,
             Advance(d) \/ Fails(d) \/ MarkFailed(d) \/ Release(d) \/ Crash(d)
      PROVE  Copies' /\ SagaStep
  BY <1>2, ReadSaga, MovesSaga, RecordSaga, DataSaga, LeaveSaga DEF Advance
<1>3. QED
  BY <1>1, <1>2, OthersSaga DEF Next

(* Overlapping requests, lost leases, crashes and a user who connects      *)
(* again are together one deletion that begins once, keeps what it began   *)
(* with and never takes a step back, for any number of requests.           *)
THEOREM DeletionImplementsSaga == Spec => ImplementsSaga
<1>1. Init => Copies /\ Saga!Init
  BY DEF Init, Copies, Copied, NoRequest, NoTomb, Saga!Init, Saga!NoTomb
<1>2. SagaStep => [Saga!Next]_<<tomb, user.id>>
  BY DEF SagaStep
<1>3. QED
  BY <1>1, <1>2, NextSaga, DeletionInvariant, PTL DEF Spec, ImplementsSaga, Saga!Spec

-----------------------------------------------------------------------------
(* A deletion with nobody else at work: the user does not connect again    *)
(* and no worker syncs.                                                    *)

(* What is left: u the user, g the grant, a the login; m numbers the one   *)
(* calendar there was.                                                     *)
Rest(t, u, g, a, m) ==
    /\ u = NoUser \/ u = [id |-> 1, calendar |-> m, credential |-> TRUE]
    /\ u = NoUser <=> "data" \in t.steps
    /\ t.status # "none" => t.calendar = m /\ (t.user = 1 \/ "data" \in t.steps)
    /\ "token" \in t.steps => ~ g
    /\ "auth" \in t.steps => ~ a
    /\ t.status = "COMPLETED" => "complete" \in t.steps

(* A request is about that user and calendar until the rows are gone, and  *)
(* where it is about to record a step, that is done.                       *)
Left(j, t, g, a, m) ==
    /\ j.pc \notin {"idle", "user"} => j.user = 1 \/ "data" \in t.steps
    /\ j.pc = "begin" => j.user = 1 /\ j.calendar = m
    /\ j.seen.status # "none" => j.seen.user = 1 \/ "data" \in t.steps
    /\ j.pc = "markToken" => ~ g
    /\ j.pc = "markAuth" => ~ a

Quiet == \A b \in Actor : act[b].pc = "idle"

Alone ==
    /\ Quiet
    /\ made \in {0, 1}
    /\ Rest(tomb, user, grant, auth, made)
    /\ \A d \in Request : Left(req[d], tomb, grant, auth, made)

(* The user, grant and login change to less, and recorded steps stay.      *)
LEMMA LeftKept ==
    ASSUME NEW j, NEW t, NEW g, NEW a, NEW m, NEW t2, NEW g2, NEW a2,
           Left(j, t, g, a, m), t.steps \subseteq t2.steps, g2 => g, a2 => a
    PROVE  Left(j, t2, g2, a2, m)
  BY DEF Left

LEMMA NoRequestLeft ==
    ASSUME NEW t, NEW g, NEW a, NEW m
    PROVE  Left(NoRequest, t, g, a, m)
  BY DEF Left, NoRequest, NoTomb

LEMMA InitAlone == IInv /\ Init => Alone
<1> SUFFICES ASSUME IInv, Init PROVE Alone
  OBVIOUS
<1>1. /\ made \in {0, 1} /\ user = [id |-> 1, calendar |-> made, credential |-> TRUE]
      /\ tomb.steps = {} /\ tomb.status = "none" /\ user # NoUser
      /\ \A b \in Actor : act[b].pc = "idle"
  BY DEF Init, NoUser, NoTomb, NoActor
<1>2. Rest(tomb, user, grant, auth, made)
  BY <1>1 DEF Rest
<1>3. \A d \in Request : Left(req[d], tomb, grant, auth, made)
  BY NoRequestLeft DEF Init
<1>4. QED
  BY <1>1, <1>2, <1>3 DEF Alone, Quiet

(* One request goes on.                                                    *)
LEMMA RequestAlone ==
    ASSUME IInv, Alone, NEW d \in Request, NEW j, req' = [req EXCEPT ![d] = j],
           UNCHANGED <<act, made>>, tomb.steps \subseteq tomb'.steps,
           grant' => grant, auth' => auth, Left(j, tomb', grant', auth', made),
           Rest(tomb', user', grant', auth', made)
    PROVE  Alone'
<1>1. req \in [Request -> RequestState]
  BY Facts
<1>2. \A e \in Request : Left(req'[e], tomb', grant', auth', made)
  <2> TAKE e \in Request
  <2>1. CASE e = d
    BY <1>1, <2>1
  <2>2. CASE e # d
    <3>1. req'[e] = req[e] /\ Left(req[e], tomb, grant, auth, made)
      BY <1>1, <2>2 DEF Alone
    <3>2. QED
      BY <3>1, LeftKept
  <2>3. QED
    BY <2>1, <2>2
<1>3. made' = made /\ act' = act
  OBVIOUS
<1>4. QED
  BY <1>2, <1>3 DEF Alone, Quiet, Left, Rest

(* The same where nothing but the request changes.                         *)
LEMMA LocalAlone ==
    ASSUME IInv, Alone, NEW d \in Request, NEW j, req' = [req EXCEPT ![d] = j],
           UNCHANGED <<tomb, user, outside, actors>>, Left(j, tomb, grant, auth, made)
    PROVE  Alone'
<1>1. /\ tomb' = tomb /\ user' = user /\ grant' = grant /\ auth' = auth
      /\ act' = act /\ made' = made
  BY DEF outside, actors, beside
<1>2. Rest(tomb, user, grant, auth, made)
  BY DEF Alone
<1>3. QED
  BY <1>1, <1>2, RequestAlone

(* A request that goes elsewhere knows what it knew.                       *)
LEMMA GotoLeft ==
    ASSUME IInv, Alone, NEW d \in Request, NEW place, NEW t, NEW g, NEW a,
           tomb.steps \subseteq t.steps, g => grant, a => auth,
           req[d].pc \notin {"idle", "user"}, place # "begin",
           place = "markToken" => ~ g, place = "markAuth" => ~ a
    PROVE  Left([req[d] EXCEPT !.pc = place], t, g, a, made)
<1> DEFINE j == [req[d] EXCEPT !.pc = place]
<1>1. j.pc = place /\ j.user = req[d].user /\ j.seen = req[d].seen
  BY Facts DEF RequestState
<1>2. Left(req[d], tomb, grant, auth, made)
  BY DEF Alone
<1> HIDE DEF j
<1>3. Left(j, t, g, a, made)
  BY <1>1, <1>2 DEF Left
<1>4. QED
  BY <1>3 DEF j

LEMMA ReadAlone ==
    ASSUME IInv, Alone, NEW d \in Request, Find(d) \/ FindUser(d) \/ Acquire(d)
    PROVE  Alone'
<1>0. req[d] \in RequestState /\ Left(req[d], tomb, grant, auth, made)
      /\ Rest(tomb, user, grant, auth, made)
  BY Facts DEF Alone
<1>1. UNCHANGED <<tomb, user, outside, actors>>
  BY DEF Find, FindUser, Acquire
<1>2. CASE Find(d)
  <2> DEFINE j == [NoRequest EXCEPT !.pc = "user", !.seen = tomb]
  <2>1. j.pc = "user" /\ j.seen = tomb
    BY DEF NoRequest
  <2>2. req' = [req EXCEPT ![d] = j]
    BY <1>2 DEF Find
  <2> HIDE DEF j
  <2>3. Left(j, tomb, grant, auth, made)
    BY <1>0, <2>1 DEF Left, Rest
  <2>4. QED
    BY <1>1, <2>2, <2>3, LocalAlone
<1>3. CASE FindUser(d)
  <2>1. CASE req[d].seen.status = "none" /\ user.id = 0
    <3>1. req' = [req EXCEPT ![d] = NoRequest]
      BY <1>3, <2>1 DEF FindUser
    <3>2. QED
      BY <1>1, <3>1, NoRequestLeft, LocalAlone
  <2>2. CASE req[d].seen.status # "none" \/ user.id # 0
    <3> DEFINE place == IF req[d].seen.status # "none" THEN "acquire" ELSE "begin"
               j == [req[d] EXCEPT !.pc = place, !.user = user.id, !.calendar = user.calendar]
    <3>1. req' = [req EXCEPT ![d] = j]
      <4>1. CASE req[d].seen.status # "none"
        BY <1>3, <4>1 DEF FindUser
      <4>2. CASE req[d].seen.status = "none" /\ user.id # 0
        BY <1>3, <4>2 DEF FindUser
      <4>3. QED
        BY <2>2, <4>1, <4>2
    <3>2. j.pc = place /\ j.seen = req[d].seen /\ j.user = user.id /\ j.calendar = user.calendar
      BY <1>0 DEF RequestState
    <3>3. /\ user.id = 1 \/ "data" \in tomb.steps
          /\ user.id # 0 => user.id = 1 /\ user.calendar = made
      BY <1>0 DEF Rest, NoUser
    <3> HIDE DEF j
    <3>4. Left(j, tomb, grant, auth, made)
      BY <1>0, <2>2, <3>2, <3>3 DEF Left
    <3>5. QED
      BY <1>1, <3>1, <3>4, LocalAlone
  <2>3. QED
    BY <2>1, <2>2
<1>4. CASE Acquire(d)
  <2>1. CASE holder = Nobody
    <3>1. req[d].pc = "acquire" /\ req' = [req EXCEPT ![d] = [req[d] EXCEPT !.pc = "calendar"]]
      BY <1>4, <2>1 DEF Acquire, Goto
    <3>2. Left([req[d] EXCEPT !.pc = "calendar"], tomb, grant, auth, made)
      BY <3>1, GotoLeft
    <3>3. QED
      BY <1>1, <3>1, <3>2, LocalAlone
  <2>2. CASE holder # Nobody
    <3>1. req' = [req EXCEPT ![d] = NoRequest]
      BY <1>4, <2>2 DEF Acquire
    <3>2. QED
      BY <1>1, <3>1, NoRequestLeft, LocalAlone
  <2>3. QED
    BY <2>1, <2>2
<1>5. QED
  BY <1>2, <1>3, <1>4

LEMMA BeginAlone ==
    ASSUME IInv, Alone, NEW d \in Request, Begin(d)
    PROVE  Alone'
<1> DEFINE new == [status |-> "REQUESTED", user |-> req[d].user,
                   calendar |-> req[d].calendar, steps |-> {}]
           j == [req[d] EXCEPT !.pc = "acquire", !.seen = tomb']
<1>1. /\ req[d].pc = "begin" /\ tomb' = (IF tomb.status # "none" THEN tomb ELSE new)
      /\ req' = [req EXCEPT ![d] = j] /\ UNCHANGED <<user, holder, outside, actors>>
  BY DEF Begin
<1>2. req[d] \in RequestState /\ Left(req[d], tomb, grant, auth, made)
      /\ Rest(tomb, user, grant, auth, made) /\ World
  BY Facts DEF Alone
<1>3. user' = user /\ grant' = grant /\ auth' = auth /\ act' = act /\ made' = made
  BY <1>1 DEF outside, actors, beside
<1>4. req[d].user = 1 /\ req[d].calendar = made
  BY <1>1, <1>2 DEF Left
<1>5. Rest(tomb', user, grant, auth, made) /\ tomb'.steps = tomb.steps
      /\ (tomb'.user = 1 \/ "data" \in tomb'.steps)
  <2>1. CASE tomb.status # "none"
    BY <1>1, <1>2, <2>1 DEF Rest
  <2>2. CASE tomb.status = "none"
    <3>1. tomb.steps = {} /\ tomb' = new
      BY <1>1, <1>2, <2>2 DEF World, NoTomb
    <3>2. new.steps = {} /\ new.user = 1 /\ new.calendar = made /\ new.status = "REQUESTED"
      BY <1>4
    <3> HIDE DEF new
    <3>3. QED
      BY <1>2, <3>1, <3>2 DEF Rest
  <2>3. QED
    BY <2>1, <2>2
<1>6. j.pc = "acquire" /\ j.seen = tomb' /\ j.user = 1
  BY <1>2, <1>4 DEF RequestState
<1> HIDE DEF j, new
<1>7. Left(j, tomb', grant, auth, made)
  BY <1>5, <1>6 DEF Left
<1>8. QED
  BY <1>1, <1>3, <1>5, <1>7, RequestAlone

(* The places where a step begins, and the ways out that leave the         *)
(* tombstone alone: who finds no user finds the grant revoked.             *)
LEMMA StartAlone ==
    ASSUME IInv, Alone, NEW d \in Request,
           \/ StartCalendar(d) \/ StartToken(d) \/ StartAuth(d) \/ Fails(d)
           \/ (Complete(d) /\ Seen(d, "complete")) \/ (DeleteData(d) /\ Seen(d, "data"))
           \/ DeleteCalendar(d)
    PROVE  Alone'
<1>1. /\ tomb' = tomb /\ user' = user /\ grant' = grant /\ auth' = auth
      /\ act' = act /\ made' = made
  BY DEF StartCalendar, StartToken, StartAuth, Fails, Complete, DeleteData, DeleteCalendar,
         outside, actors, beside
<1>2. PICK place \in Place \ {"begin"} :
         /\ Goto(d, place) /\ place # "markAuth" /\ req[d].pc \notin {"idle", "user"}
         /\ place = "markToken" => req[d].user = 0
  <2>1. CASE StartCalendar(d)
    BY <2>1 DEF StartCalendar, Place
  <2>2. CASE StartToken(d)
    BY <2>2 DEF StartToken, Place
  <2>3. CASE StartAuth(d)
    BY <2>3 DEF StartAuth, Place
  <2>4. CASE Fails(d)
    BY <2>4 DEF Fails, Place, Step
  <2>5. CASE (Complete(d) /\ Seen(d, "complete")) \/ (DeleteData(d) /\ Seen(d, "data"))
    BY <2>5 DEF Complete, DeleteData, Place
  <2>6. CASE DeleteCalendar(d)
    BY <2>6 DEF DeleteCalendar, Place
  <2>7. QED
    BY <2>1, <2>2, <2>3, <2>4, <2>5, <2>6
<1>3. place = "markToken" => ~ grant
  <2>1. req[d].user = 0 => "data" \in tomb.steps
    BY <1>2 DEF Alone, Left
  <2>2. "data" \in tomb.steps => "token" \in tomb.steps
    BY Facts, StepsBefore DEF InOrder
  <2>3. QED
    BY <1>2, <2>1, <2>2 DEF Alone, Rest
<1>4. Left([req[d] EXCEPT !.pc = place], tomb, grant, auth, made)
  BY <1>2, <1>3, GotoLeft
<1>5. req' = [req EXCEPT ![d] = [req[d] EXCEPT !.pc = place]]
  BY <1>2 DEF Goto
<1>6. Rest(tomb, user, grant, auth, made)
  BY DEF Alone
<1>7. QED
  BY <1>1, <1>4, <1>5, <1>6, RequestAlone

(* The grant of a user who is there is revoked; without one it is already. *)
LEMMA CallAlone ==
    ASSUME IInv, Alone, NEW d \in Request, Revoke(d) \/ DeleteAuth(d)
    PROVE  Alone'
<1>1. Left(req[d], tomb, grant, auth, made) /\ Rest(tomb, user, grant, auth, made)
  BY DEF Alone
<1>2. CASE Revoke(d)
  <2>1. /\ req[d].pc = "revoke"
        /\ grant' = (grant /\ ~ (user.id = req[d].user /\ user.credential))
        /\ UNCHANGED <<tomb, user, holder, cals, auth, actors>>
    BY <1>2 DEF Revoke
  <2>2. PICK place \in {"markToken", "fail"} : Goto(d, place)
    BY <1>2 DEF Revoke
  <2>3. ~ grant'
    <3>1. CASE user = NoUser
      <4>1. "token" \in tomb.steps
        BY <1>1, <3>1, Facts, StepsBefore DEF Rest, InOrder
      <4>2. QED
        BY <1>1, <2>1, <4>1 DEF Rest
    <3>2. CASE user # NoUser
      <4>1. user.id = 1 /\ user.credential = TRUE /\ req[d].user = 1
        BY <1>1, <2>1, <3>2 DEF Rest, Left
      <4>2. QED
        BY <2>1, <4>1
    <3>3. QED
      BY <3>1, <3>2
  <2>4. /\ tomb' = tomb /\ user' = user /\ auth' = auth /\ act' = act /\ made' = made
    BY <2>1 DEF actors, beside
  <2>5. Rest(tomb, user, grant', auth, made)
    BY <1>1, <2>3 DEF Rest
  <2>6. Left([req[d] EXCEPT !.pc = place], tomb, grant', auth, made)
    BY <2>1, <2>2, <2>3, GotoLeft
  <2>7. req' = [req EXCEPT ![d] = [req[d] EXCEPT !.pc = place]]
    BY <2>2 DEF Goto
  <2>8. QED
    BY <2>3, <2>4, <2>5, <2>6, <2>7, RequestAlone
<1>3. CASE DeleteAuth(d)
  <2>1. /\ req[d].pc = "deleteAuth" /\ auth' = FALSE
        /\ UNCHANGED <<tomb, user, holder, cals, grant, actors>>
    BY <1>3 DEF DeleteAuth
  <2>2. PICK place \in {"markAuth", "fail"} : Goto(d, place)
    BY <1>3 DEF DeleteAuth
  <2>3. /\ tomb' = tomb /\ user' = user /\ grant' = grant /\ act' = act /\ made' = made
    BY <2>1 DEF actors, beside
  <2>4. ~ auth'
    BY <2>1
  <2>5. Rest(tomb, user, grant, auth', made)
    BY <1>1, <2>4 DEF Rest
  <2>6. Left([req[d] EXCEPT !.pc = place], tomb, grant, auth', made)
    BY <2>1, <2>2, <2>4, GotoLeft
  <2>7. req' = [req EXCEPT ![d] = [req[d] EXCEPT !.pc = place]]
    BY <2>2 DEF Goto
  <2>8. QED
    BY <2>3, <2>4, <2>5, <2>6, <2>7, RequestAlone
<1>4. QED
  BY <1>2, <1>3

(* The records of the steps.                                               *)
LEMMA MarkAlone ==
    ASSUME IInv, Alone, NEW d \in Request,
           NEW step \in {"calendar", "token", "auth", "complete"}, NEW status,
           NEW to \in {"token", "data", "complete", "release"}, Mark(d, step, status, to),
           req[d].pc \notin {"idle", "user", "begin"},
           step = "token" => ~ grant, step = "auth" => ~ auth,
           status = "COMPLETED" => step = "complete"
    PROVE  Alone'
<1> DEFINE j == [req[d] EXCEPT !.pc = to, !.seen.steps = @ \cup {step}]
<1>1. /\ tomb' = [tomb EXCEPT !.status = status, !.steps = @ \cup {step}]
      /\ req' = [req EXCEPT ![d] = j] /\ UNCHANGED <<user, holder, outside, actors>>
  BY Facts DEF Mark
<1>2. /\ tomb'.status = status /\ tomb'.calendar = tomb.calendar /\ tomb'.user = tomb.user
      /\ tomb'.steps = tomb.steps \cup {step}
  BY <1>1, Facts DEF Tombstone
<1>3. /\ j.pc = to /\ j.user = req[d].user
      /\ j.seen.status = req[d].seen.status /\ j.seen.user = req[d].seen.user
  BY Facts DEF RequestState, Tombstone
<1> HIDE DEF j
<1>4. Left(req[d], tomb, grant, auth, made) /\ Rest(tomb, user, grant, auth, made)
  BY DEF Alone
<1>5. tomb.status # "none"
  BY Facts DEF Knows
<1>6. Rest(tomb', user, grant, auth, made)
  BY <1>2, <1>4, <1>5 DEF Rest
<1>7. Left(j, tomb', grant, auth, made)
  BY <1>2, <1>3, <1>4 DEF Left
<1>8. user' = user /\ grant' = grant /\ auth' = auth /\ act' = act /\ made' = made
  BY <1>1 DEF outside, actors, beside
<1>9. QED
  BY <1>1, <1>2, <1>6, <1>7, <1>8, RequestAlone

LEMMA RecordAlone ==
    ASSUME IInv, Alone, NEW d \in Request,
           MarkCalendar(d) \/ MarkToken(d) \/ MarkAuth(d)
              \/ (Complete(d) /\ ~ Seen(d, "complete"))
    PROVE  Alone'
<1>1. Left(req[d], tomb, grant, auth, made)
  BY DEF Alone
<1>2. CASE MarkCalendar(d)
  BY <1>2, MarkAlone DEF MarkCalendar
<1>3. CASE MarkToken(d)
  <2>1. req[d].pc = "markToken" /\ Mark(d, "token", "TOKEN_REVOKED", "data") /\ ~ grant
    BY <1>1, <1>3 DEF MarkToken, Left
  <2>2. QED
    BY <2>1, MarkAlone
<1>4. CASE MarkAuth(d)
  <2>1. req[d].pc = "markAuth" /\ Mark(d, "auth", "AUTH_DELETED", "complete") /\ ~ auth
    BY <1>1, <1>4 DEF MarkAuth, Left
  <2>2. QED
    BY <2>1, MarkAlone
<1>5. CASE Complete(d) /\ ~ Seen(d, "complete")
  <2>1. req[d].pc = "complete" /\ Mark(d, "complete", "COMPLETED", "release")
    BY <1>5 DEF Complete
  <2>2. QED
    BY <2>1, MarkAlone
<1>6. QED
  BY <1>2, <1>3, <1>4, <1>5

(* The rows go with their record, whatever the copy of the tombstone says. *)
LEMMA DataAlone ==
    ASSUME IInv, Alone, NEW d \in Request, DeleteData(d), ~ Seen(d, "data")
    PROVE  Alone'
<1> DEFINE j == [req[d] EXCEPT !.pc = "auth", !.user = 0, !.seen.steps = @ \cup {"data"}]
<1>1. /\ req[d].pc = "data" /\ req' = [req EXCEPT ![d] = j]
      /\ user' = (IF req[d].seen.user # 0 /\ user.id = req[d].seen.user THEN NoUser ELSE user)
      /\ tomb' = [tomb EXCEPT !.status = "DATA_DELETED", !.steps = @ \cup {"data"},
                              !.user = IF req[d].seen.user # 0 THEN 0 ELSE @]
      /\ UNCHANGED <<holder, outside, beside>>
  BY Facts DEF DeleteData
<1>2. /\ tomb'.status = "DATA_DELETED" /\ tomb'.calendar = tomb.calendar
      /\ tomb'.steps = tomb.steps \cup {"data"}
  BY <1>1, Facts DEF Tombstone
<1>3. j.pc = "auth"
  BY Facts DEF RequestState
<1> HIDE DEF j
<1>4. Left(req[d], tomb, grant, auth, made) /\ Rest(tomb, user, grant, auth, made)
  BY DEF Alone
<1>5. tomb.status # "none" /\ req[d].seen.status # "none"
  BY <1>1, Facts DEF Knows
<1>6. user' = NoUser
  <2>1. CASE user = NoUser
    BY <1>1, <2>1
  <2>2. CASE user # NoUser
    <3>1. user.id = 1 /\ req[d].seen.user = 1
      BY <1>4, <1>5, <2>2 DEF Rest, Left
    <3>2. QED
      BY <1>1, <3>1
  <2>3. QED
    BY <2>1, <2>2
<1>7. Rest(tomb', user', grant, auth, made)
  BY <1>2, <1>4, <1>5, <1>6 DEF Rest
<1>8. Left(j, tomb', grant, auth, made)
  BY <1>2, <1>3 DEF Left
<1>9. grant' = grant /\ auth' = auth /\ act' = act /\ made' = made
  BY <1>1 DEF outside, beside
<1>10. QED
  BY <1>1, <1>2, <1>7, <1>8, <1>9, RequestAlone

LEMMA LeaveAlone ==
    ASSUME IInv, Alone, NEW d \in Request, MarkFailed(d) \/ Release(d) \/ Crash(d)
    PROVE  Alone'
<1>1. CASE MarkFailed(d)
  <2>1. /\ req[d].pc = "fail" /\ req' = [req EXCEPT ![d] = [req[d] EXCEPT !.pc = "release"]]
        /\ tomb' = (IF holder = d THEN [tomb EXCEPT !.status = "FAILED"] ELSE tomb)
        /\ UNCHANGED <<user, holder, outside, actors>>
    BY <1>1 DEF MarkFailed, Goto
  <2>2. /\ tomb'.steps = tomb.steps /\ tomb'.calendar = tomb.calendar
        /\ tomb'.user = tomb.user /\ tomb'.status \in {tomb.status, "FAILED"}
    BY <2>1, Facts DEF Tombstone
  <2>3. tomb.status # "none"
    BY <2>1, Facts DEF Knows
  <2>4. Rest(tomb', user, grant, auth, made)
    BY <2>2, <2>3 DEF Alone, Rest
  <2>5. Left([req[d] EXCEPT !.pc = "release"], tomb', grant, auth, made)
    BY <2>1, <2>2, GotoLeft
  <2>6. user' = user /\ grant' = grant /\ auth' = auth /\ act' = act /\ made' = made
    BY <2>1 DEF outside, actors, beside
  <2>7. QED
    BY <2>1, <2>2, <2>4, <2>5, <2>6, RequestAlone
<1>2. CASE Release(d) \/ Crash(d)
  <2>1. req' = [req EXCEPT ![d] = NoRequest] /\ UNCHANGED <<tomb, user, outside, actors>>
    BY <1>2 DEF Release, Crash
  <2>2. QED
    BY <2>1, NoRequestLeft, LocalAlone
<1>3. QED
  BY <1>1, <1>2

(* Time, the hourly cleanup and the user, who may only take away.          *)
LEMMA WorldAlone ==
    ASSUME IInv, Alone,
           \/ Lapse \/ Cleanup \/ MapEvent \/ Unmap \/ UserRevokes
           \/ UserDeletesCalendar \/ UNCHANGED vars
    PROVE  Alone'
<1>1. /\ tomb' = tomb /\ user' = user /\ auth' = auth /\ act' = act /\ made' = made
      /\ req' = req /\ (grant' => grant)
  BY DEF Lapse, Cleanup, MapEvent, Unmap, UserRevokes, UserDeletesCalendar, vars, outside,
         actors, beside, deletion
<1>2. Rest(tomb, user, grant', auth, made)
  BY <1>1 DEF Alone, Rest
<1>3. \A d \in Request : Left(req[d], tomb, grant', auth, made)
  BY <1>1 DEF Alone, Left
<1>4. QED
  BY <1>1, <1>2, <1>3 DEF Alone, Quiet, Rest, Left

LEMMA NextAlone ==
    ASSUME IInv, Alone, Quiet', [Next]_vars
    PROVE  Alone'
<1>1. ASSUME NEW d \in Request, Advance(d) \/ Fails(d) \/ MarkFailed(d) \/ Release(d) \/ Crash(d)
      PROVE  Alone'
  <2>1. CASE Find(d) \/ FindUser(d) \/ Acquire(d)
    BY <2>1, ReadAlone
  <2>2. CASE Begin(d)
    BY <2>2, BeginAlone
  <2>3. CASE \/ StartCalendar(d) \/ StartToken(d) \/ StartAuth(d) \/ Fails(d)
             \/ DeleteCalendar(d)
    BY <2>3, StartAlone
  <2>4. CASE Revoke(d) \/ DeleteAuth(d)
    BY <2>4, CallAlone
  <2>5. CASE MarkCalendar(d) \/ MarkToken(d) \/ MarkAuth(d)
    BY <2>5, RecordAlone
  <2>6. CASE Complete(d)
    BY <2>6, StartAlone, RecordAlone
  <2>7. CASE DeleteData(d)
    BY <2>7, StartAlone, DataAlone
  <2>8. CASE MarkFailed(d) \/ Release(d) \/ Crash(d)
    BY <2>8, LeaveAlone
  <2>9. QED
    BY <1>1, <2>1, <2>2, <2>3, <2>4, <2>5, <2>6, <2>7, <2>8 DEF Advance
<1>2. CASE \/ Lapse \/ Cleanup \/ MapEvent \/ Unmap \/ UserRevokes
           \/ UserDeletesCalendar \/ UNCHANGED vars
  BY <1>2, WorldAlone
<1>3. ~ (EnsureUser \/ Verify \/ CompleteOnboarding)
  BY DEF Alone, Quiet, Actor, EnsureUser, Verify, CompleteOnboarding
<1>idle. ~ (Onboard \/ SyncStarts)
  BY ActorFacts DEF Quiet, Actor, Onboard, Move, SyncStarts, ActorState
<1>4. ASSUME NEW a \in Actor
      PROVE  ~ (CheckCalendar(a) \/ CreateCalendar(a) \/ SaveCalendar(a) \/ ActorFails(a))
  BY DEF Alone, Quiet, CheckCalendar, CreateCalendar, SaveCalendar, ActorFails
<1>5. QED
  BY <1>1, <1>2, <1>3, <1>idle, <1>4 DEF Next

(* With nobody else at work COMPLETED says that nothing is left at Google, *)
(* in the database and at Supabase: for any number of overlapping and      *)
(* repeated requests, lapses and crashes, and a user who revokes the grant *)
(* or deletes the calendar meanwhile.                                      *)
THEOREM DeletionCompletedMeansGone == Spec /\ []Quiet => []CompletedMeansGone
<1>1. IInv /\ Alone /\ Quiet' /\ [Next]_vars => Alone'
  BY NextAlone
<1>2. IInv /\ Alone => CompletedMeansGone
  <2> SUFFICES ASSUME IInv, Alone, tomb.status = "COMPLETED"
               PROVE  cals = {} /\ ~ grant /\ user = NoUser /\ ~ auth
    BY DEF CompletedMeansGone
  <2>1. {"calendar", "token", "data", "auth"} \subseteq tomb.steps
    BY StepsBefore DEF Alone, Rest, IInv, InOrder
  <2>2. ~ grant /\ user = NoUser /\ ~ auth /\ tomb.calendar = made
    BY <2>1 DEF Alone, Rest
  <2>3. made \in {0, 1} /\ cals \subseteq 1 .. made /\ (made # 0 => made \notin cals)
    BY <2>1, <2>2 DEF Alone, IInv, World, Gone
  <2>4. cals = {}
    <3>1. \A c \in 1 .. made : c = made /\ made # 0
      BY <2>3
    <3>2. QED
      BY <2>3, <3>1
  <2>5. QED
    BY <2>2, <2>4
<1>3. IInv /\ Init => Alone
  BY InitAlone
<1>4. QED
  BY <1>1, <1>2, <1>3, DeletionInvariant, PTL DEF Spec

(* Nobody is at work where the user never connects again and no worker     *)
(* syncs, as in the run that checks CompletedMeansGone.                    *)
THEOREM DeletionQuiet ==
    ASSUME ~ Onboards, ~ Syncs
    PROVE  Spec => []Quiet
<1>1. Init => Quiet
  BY DEF Init, Quiet, NoActor
<1>2. Quiet /\ [Next]_vars => Quiet'
  <2> SUFFICES ASSUME Quiet, [Next]_vars PROVE act' = act
    BY DEF Quiet
  <2>1. ~ (Onboard \/ EnsureUser \/ Verify \/ CompleteOnboarding \/ SyncStarts)
    BY DEF Quiet, Actor, Onboard, EnsureUser, Verify, CompleteOnboarding, SyncStarts
  <2>2. ASSUME NEW a \in Actor
        PROVE  ~ (CheckCalendar(a) \/ CreateCalendar(a) \/ SaveCalendar(a) \/ ActorFails(a))
    BY DEF Quiet, CheckCalendar, CreateCalendar, SaveCalendar, ActorFails
  <2>3. ASSUME NEW d \in Request,
               Advance(d) \/ Fails(d) \/ MarkFailed(d) \/ Release(d) \/ Crash(d)
        PROVE  act' = act
    BY <2>3 DEF Advance, Find, FindUser, Begin, Acquire, StartCalendar, DeleteCalendar,
                MarkCalendar, StartToken, Revoke, MarkToken, DeleteData, StartAuth, DeleteAuth,
                MarkAuth, Complete, Mark, Fails, MarkFailed, Release, Crash, actors, beside
  <2>4. CASE \/ Lapse \/ Cleanup \/ MapEvent \/ Unmap \/ UserRevokes
             \/ UserDeletesCalendar \/ UNCHANGED vars
    BY <2>4 DEF Lapse, Cleanup, MapEvent, Unmap, UserRevokes, UserDeletesCalendar, vars,
                actors, beside
  <2>5. QED
    BY <2>1, <2>2, <2>3, <2>4 DEF Next
<1>3. QED
  BY <1>1, <1>2, PTL DEF Spec
=============================================================================
