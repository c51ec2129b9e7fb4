---------------------- MODULE GoogleConnection_proofs ----------------------
(***************************************************************************)
(* Proofs about GoogleConnection for any number of overlapping onboardings *)
(* and jobs of the worker, any consents and any calendars: the types of    *)
(* its state, that nobody is cut off without a reason, and that a second   *)
(* calendar comes from the named races only.                               *)
(***************************************************************************)
EXTENDS GoogleConnection, TLAPS

Reason == (\E g \in DOMAIN grants : grants[g] \in {"partial", "revoked"})
          \/ locked # {} \/ denied

(* Grants a call or a row knows were given, calendars it knows were made.  *)
Given(g) == g # 0 => grants[g] # "none"

(* What a call knows: about to mark the user it has a reason; only where   *)
(* it is about to store a calendar it has one that nobody else knows; and  *)
(* where it creates one, the calendar it read is gone.                     *)
Knows(c) ==
    /\ call[c].pc \in {"refused", "mark"} => Reason
    /\ Given(call[c].own) /\ Given(call[c].token)
    /\ call[c].made # 0 => call[c].pc = "keep"
    /\ call[c].pc = "keep" => call[c].want = "create"
    /\ call[c].want = "create" /\ call[c].pc # "complete" => call[c].read \notin cals
    /\ call[c].read <= made /\ call[c].made <= made

World ==
    /\ user.reauth => Reason
    /\ user.calendar <= made
    /\ Given(cred) /\ \A p \in Process : Given(cache[p])

IInv == TypeOK /\ World /\ NoSecondCalendar /\ \A c \in Calls : Knows(c)

-----------------------------------------------------------------------------
(* Types of the records.                                                   *)

LEMMA NoCallType == NoCall \in CallState
  BY ConnectionAssumption DEF NoCall, CallState, Request, Grant, Calendar

LEMMA HomeType == \A c \in Calls : Home(c) \in Process
  BY DEF Home, Process

LEMMA InitIInv == Init => IInv
<1> SUFFICES ASSUME Init PROVE IInv
  OBVIOUS
<1>1. TypeOK
  <2>1. denied \in BOOLEAN /\ locked \subseteq 1 .. MaxGrant
    BY DEF Init
  <2>2. call \in [Calls -> CallState]
    BY NoCallType DEF Init
  <2>3. cred \in Grant /\ cache \in [Process -> Grant]
    BY ConnectionAssumption DEF Init, Grant
  <2>4. made \in Calendar /\ cals \subseteq 1 .. made /\ astray \subseteq 1 .. made
    BY ConnectionAssumption DEF Init, Calendar
  <2>5. user \in [calendar : Calendar, reauth : BOOLEAN, done : BOOLEAN]
    BY ConnectionAssumption DEF Init, Calendar
  <2>6. grants \in [1 .. MaxGrant -> {"none", "full", "partial", "revoked"}]
    BY DEF Init
  <2>7. QED
    BY <2>1, <2>2, <2>3, <2>4, <2>5, <2>6 DEF TypeOK
<1>2. World /\ NoSecondCalendar
  BY DEF Init, World, NoSecondCalendar, Given
<1>3. ASSUME NEW c \in Calls PROVE Knows(c)
  BY DEF Init, Knows, NoCall, Given, Calls
<1>4. QED
  BY <1>1, <1>2, <1>3 DEF IInv

-----------------------------------------------------------------------------
(* What a step has to show.                                                *)

(* Nothing that was a reason, was given or was made is taken back, and     *)
(* calendars that come have new numbers.                                   *)
OnlyMore ==
    /\ Reason => Reason'
    /\ \A g \in Grant : Given(g) => Given(g)'
    /\ made <= made'
    /\ \A k \in cals' : k \in cals \/ k > made

LEMMA KnowsStays ==
    ASSUME IInv, TypeOK', OnlyMore, NEW c \in Calls, call'[c] = call[c]
    PROVE  Knows(c)'
<1>1. /\ call[c].own \in Grant /\ call[c].token \in Grant
      /\ call[c].read \in Nat /\ call[c].made \in Nat /\ made \in Nat /\ made' \in Nat
  BY DEF IInv, TypeOK, CallState, Calendar
<1>2. Knows(c)
  BY DEF IInv
<1>3. /\ Given(call[c].own)' /\ Given(call[c].token)'
      /\ call[c].pc \in {"refused", "mark"} => Reason'
  BY <1>1, <1>2 DEF OnlyMore, Knows, Given
<1>4. call[c].want = "create" /\ call[c].pc # "complete" => call[c].read \notin cals'
  BY <1>1, <1>2 DEF OnlyMore, Knows
<1>5. call[c].read <= made' /\ call[c].made <= made'
  BY <1>1, <1>2 DEF OnlyMore, Knows
<1>6. QED
  BY <1>2, <1>3, <1>4, <1>5 DEF Knows, Given

(* Steps that leave grants and calendars alone.                            *)
LEMMA OnlyMoreIfUnchanged ==
    ASSUME UNCHANGED <<grants, locked, denied, cals, made>>, TypeOK PROVE OnlyMore
  BY DEF OnlyMore, Reason, Given, TypeOK, Calendar

(* A step of one call that leaves grants and calendars alone.              *)
LEMMA CallIInv ==
    ASSUME NEW c \in Calls, IInv, TypeOK', UNCHANGED <<grants, locked, denied, cals, made>>,
           \A d \in Calls \ {c} : call'[d] = call[d],
           World', NoSecondCalendar', Knows(c)'
    PROVE  IInv'
<1>1. OnlyMore
  BY OnlyMoreIfUnchanged DEF IInv
<1>2. ASSUME NEW d \in Calls PROVE Knows(d)'
  BY <1>1, <1>2, KnowsStays
<1>3. QED
  BY <1>2 DEF IInv

(* Its rows and its calendars: unless it stores something, what it creates *)
(* is all that can be lost.                                                *)
LEMMA QuietIInv ==
    ASSUME NEW c \in Calls, IInv, NEW k \in CallState, call' = [call EXCEPT ![c] = k],
           UNCHANGED <<user, cred, google, calendars>>, cache' \in [Process -> Grant],
           \A p \in Process : Given(cache'[p]),
           k.pc \in {"refused", "mark"} => Reason,
           Given(k.own), Given(k.token),
           call[c].made = 0, k.made = 0, k.pc # "keep",
           k.want = "create" /\ k.pc # "complete" => k.read \notin cals,
           k.read <= made
    PROVE  IInv'
<1>1. TypeOK'
  BY DEF IInv, TypeOK, google, calendars, CallState
<1>2. World'
  BY DEF IInv, World, Given, Reason, google, calendars
<1>3. NoSecondCalendar'
  <2>1. \A d \in Calls : call'[d].made = call[d].made
    BY DEF IInv, TypeOK
  <2>2. {call'[d].made : d \in Calls} = {call[d].made : d \in Calls}
    BY <2>1
  <2>3. QED
    BY <2>2 DEF IInv, NoSecondCalendar, calendars
<1>4. Knows(c)'
  <2>1. call'[c] = k
    BY DEF IInv, TypeOK
  <2>2. k.made <= made
    BY DEF IInv, Knows
  <2>3. QED
    BY <2>1, <2>2 DEF Knows, Given, Reason, google, calendars
<1>5. \A d \in Calls \ {c} : call'[d] = call[d]
  BY DEF IInv, TypeOK
<1>6. QED
  BY <1>1, <1>2, <1>3, <1>4, <1>5, CallIInv DEF google, calendars

-----------------------------------------------------------------------------
(* Steps that change what calls know and what a process keeps, and no row. *)

(* What the lemmas below need of a call that is not storing a calendar.    *)
LEMMA KnowsCall ==
    ASSUME NEW c \in Calls, IInv
    PROVE  /\ call[c] \in CallState /\ Knows(c) /\ Home(c) \in Process
           /\ \A p \in Process : Given(cache[p]) /\ cache[p] \in Grant
           /\ cache \in [Process -> Grant] /\ cred \in Grant /\ Given(cred)
           /\ user.calendar \in Calendar /\ user.calendar <= made /\ made \in Nat
  BY HomeType DEF IInv, TypeOK, World, Calendar

LEMMA NoCallKnows ==
    /\ NoCall.pc = "idle" /\ NoCall.want = "check" /\ NoCall.own = 0
    /\ NoCall.token = 0 /\ NoCall.read = 0 /\ NoCall.made = 0
  BY DEF NoCall

LEMMA EndIInv ==
    ASSUME NEW c \in Calls, IInv, End(c), call[c].pc # "keep",
           UNCHANGED <<user, cred, cache, google, calendars>>
    PROVE  IInv'
<1>1. call[c].made = 0 /\ cache \in [Process -> Grant] /\ \A p \in Process : Given(cache[p])
  BY KnowsCall DEF Knows
<1>2. NoCall \in CallState /\ NoCall.read <= made /\ Given(NoCall.own) /\ Given(NoCall.token)
  BY NoCallType, NoCallKnows, KnowsCall DEF Given, Calendar
<1>3. QED
  BY <1>1, <1>2, NoCallKnows, QuietIInv DEF End

LEMMA ExchangeIInv ==
    ASSUME NEW c \in Calls, IInv, Exchange(c) PROVE IInv'
<1>1. /\ call[c] \in CallState /\ Knows(c) /\ Home(c) \in Process /\ call[c].made = 0
      /\ call[c].pc \in {"verify", "exchange"}
      /\ cache \in [Process -> Grant] /\ \A p \in Process : Given(cache[p])
  BY KnowsCall DEF Exchange, Knows
<1>2. CASE Dead(call[c].token)
  <2>1. PICK place \in {"refused", "mark"} : call' = [call EXCEPT ![c].pc = place]
    BY <1>2 DEF Exchange, Goto
  <2> DEFINE k == [call[c] EXCEPT !.pc = place]
  <2>2. call' = [call EXCEPT ![c] = k]
    BY <1>1, <2>1 DEF IInv, TypeOK
  <2>2a. k \in CallState
    BY <1>1 DEF CallState
  <2>3. /\ k.own = call[c].own /\ k.token = call[c].token /\ k.want = call[c].want
        /\ k.read = call[c].read /\ k.made = 0 /\ k.pc = place
    BY <1>1 DEF CallState
  <2>4. Reason
    BY <1>1, <1>2 DEF Reason, Dead, Knows, Given, IInv, TypeOK, CallState, Grant
  <2>5. UNCHANGED <<user, cred, cache, google, calendars>>
    BY <1>2 DEF Exchange
  <2> HIDE DEF k
  <2>6. QED
    BY <1>1, <2>2, <2>2a, <2>3, <2>4, <2>5, QuietIInv DEF Knows
<1>3. CASE ~ Dead(call[c].token)
  <2>1. PICK place \in {"save", "request"} : call' = [call EXCEPT ![c].pc = place]
    BY <1>3 DEF Exchange, Goto
  <2> DEFINE k == [call[c] EXCEPT !.pc = place]
  <2>2. call' = [call EXCEPT ![c] = k]
    BY <1>1, <2>1 DEF IInv, TypeOK
  <2>2a. k \in CallState
    BY <1>1 DEF CallState
  <2>3. /\ k.own = call[c].own /\ k.token = call[c].token /\ k.want = call[c].want
        /\ k.read = call[c].read /\ k.made = 0 /\ k.pc = place
    BY <1>1 DEF CallState
  <2>4. /\ cache' \in [Process -> Grant] /\ \A p \in Process : Given(cache'[p])
        /\ UNCHANGED <<user, cred, google, calendars>>
    BY <1>1, <1>3 DEF Exchange, Knows, CallState
  <2> HIDE DEF k
  <2>5. QED
    BY <1>1, <2>2, <2>2a, <2>3, <2>4, QuietIInv DEF Knows
<1>4. QED
  BY <1>2, <1>3

LEMMA TokenIInv ==
    ASSUME NEW c \in Calls, IInv, Token(c) PROVE IInv'
<1>1. /\ call[c] \in CallState /\ Knows(c) /\ call[c].pc = "token" /\ call[c].made = 0
      /\ cache \in [Process -> Grant] /\ \A p \in Process : Given(cache[p])
      /\ cache[Home(c)] \in Grant /\ Given(cache[Home(c)]) /\ cred \in Grant /\ Given(cred)
      /\ UNCHANGED <<user, cred, cache, google, calendars>>
  BY KnowsCall DEF Token, Knows
<1>2. CASE call' = [call EXCEPT ![c] = NoCall]
  BY <1>1, <1>2, EndIInv DEF End
<1>3. ASSUME NEW g \in Grant, Given(g), NEW place \in {"request", "exchange"},
             call' = [call EXCEPT ![c] = [@ EXCEPT !.pc = place, !.token = g]]
      PROVE  IInv'
  <2> DEFINE k == [call[c] EXCEPT !.pc = place, !.token = g]
  <2>1. call' = [call EXCEPT ![c] = k]
    BY <1>1, <1>3 DEF IInv, TypeOK
  <2>1a. k \in CallState
    BY <1>1 DEF CallState
  <2>2. /\ k.own = call[c].own /\ k.token = g /\ k.want = call[c].want
        /\ k.read = call[c].read /\ k.made = 0 /\ k.pc = place
    BY <1>1 DEF CallState
  <2> HIDE DEF k
  <2>3. QED
    BY <1>1, <1>3, <2>1, <2>1a, <2>2, QuietIInv DEF Knows
<1>4. ASSUME cred \in locked, call' = [call EXCEPT ![c] = [@ EXCEPT !.pc = "mark"]]
      PROVE  IInv'
  <2> DEFINE k == [call[c] EXCEPT !.pc = "mark"]
  <2>1. call' = [call EXCEPT ![c] = k]
    BY <1>1, <1>4 DEF IInv, TypeOK
  <2>1a. k \in CallState
    BY <1>1 DEF CallState
  <2>2. /\ k.own = call[c].own /\ k.token = call[c].token /\ k.want = call[c].want
        /\ k.read = call[c].read /\ k.made = 0 /\ k.pc = "mark"
    BY <1>1 DEF CallState
  <2>3. Reason
    BY <1>4 DEF Reason
  <2> HIDE DEF k
  <2>4. QED
    BY <1>1, <2>1, <2>1a, <2>2, <2>3, QuietIInv DEF Knows
<1>5. QED
  BY <1>1, <1>2, <1>3, <1>4 DEF Token

(* Asking for something new, or going on to another place.                 *)
LEMMA AskIInv ==
    ASSUME NEW c \in Calls, IInv, NEW want \in Request, Ask(c, want),
           call[c].pc # "keep", want = "create" => call[c].read \notin cals,
           UNCHANGED <<user, cred, cache, google, calendars>>
    PROVE  IInv'
<1> DEFINE k == [call[c] EXCEPT !.pc = "token", !.want = want]
<1>1. call[c] \in CallState /\ Knows(c) /\ call[c].made = 0
  BY KnowsCall DEF Knows
<1>2. call' = [call EXCEPT ![c] = k]
  BY <1>1 DEF Ask, IInv, TypeOK
<1>2a. k \in CallState
  BY <1>1 DEF CallState
<1>3. /\ k.own = call[c].own /\ k.token = call[c].token /\ k.want = want
      /\ k.read = call[c].read /\ k.made = 0 /\ k.pc = "token"
  BY <1>1 DEF CallState
<1> HIDE DEF k
<1>4. QED
  BY <1>1, <1>2, <1>2a, <1>3, KnowsCall, QuietIInv DEF Knows

LEMMA GotoIInv ==
    ASSUME NEW c \in Calls, IInv, NEW place \in {"complete", "mark"}, Goto(c, place),
           call[c].pc \notin {"keep", "complete"}, place = "mark" => Reason,
           UNCHANGED <<user, cred, cache, google, calendars>>
    PROVE  IInv'
<1> DEFINE k == [call[c] EXCEPT !.pc = place]
<1>1. call[c] \in CallState /\ Knows(c) /\ call[c].made = 0
  BY KnowsCall DEF Knows
<1>2. call' = [call EXCEPT ![c] = k]
  BY <1>1 DEF Goto, IInv, TypeOK
<1>2a. k \in CallState
  BY <1>1 DEF CallState
<1>3. /\ k.own = call[c].own /\ k.token = call[c].token /\ k.want = call[c].want
      /\ k.read = call[c].read /\ k.made = 0 /\ k.pc = place
  BY <1>1 DEF CallState
<1> HIDE DEF k
<1>4. QED
  BY <1>1, <1>2, <1>2a, <1>3, KnowsCall, QuietIInv DEF Knows

LEMMA CheckIInv ==
    ASSUME NEW c \in Calls, IInv, Check(c) PROVE IInv'
<1>1. call[c].pc = "request" /\ UNCHANGED <<user, cred, cache, google, calendars>>
  BY DEF Check
<1>2. CASE End(c)
  BY <1>1, <1>2, EndIInv
<1>3. CASE Ask(c, "create") /\ call[c].read \notin cals
  BY <1>1, <1>3, AskIInv DEF Request
<1>4. CASE Goto(c, "complete")
  BY <1>1, <1>4, GotoIInv
<1>5. QED
  BY <1>2, <1>3, <1>4 DEF Check, HasCalendar

(* Where the calendars of a state are to be found.                         *)
LEMMA Found ==
    NoSecondCalendar <=> \A k \in cals : \/ k = user.calendar \/ k \in astray
                                         \/ \E c \in Calls : call[c].made = k
  BY DEF NoSecondCalendar

LEMMA FoundNext ==
    NoSecondCalendar' <=> \A k \in cals' : \/ k = user'.calendar \/ k \in astray'
                                           \/ \E c \in Calls : call'[c].made = k
  BY DEF NoSecondCalendar

LEMMA DeleteIInv ==
    ASSUME NEW c \in Calls, IInv, Delete(c) PROVE IInv'
<1>1. /\ call[c].pc = "request" /\ call[c].want = "delete"
      /\ UNCHANGED <<user, cred, cache, grants, locked, calendars>>
  BY DEF Delete
<1>2. CASE End(c) /\ UNCHANGED denied
  BY <1>1, <1>2, EndIInv DEF google
<1>3. CASE Goto(c, "mark") /\ UNCHANGED denied /\ Dead(call[c].token)
  <2>1. Reason
    BY <1>3, KnowsCall DEF Reason, Dead, Knows, Given, IInv, TypeOK, CallState, Grant
  <2>2. QED
    BY <1>1, <1>3, <2>1, GotoIInv DEF google
<1>4. CASE Goto(c, "mark") /\ denied' = TRUE
  <2> DEFINE k == [call[c] EXCEPT !.pc = "mark"]
  <2>1. call[c] \in CallState /\ Knows(c) /\ call[c].made = 0
    BY <1>1, KnowsCall DEF Knows
  <2>2. k \in CallState
    BY <2>1 DEF CallState
  <2>3. /\ k.own = call[c].own /\ k.token = call[c].token /\ k.want = "delete"
        /\ k.read = call[c].read /\ k.made = 0 /\ k.pc = "mark"
    BY <1>1, <2>1 DEF CallState
  <2>4. call' = [call EXCEPT ![c] = k]
    BY <1>4, <2>1 DEF Goto, IInv, TypeOK
  <2> HIDE DEF k
  <2>5. TypeOK'
    BY <1>1, <1>4, <2>2, <2>4 DEF IInv, TypeOK, calendars
  <2>6. OnlyMore
    BY <1>1, <1>4 DEF OnlyMore, Reason, Given, IInv, TypeOK, Calendar, calendars
  <2>7. World'
    BY <1>1, <1>4, <2>6, KnowsCall DEF IInv, World, OnlyMore, Given, Reason, calendars
  <2>8. call'[c] = k /\ \A d \in Calls \ {c} : call'[d] = call[d]
    BY <2>4 DEF IInv, TypeOK
  <2>9. NoSecondCalendar'
    <3>1. \A d \in Calls : call'[d].made = call[d].made
      BY <2>1, <2>3, <2>8
    <3>2. QED
      BY <1>1, <3>1, Found, FoundNext DEF IInv, calendars
  <2>10. Knows(c)'
    BY <1>1, <1>4, <2>1, <2>3, <2>8 DEF Knows, Given, Reason, calendars
  <2>11. ASSUME NEW d \in Calls PROVE Knows(d)'
    BY <2>5, <2>6, <2>8, <2>10, KnowsStays
  <2>12. QED
    BY <2>5, <2>7, <2>9, <2>11 DEF IInv
<1>5. QED
  BY <1>2, <1>3, <1>4 DEF Delete

LEMMA WorkIInv ==
    ASSUME NEW w \in Workers, IInv, Work(w) PROVE IInv'
<1>1. /\ w \in Calls /\ call[w].pc = "idle" /\ UNCHANGED <<user, cred, cache, google, calendars>>
  BY DEF Work, Calls
<1>2. PICK want \in {IF user.calendar # 0 THEN "check" ELSE "create", "delete"} :
        call' = [call EXCEPT ![w] =
            [NoCall EXCEPT !.pc = "token", !.want = want, !.read = user.calendar]]
  BY DEF Work
<1> DEFINE k == [NoCall EXCEPT !.pc = "token", !.want = want, !.read = user.calendar]
<1>3. /\ call[w] \in CallState /\ Knows(w) /\ call[w].made = 0
      /\ user.calendar \in Calendar /\ user.calendar <= made
  BY <1>1, KnowsCall DEF Knows
<1>4. k \in CallState
  BY <1>3, NoCallType DEF CallState, Request
<1>5. /\ k.own = 0 /\ k.token = 0 /\ k.want = want /\ k.read = user.calendar /\ k.made = 0
      /\ k.pc = "token"
  BY DEF NoCall
<1>6. want = "create" => user.calendar \notin cals
  BY DEF IInv, TypeOK, Calendar
<1> HIDE DEF k
<1>7. call' = [call EXCEPT ![w] = k]
  BY <1>2 DEF k
<1>8. QED
  BY <1>1, <1>3, <1>4, <1>5, <1>6, <1>7, KnowsCall, QuietIInv DEF Given

-----------------------------------------------------------------------------
(* Steps that write a row or change what there is at Google.               *)

LEMMA ConnectIInv ==
    ASSUME NEW o \in Onboardings, IInv, Connect(o) PROVE IInv'
<1>1. PICK g \in 1 .. MaxGrant, consent \in {"full", "partial"} :
        /\ \A h \in 1 .. MaxGrant : h < g <=> grants[h] # "none"
        /\ grants' = [grants EXCEPT ![g] = consent]
        /\ call' = [call EXCEPT ![o] =
              [NoCall EXCEPT !.pc = "verify", !.own = g, !.token = g, !.read = user.calendar]]
  BY DEF Connect
<1> DEFINE k == [NoCall EXCEPT !.pc = "verify", !.own = g, !.token = g, !.read = user.calendar]
<1>2. /\ o \in Calls /\ call[o].pc = "idle" /\ call[o].made = 0 /\ Home(o) \in Process
      /\ UNCHANGED <<user, cred, locked, denied, cals, made, astray>>
      /\ cache' = [cache EXCEPT ![Home(o)] = 0]
  BY KnowsCall DEF Connect, Calls, Knows, calendars
<1>3. g \in Nat /\ g \in Grant /\ grants[g] = "none" /\ grants'[g] = consent
  BY <1>1 DEF IInv, TypeOK, Grant
<1>4. k \in CallState
  BY <1>2, <1>3, KnowsCall, NoCallType DEF CallState
<1>5. /\ k.own = g /\ k.token = g /\ k.want = "check" /\ k.read = user.calendar
      /\ k.made = 0 /\ k.pc = "verify"
  BY DEF NoCall
<1>6. call' = [call EXCEPT ![o] = k]
  BY <1>1
<1> HIDE DEF k
<1>7. TypeOK'
  <2>1. call' \in [Calls -> CallState]
    BY <1>4, <1>6 DEF IInv, TypeOK
  <2>2. cache' \in [Process -> Grant]
    BY <1>2, ConnectionAssumption DEF IInv, TypeOK, Grant
  <2>3. grants' \in [1 .. MaxGrant -> {"none", "full", "partial", "revoked"}]
    BY <1>1 DEF IInv, TypeOK
  <2>4. QED
    BY <1>2, <2>1, <2>2, <2>3 DEF IInv, TypeOK
<1>8. OnlyMore
  <2>1. ASSUME NEW h \in Grant, Given(h) PROVE Given(h)'
    BY <1>1, <1>3, <2>1 DEF Given, IInv, TypeOK, Grant
  <2>2. Reason => Reason'
    <3>1. ASSUME NEW h \in DOMAIN grants, grants[h] \in {"partial", "revoked"}
          PROVE  h \in DOMAIN grants' /\ grants'[h] = grants[h]
      BY <1>1, <1>3, <3>1 DEF IInv, TypeOK
    <3>2. QED
      BY <1>2, <3>1 DEF Reason
  <2>3. QED
    BY <1>2, <2>1, <2>2 DEF OnlyMore, IInv, TypeOK, Calendar
<1>9. World'
  <2>1. \A p \in Process : Given(cache[p])'
    BY <1>2, <1>8 DEF IInv, World, TypeOK, OnlyMore, Given
  <2>2. Given(cred)'
    BY <1>2, <1>8 DEF IInv, World, TypeOK, OnlyMore, Given
  <2>3. QED
    BY <1>2, <1>8, <2>1, <2>2 DEF IInv, World, OnlyMore, Given
<1>10. NoSecondCalendar'
  <2>1. \A d \in Calls : call'[d].made = call[d].made
    BY <1>2, <1>5, <1>6 DEF IInv, TypeOK
  <2>2. QED
    BY <1>2, <2>1, Found, FoundNext DEF IInv
<1>11. Knows(o)'
  <2>1. call'[o] = k
    BY <1>2, <1>6 DEF IInv, TypeOK
  <2>2. QED
    BY <1>2, <1>3, <1>5, <2>1, KnowsCall DEF Knows, Given, IInv, World
<1>12. ASSUME NEW d \in Calls PROVE Knows(d)'
  <2>1. CASE d = o
    BY <1>11, <2>1
  <2>2. CASE d # o
    BY <1>6, <1>7, <1>8, <2>2, KnowsStays DEF IInv, TypeOK
  <2>3. QED
    BY <2>1, <2>2
<1>13. QED
  BY <1>7, <1>9, <1>10, <1>12 DEF IInv

(* The rows of Save, Mark, Keep and Complete; nothing changes at Google.   *)
LEMMA StoreIInv ==
    ASSUME NEW c \in Calls, IInv, NEW k \in CallState, call' = [call EXCEPT ![c] = k],
           UNCHANGED <<cache, grants, locked, denied, cals, made>>,
           user' \in [calendar : Calendar, reauth : BOOLEAN, done : BOOLEAN],
           cred' \in Grant, astray' \subseteq 1 .. made,
           user'.reauth => Reason, user'.calendar <= made, Given(cred'),
           k.pc \in {"refused", "mark"} => Reason,
           Given(k.own), Given(k.token), k.made = 0, k.pc # "keep",
           k.want = "create" /\ k.pc # "complete" => k.read \notin cals,
           k.read <= made,
           astray \subseteq astray',
           \A x \in cals : x = user.calendar \/ x = call[c].made =>
               x = user'.calendar \/ x \in astray'
    PROVE  IInv'
<1>1. TypeOK'
  <2>1. call' \in [Calls -> CallState]
    BY DEF IInv, TypeOK
  <2>2. QED
    BY <2>1 DEF IInv, TypeOK
<1>2. World'
  BY DEF IInv, World, Given, Reason
<1>3. call'[c] = k /\ \A d \in Calls \ {c} : call'[d] = call[d]
  BY DEF IInv, TypeOK
<1>4. NoSecondCalendar'
  <2>1. ASSUME NEW x \in cals
        PROVE  \/ x = user'.calendar \/ x \in astray' \/ \E d \in Calls : call'[d].made = x
    <3>1. x = user.calendar \/ x \in astray \/ \E d \in Calls : call[d].made = x
      BY <2>1, Found DEF IInv
    <3>2. QED
      BY <1>3, <3>1
  <2>2. QED
    BY <2>1, FoundNext
<1>5. Knows(c)'
  BY <1>3, KnowsCall DEF Knows, Given, Reason
<1>6. QED
  BY <1>1, <1>2, <1>3, <1>4, <1>5, CallIInv

LEMMA SaveIInv ==
    ASSUME NEW o \in Onboardings, IInv, Save(o) PROVE IInv'
<1>1. PICK want \in {"check", "create"} :
        /\ Ask(o, want) /\ (want = "create" => call[o].read = 0)
  BY DEF Save
<1> DEFINE k == [call[o] EXCEPT !.pc = "token", !.want = want]
<1>2. /\ o \in Calls /\ call[o] \in CallState /\ Knows(o) /\ call[o].made = 0
      /\ cred' = call[o].own
      /\ UNCHANGED <<user, cache, grants, locked, denied, cals, made, astray>>
  BY KnowsCall DEF Save, Calls, Knows, calendars, google
<1>3. call' = [call EXCEPT ![o] = k]
  BY <1>1, <1>2 DEF Ask, IInv, TypeOK
<1>4. k \in CallState
  BY <1>2 DEF CallState, Request
<1>5. /\ k.own = call[o].own /\ k.token = call[o].token /\ k.want = want
      /\ k.read = call[o].read /\ k.made = 0 /\ k.pc = "token"
  BY <1>2 DEF CallState
<1>6. /\ user' \in [calendar : Calendar, reauth : BOOLEAN, done : BOOLEAN]
      /\ cred' \in Grant /\ astray' \subseteq 1 .. made /\ 0 \notin cals
  BY <1>2 DEF IInv, TypeOK, CallState, Calendar
<1>7. (user'.reauth => Reason) /\ user'.calendar <= made /\ Given(cred')
  BY <1>2 DEF IInv, World, Knows
<1> HIDE DEF k
<1>8. \A x \in cals : x = user.calendar \/ x = call[o].made =>
               x = user'.calendar \/ x \in astray'
  BY <1>2, <1>6
<1>9. QED
  BY <1>1, <1>2, <1>3, <1>4, <1>5, <1>6, <1>7, <1>8, StoreIInv DEF Knows

LEMMA MarkIInv ==
    ASSUME NEW c \in Calls, IInv, Mark(c) PROVE IInv'
<1>1. /\ call[c] \in CallState /\ Knows(c) /\ call[c].made = 0 /\ Reason
      /\ user' = [user EXCEPT !.reauth = TRUE]
      /\ UNCHANGED <<cred, cache, grants, locked, denied, cals, made, astray>>
  BY KnowsCall DEF Mark, Knows, calendars, google
<1>2. /\ user' \in [calendar : Calendar, reauth : BOOLEAN, done : BOOLEAN]
      /\ user'.calendar = user.calendar
      /\ cred' \in Grant /\ astray' \subseteq 1 .. made
  BY <1>1 DEF IInv, TypeOK
<1>2a. 0 \notin cals
  BY DEF IInv, TypeOK, Calendar
<1>3. user'.calendar <= made /\ Given(cred')
  BY <1>1, <1>2 DEF IInv, World, Given
<1>4. \A x \in cals : x = user.calendar \/ x = call[c].made =>
               x = user'.calendar \/ x \in astray'
  BY <1>1, <1>2, <1>2a
<1>5. CASE End(c)
  <2>1. NoCall \in CallState /\ NoCall.read <= made /\ Given(NoCall.own) /\ Given(NoCall.token)
    BY NoCallType, NoCallKnows, KnowsCall DEF Given, Calendar
  <2>2. QED
    BY <1>1, <1>2, <1>3, <1>4, <1>5, <2>1, StoreIInv, NoCallKnows DEF End
<1>6. CASE Goto(c, "mark")
  <2> DEFINE k == [call[c] EXCEPT !.pc = "mark"]
  <2>1. call' = [call EXCEPT ![c] = k]
    BY <1>6 DEF Goto, IInv, TypeOK
  <2>2. k \in CallState
    BY <1>1 DEF CallState
  <2>3. /\ k.own = call[c].own /\ k.token = call[c].token /\ k.want = call[c].want
        /\ k.read = call[c].read /\ k.made = 0 /\ k.pc = "mark"
    BY <1>1 DEF CallState
  <2>4. call[c].pc # "complete"
    BY DEF Mark
  <2> HIDE DEF k
  <2>5. QED
    BY <1>1, <1>2, <1>3, <1>4, <2>1, <2>2, <2>3, <2>4, StoreIInv DEF Knows
<1>7. QED
  BY <1>5, <1>6 DEF Mark

LEMMA KeepIInv ==
    ASSUME NEW c \in Calls, IInv, Keep(c) PROVE IInv'
<1>1. /\ call[c] \in CallState /\ Knows(c) /\ call[c].pc = "keep" /\ call[c].want = "create"
      /\ user' = [user EXCEPT !.calendar = call[c].made]
      /\ astray' = astray \cup ({user.calendar} \ {0, call[c].read, call[c].made})
      /\ UNCHANGED <<cred, cache, grants, locked, denied, cals, made>>
  BY KnowsCall DEF Keep, Knows, google, Overwritten
<1>2. /\ user' \in [calendar : Calendar, reauth : BOOLEAN, done : BOOLEAN]
      /\ user'.calendar = call[c].made /\ user'.reauth = user.reauth
      /\ cred' \in Grant
  BY <1>1 DEF IInv, TypeOK, CallState
<1>3. /\ user'.reauth => Reason
      /\ user'.calendar <= made
  BY <1>1, <1>2 DEF IInv, World, Knows
<1>4. Given(cred')
  BY <1>1 DEF IInv, World, Given
<1>5. call[c].read \notin cals /\ 0 \notin cals
  BY <1>1 DEF Knows, IInv, TypeOK, Calendar
<1>6. astray' \subseteq 1 .. made
  BY <1>1, KnowsCall DEF IInv, TypeOK, Calendar
<1>7. \A x \in cals : x = user.calendar \/ x = call[c].made =>
               x = user'.calendar \/ x \in astray'
  BY <1>1, <1>2, <1>5
<1>8. CASE End(c)
  <2>1. NoCall \in CallState /\ NoCall.read <= made /\ Given(NoCall.own) /\ Given(NoCall.token)
    BY NoCallType, NoCallKnows, KnowsCall DEF Given, Calendar
  <2>2. QED
    BY <1>1, <1>2, <1>3, <1>4, <1>6, <1>7, <1>8, <2>1, StoreIInv, NoCallKnows DEF End
<1>9. CASE call' = [call EXCEPT ![c] = [@ EXCEPT !.pc = "complete", !.read = call[c].made, !.made = 0]]
  <2> DEFINE k == [call[c] EXCEPT !.pc = "complete", !.read = call[c].made, !.made = 0]
  <2>1. call' = [call EXCEPT ![c] = k]
    BY <1>9 DEF IInv, TypeOK
  <2>2. 0 \in Calendar
    BY ConnectionAssumption DEF Calendar
  <2>3. k \in CallState
    BY <1>1, <2>2 DEF CallState
  <2>4. /\ k.own = call[c].own /\ k.token = call[c].token
        /\ k.read = call[c].made /\ k.made = 0 /\ k.pc = "complete"
    BY <1>1 DEF CallState
  <2> HIDE DEF k
  <2>5. QED
    BY <1>1, <1>2, <1>3, <1>4, <1>6, <1>7, <2>1, <2>3, <2>4, StoreIInv DEF Knows
<1>10. QED
  BY <1>8, <1>9 DEF Keep

LEMMA CompleteIInv ==
    ASSUME NEW o \in Onboardings, IInv, Complete(o) PROVE IInv'
<1>1. /\ o \in Calls /\ call[o] \in CallState /\ Knows(o) /\ call[o].made = 0
      /\ user' = [calendar |-> call[o].read, reauth |-> FALSE, done |-> TRUE]
      /\ cred' = call[o].own
      /\ astray' = astray \cup ({user.calendar} \ {0, call[o].read})
      /\ UNCHANGED <<cache, grants, locked, denied, cals, made>>
  BY KnowsCall DEF Complete, Knows, google, Overwritten, Calls
<1>2. /\ user' \in [calendar : Calendar, reauth : BOOLEAN, done : BOOLEAN]
      /\ user'.calendar = call[o].read /\ ~ user'.reauth
      /\ cred' \in Grant
  BY <1>1 DEF CallState
<1>3. user'.calendar <= made /\ Given(cred')
  BY <1>1, <1>2 DEF Knows, Given
<1>4. astray' \subseteq 1 .. made /\ 0 \notin cals
  <2>1. user.calendar \in Nat /\ user.calendar <= made
    BY <1>1, KnowsCall DEF Calendar
  <2>2. astray \subseteq 1 .. made /\ cals \subseteq 1 .. made /\ made \in Nat
    BY DEF IInv, TypeOK, Calendar
  <2>3. astray' \subseteq astray \cup ({user.calendar} \ {0})
    BY <1>1
  <2>4. QED
    BY <2>1, <2>2, <2>3
<1>5. \A x \in cals : x = user.calendar \/ x = call[o].made =>
               x = user'.calendar \/ x \in astray'
  BY <1>1, <1>2, <1>4
<1>6. CASE End(o)
  <2>1. NoCall \in CallState /\ NoCall.read <= made /\ Given(NoCall.own) /\ Given(NoCall.token)
    BY <1>1, NoCallType, NoCallKnows, KnowsCall DEF Given, Calendar
  <2>2. QED
    BY <1>1, <1>2, <1>3, <1>4, <1>5, <1>6, <2>1, StoreIInv, NoCallKnows DEF End
<1>7. CASE Ask(o, "delete")
  <2> DEFINE k == [call[o] EXCEPT !.pc = "token", !.want = "delete"]
  <2>1. call' = [call EXCEPT ![o] = k]
    BY <1>7 DEF Ask, IInv, TypeOK
  <2>2. k \in CallState
    BY <1>1 DEF CallState, Request
  <2>3. /\ k.own = call[o].own /\ k.token = call[o].token /\ k.want = "delete"
        /\ k.read = call[o].read /\ k.made = 0 /\ k.pc = "token"
    BY <1>1 DEF CallState
  <2> HIDE DEF k
  <2>4. QED
    BY <1>1, <1>2, <1>3, <1>4, <1>5, <2>1, <2>2, <2>3, StoreIInv DEF Knows
<1>8. QED
  BY <1>6, <1>7 DEF Complete

LEMMA FailIInv ==
    ASSUME NEW c \in Calls, IInv, Fail(c) PROVE IInv'
<1>1. /\ astray' = astray \cup ({call[c].made} \ {0}) /\ Knows(c) /\ call[c] \in CallState
      /\ UNCHANGED <<user, cred, cache, grants, locked, denied, cals, made>> /\ End(c)
  BY KnowsCall DEF Fail, google
<1>2. /\ user' \in [calendar : Calendar, reauth : BOOLEAN, done : BOOLEAN] /\ cred' \in Grant
      /\ user'.calendar = user.calendar /\ 0 \notin cals
  BY <1>1 DEF IInv, TypeOK, Calendar
<1>3. (user'.reauth => Reason) /\ user'.calendar <= made /\ Given(cred')
  BY <1>1 DEF IInv, World, Given
<1>4. astray' \subseteq 1 .. made
  <2>1. call[c].made \in Nat /\ call[c].made <= made
    BY <1>1 DEF Knows, CallState, Calendar
  <2>2. astray \subseteq 1 .. made /\ made \in Nat
    BY DEF IInv, TypeOK, Calendar
  <2>3. astray' \subseteq astray \cup ({call[c].made} \ {0})
    BY <1>1
  <2>4. QED
    BY <2>1, <2>2, <2>3
<1>5. \A x \in cals : x = user.calendar \/ x = call[c].made =>
               x = user'.calendar \/ x \in astray'
  BY <1>1, <1>2
<1>6. NoCall \in CallState /\ NoCall.read <= made /\ Given(NoCall.own) /\ Given(NoCall.token)
  BY NoCallType, NoCallKnows, KnowsCall DEF Given, Calendar
<1>7. QED
  BY <1>1, <1>2, <1>3, <1>4, <1>5, <1>6, StoreIInv, NoCallKnows DEF End

LEMMA CreateIInv ==
    ASSUME NEW c \in Calls, IInv, Create(c) PROVE IInv'
<1>1. /\ call[c] \in CallState /\ Knows(c) /\ call[c].made = 0 /\ call[c].pc = "request"
      /\ call[c].want = "create" /\ made \in Nat
      /\ UNCHANGED <<user, cred, cache, grants, locked, denied>>
  BY KnowsCall DEF Create, Knows, google
<1>2. CASE End(c) /\ UNCHANGED calendars
  BY <1>1, <1>2, EndIInv DEF google
<1>3. CASE /\ made < MaxCalendar /\ made' = made + 1 /\ cals' = cals \cup {made'}
           /\ \/ /\ call' = [call EXCEPT ![c].pc = "keep", ![c].made = made']
                 /\ UNCHANGED astray
              \/ End(c) /\ astray' = astray \cup {made'}
  <2>1. PICK k \in CallState :
          /\ call' = [call EXCEPT ![c] = k]
          /\ \/ /\ k = [call[c] EXCEPT !.pc = "keep", !.made = made'] /\ astray' = astray
             \/ k = NoCall /\ astray' = astray \cup {made'}
    <3>1. CASE call' = [call EXCEPT ![c].pc = "keep", ![c].made = made'] /\ UNCHANGED astray
      <4> DEFINE k == [call[c] EXCEPT !.pc = "keep", !.made = made']
      <4>1. call' = [call EXCEPT ![c] = k]
        BY <3>1 DEF IInv, TypeOK
      <4>2. made' \in Calendar
        BY <1>1, <1>3, ConnectionAssumption DEF Calendar
      <4>3. k \in CallState
        BY <1>1, <4>2 DEF CallState
      <4>4. QED
        BY <3>1, <4>1, <4>3
    <3>2. CASE End(c) /\ astray' = astray \cup {made'}
      BY <3>2, NoCallType DEF End
    <3>3. QED
      BY <1>3, <3>1, <3>2
  <2>2. /\ k.own \in {call[c].own, 0} /\ k.token \in {call[c].token, 0}
        /\ k.read \in {call[c].read, 0}
        /\ \/ k.pc = "keep" /\ k.want = "create" /\ k.made = made'
           \/ k.pc = "idle" /\ k.want = "check" /\ k.made = 0 /\ made' \in astray'
    BY <1>1, <2>1, NoCallKnows DEF CallState
  <2>3. call'[c] = k /\ \A d \in Calls \ {c} : call'[d] = call[d]
    BY <2>1 DEF IInv, TypeOK
  <2>4. cals \subseteq 1 .. made /\ astray \subseteq 1 .. made /\ user.calendar <= made
    BY DEF IInv, TypeOK, World
  <2>5. TypeOK'
    <3>1. call' \in [Calls -> CallState]
      BY <2>1 DEF IInv, TypeOK
    <3>2. made' \in Calendar /\ cals' \subseteq 1 .. made' /\ astray' \subseteq 1 .. made'
      BY <1>1, <1>3, <2>1, <2>4, ConnectionAssumption DEF Calendar
    <3>3. QED
      BY <1>1, <3>1, <3>2 DEF IInv, TypeOK
  <2>6. OnlyMore
    BY <1>1, <1>3 DEF OnlyMore, Reason, Given
  <2>7. World'
    BY <1>1, <1>3, <2>6, KnowsCall DEF IInv, World, OnlyMore, Given, Reason, Calendar
  <2>8. NoSecondCalendar'
    <3>1. ASSUME NEW x \in cals'
          PROVE  \/ x = user'.calendar \/ x \in astray' \/ \E d \in Calls : call'[d].made = x
      <4>1. CASE x = made'
        BY <2>2, <2>3, <4>1
      <4>2. CASE x \in cals
        <5>1. x = user.calendar \/ x \in astray \/ \E d \in Calls : call[d].made = x
          BY <4>2, Found DEF IInv
        <5>2. x # 0
          BY <1>1, <2>4, <4>2
        <5>3. QED
          BY <1>1, <2>1, <2>3, <5>1, <5>2
      <4>3. QED
        BY <1>3, <4>1, <4>2
    <3>2. QED
      BY <3>1, FoundNext
  <2>9. Knows(c)'
    <3>1. /\ call[c].read \in Nat /\ call[c].read <= made /\ call[c].read \notin cals
          /\ Given(call[c].own) /\ Given(call[c].token)
      BY <1>1 DEF Knows, CallState, Calendar
    <3>2. k.read <= made' /\ k.made <= made'
      BY <1>1, <1>3, <2>2, <3>1
    <3>3. k.want = "create" => k.read \notin cals'
      BY <1>1, <1>3, <2>1, <2>2, <2>4, <3>1, NoCallKnows DEF CallState
    <3>4. Given(k.own)' /\ Given(k.token)'
      BY <1>1, <2>1, <2>2, <3>1 DEF Given
    <3>5. QED
      BY <2>2, <2>3, <3>2, <3>3, <3>4 DEF Knows, Given
  <2>10. ASSUME NEW d \in Calls PROVE Knows(d)'
    BY <2>3, <2>5, <2>6, <2>9, KnowsStays
  <2>11. QED
    BY <2>5, <2>7, <2>8, <2>10 DEF IInv
<1>4. QED
  BY <1>2, <1>3 DEF Create

-----------------------------------------------------------------------------
(* Steps of the world.                                                     *)

LEMMA OutsideIInv ==
    ASSUME IInv, UNCHANGED <<user, cred, call, made, astray>>, TypeOK', OnlyMore,
           cals' \subseteq cals, \A p \in Process : Given(cache[p])'
    PROVE  IInv'
<1>1. World'
  BY DEF IInv, World, OnlyMore, Given, TypeOK
<1>2. NoSecondCalendar'
  BY DEF IInv, NoSecondCalendar
<1>3. ASSUME NEW c \in Calls PROVE Knows(c)'
  BY KnowsStays
<1>4. QED
  BY <1>1, <1>2, <1>3 DEF IInv

LEMMA ExpireIInv ==
    ASSUME NEW p \in Process, IInv, Expire(p) PROVE IInv'
<1>1. TypeOK' /\ OnlyMore
  <2>1. cache' \in [Process -> Grant]
    BY ConnectionAssumption DEF Expire, IInv, TypeOK, Grant
  <2>2. QED
    BY <2>1, OnlyMoreIfUnchanged DEF Expire, google, calendars, IInv, TypeOK
<1>2. \A q \in Process : Given(cache[q])'
  BY DEF Expire, IInv, World, TypeOK, Given, google
<1>3. QED
  BY <1>1, <1>2, OutsideIInv DEF Expire, google, calendars

LEMMA RevokeIInv ==
    ASSUME IInv, Revoke PROVE IInv'
<1>1. TypeOK'
  BY DEF Revoke, IInv, TypeOK, calendars
<1>2. \A g \in Grant : Given(g) => Given(g)'
  BY DEF Revoke, Given, IInv, TypeOK, Grant
<1>3. Reason'
  BY DEF Revoke, Reason, IInv, TypeOK
<1>4. OnlyMore
  BY <1>2, <1>3 DEF OnlyMore, Revoke, calendars, IInv, TypeOK, Calendar
<1>5. \A q \in Process : Given(cache[q])'
  BY <1>2 DEF Revoke, IInv, World, TypeOK, Given
<1>6. QED
  BY <1>1, <1>4, <1>5, OutsideIInv DEF Revoke, calendars

LEMMA LoseKeyIInv ==
    ASSUME IInv, LoseKey PROVE IInv'
<1>1. TypeOK'
  BY DEF LoseKey, IInv, TypeOK, calendars, Grant
<1>2. OnlyMore
  BY DEF OnlyMore, LoseKey, calendars, IInv, TypeOK, Calendar, Given, Reason
<1>3. \A q \in Process : Given(cache[q])'
  BY DEF LoseKey, IInv, World, Given
<1>4. QED
  BY <1>1, <1>2, <1>3, OutsideIInv DEF LoseKey, calendars

LEMMA RemoveCalendarIInv ==
    ASSUME IInv, RemoveCalendar PROVE IInv'
<1>1. TypeOK'
  BY DEF RemoveCalendar, IInv, TypeOK, google
<1>2. OnlyMore
  BY DEF OnlyMore, RemoveCalendar, google, IInv, TypeOK, Calendar, Given, Reason
<1>3. \A q \in Process : Given(cache[q])'
  BY DEF RemoveCalendar, IInv, World, Given, google
<1>4. QED
  BY <1>1, <1>2, <1>3, OutsideIInv DEF RemoveCalendar, google

LEMMA NextIInv == IInv /\ [Next]_vars => IInv'
<1> SUFFICES ASSUME IInv, [Next]_vars PROVE IInv'
  OBVIOUS
<1>1. CASE \E o \in Onboardings : Onboard(o)
  BY <1>1, ConnectIInv, SaveIInv, CompleteIInv DEF Onboard
<1>2. CASE \E w \in Workers : Work(w)
  BY <1>2, WorkIInv
<1>3. CASE \E c \in Calls : Step(c) \/ Fail(c)
  BY <1>3, ExchangeIInv, MarkIInv, TokenIInv, CheckIInv, CreateIInv, KeepIInv, DeleteIInv,
     FailIInv DEF Step
<1>4. CASE \E p \in Process : Expire(p)
  BY <1>4, ExpireIInv
<1>5. CASE Revoke \/ LoseKey \/ RemoveCalendar
  BY <1>5, RevokeIInv, LoseKeyIInv, RemoveCalendarIInv
<1>6. CASE UNCHANGED vars
  <2>1. UNCHANGED <<user, cred, cache, call, grants, locked, denied, cals, made, astray>>
    BY <1>6 DEF vars
  <2>2. TypeOK'
    BY <2>1 DEF IInv, TypeOK
  <2>3. \A q \in Process : Given(cache[q])'
    BY <2>1 DEF IInv, World, Given
  <2>4. QED
    BY <2>1, <2>2, <2>3, OutsideIInv, OnlyMoreIfUnchanged DEF IInv
<1>7. QED
  BY <1>1, <1>2, <1>3, <1>4, <1>5, <1>6 DEF Next

(* What every call knows in every state: onboard, accessToken and          *)
(* ensureCalendar act on what they read earlier, and it is still good for  *)
(* what they do with it.                                                   *)
THEOREM ConnectionInvariant == Spec => []IInv
  BY InitIInv, NextIInv, PTL DEF Spec

(* The rows, tokens and calls have their types.                            *)
THEOREM ConnectionTypeOK == Spec => []TypeOK
<1>1. IInv => TypeOK
  BY DEF IInv
<1>2. QED
  BY <1>1, ConnectionInvariant, PTL

(* markReauthRequired is reached for a refused grant, a lost key or a      *)
(* forbidden deletion only, however many onboardings and jobs overlap.     *)
THEOREM ConnectionFlagHasReason == Spec => []FlagHasReason
<1>1. IInv => FlagHasReason
  BY DEF IInv, World, FlagHasReason, Reason
<1>2. QED
  BY <1>1, ConnectionInvariant, PTL

(* ensureCalendar makes a second calendar only where an answer was lost or *)
(* another call stored one meanwhile, also for overlapping onboardings.    *)
THEOREM ConnectionNoSecondCalendar == Spec => []NoSecondCalendar
<1>1. IInv => NoSecondCalendar
  BY DEF IInv
<1>2. QED
  BY <1>1, ConnectionInvariant, PTL
=============================================================================
