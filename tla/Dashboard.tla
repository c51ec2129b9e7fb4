----------------------------- MODULE Dashboard ------------------------------
(***************************************************************************)
(* The dashboard (components/dashboard.tsx, lib/api.ts): one page whose    *)
(* handlers are asynchronous functions over the same React state. A button *)
(* is locked by the key of the running operation (busy) or by the run its  *)
(* card shows; Refresh, Cancel, the text field and the polling of runs are *)
(* not. Answers of the API come in any order, or as errors.                *)
(*                                                                         *)
(* A step is what runs between two awaits. Beside the page are the API, as *)
(* far as its answers go, and the runs, which end without the page knowing.*)
(* What is only displayed is left out: the state of the Google connection, *)
(* notices, errors, which channel the dialog is about; so is that a PAUSED *)
(* card has no sync button. A watch is one call of watchSync.              *)
(***************************************************************************)
EXTENDS Naturals, FiniteSets

CONSTANTS
    Sub,        \* subscriptions; a channel registered again gets another one
    NoSub,      \* none
    Watches,    \* bound on the watches at one time
    Refreshers, \* bound on the reloads of the page itself at one time
    First,      \* the one of them that the first effect starts
    Limit,      \* MAX_CHANNELS_PER_USER
    MaxTries    \* maxAttempts of pollSyncRun

ASSUME DashboardAssumption ==
    /\ NoSub \notin Sub
    /\ Limit \in Nat /\ MaxTries \in Nat \ {0}
    /\ "op" \notin (Watches \cup Refreshers) /\ Watches \cap Refreshers = {}
    /\ First \in Refreshers

VARIABLES
    server,     \* subscriptions there are and were, the last run of each
    list,       \* channels: the list as the page has it
    load,       \* the running calls of load: request on its way, or answer with a list
    busy,       \* busy: the handler that locks the buttons, or "none"
    op,         \* that handler
    dialog,     \* dialogOpen, is there a preview
    spinner,    \* syncStates: what a watch says of the run on a card
    watch       \* the watches: attempts so far, and how their run really is

vars == <<server, list, load, busy, op, dialog, spinner, watch>>

Frame == {"op"} \cup Refreshers \cup Watches
RunStatus == {"none", "active", "ended"}
List == [subs : SUBSET Sub, active : SUBSET Sub]
Empty == [subs |-> {}, active |-> {}]
NoLoad == [pc |-> "none", got |-> Empty]
Asked == [pc |-> "asked", got |-> Empty]
NoOp == [pc |-> "none", sub |-> NoSub, answer |-> "none"]
NoWatch == [pc |-> "none", sub |-> NoSub, tries |-> 0, run |-> "none"]
Closed == [open |-> FALSE, preview |-> FALSE]

(* The first effect calls load.                                            *)
Init ==
    /\ \E subs \in SUBSET Sub : server = [subs |-> subs, made |-> subs,
                                          run |-> [s \in Sub |-> "none"]]
    /\ list = Empty
    /\ load = [f \in Frame |-> IF f = First THEN Asked ELSE NoLoad]
    /\ busy = "none" /\ op = NoOp
    /\ dialog = Closed
    /\ spinner = [s \in Sub |-> "none"]
    /\ watch = [w \in Watches |-> NoWatch]

-----------------------------------------------------------------------------
(* The API.                                                                *)

EndRun(s) ==
    /\ server.run[s] = "active"
    /\ server' = [server EXCEPT !.run[s] = "ended"]
    /\ watch' = [w \in Watches |-> IF watch[w].sub = s THEN [watch[w] EXCEPT !.run = "ended"]
                                                      ELSE watch[w]]
    /\ UNCHANGED <<list, load, busy, op, dialog, spinner>>

(* GET /channels, at its time.                                             *)
ReadChannels(f) ==
    /\ load[f].pc = "asked"
    /\ load' = [load EXCEPT ![f] =
                  [pc |-> "answered",
                   got |-> [subs |-> server.subs,
                            active |-> {s \in server.subs : server.run[s] = "active"}]]]
    /\ UNCHANGED <<server, list, busy, op, dialog, spinner, watch>>

(* What an operation does to the server, and for which subscription: the   *)
(* answer is the status of the run for sync and register.                  *)
Effect(kind, s, answer) ==
    \/ kind = "status" /\ s \in server.subs /\ answer = "ok" /\ UNCHANGED server
    \/ /\ kind = "remove" /\ s \in server.subs /\ answer = "ok"
       /\ server' = [server EXCEPT !.subs = @ \ {s}]
    \/ /\ kind = "resolve" /\ answer = "ok" /\ UNCHANGED server
    \/ /\ kind = "sync" /\ s \in server.subs /\ answer = "active"
       /\ server' = [server EXCEPT !.run[s] = "active"]
    \/ /\ kind = "register" /\ s \in Sub \ server.made /\ Cardinality(server.subs) < Limit
       /\ \/ answer = "active" /\ server' = [server EXCEPT !.subs = @ \cup {s},
                     !.made = @ \cup {s}, !.run[s] = "active"]
          \/ answer = "failed" /\ server' = [server EXCEPT !.subs = @ \cup {s},
                     !.made = @ \cup {s}, !.run[s] = "ended"]

(* The request of the operation is done and answered, or refused, or the   *)
(* answer gets lost with or without an effect: for the page an error.      *)
Process ==
    /\ op.pc = "call"
    /\ \/ \E s \in Sub \cup {NoSub}, answer \in {"ok", "active", "failed"} :
             /\ busy # "register" => s = op.sub
             /\ Effect(busy, s, answer)
             /\ op' \in {[pc |-> "answer", sub |-> s, answer |-> answer],
                         [pc |-> "answer", sub |-> s, answer |-> "error"]}
       \/ op' = [op EXCEPT !.pc = "answer", !.answer = "error"] /\ UNCHANGED server
    /\ UNCHANGED <<list, load, busy, dialog, spinner, watch>>

-----------------------------------------------------------------------------
(* load, from the first effect, from Refresh and from the other handlers.  *)

(* What the page has of a run on a card.                                   *)
SyncActive(s) == IF spinner[s] = "none" THEN s \in list.active ELSE spinner[s] = "active"

(* The Refresh button, as often as one likes.                              *)
Refresh(f) ==
    /\ load[f].pc = "none"
    /\ load' = [load EXCEPT ![f] = Asked]
    /\ UNCHANGED <<server, list, busy, op, dialog, spinner, watch>>

(* setChannels with the answer, whatever was shown since; or its catch     *)
(* block.                                                                  *)
Loaded(f) ==
    /\ \/ load[f].pc = "answered" /\ list' = load[f].got
       \/ load[f].pc = "asked" /\ UNCHANGED list
    /\ load' = [load EXCEPT ![f] = NoLoad]

PageLoaded(f) ==
    /\ Loaded(f)
    /\ UNCHANGED <<server, busy, op, dialog, spinner, watch>>

-----------------------------------------------------------------------------
(* Operations, one at a time.                                              *)

Start(kind, s) ==
    /\ busy = "none" /\ busy' = kind
    /\ op' = [pc |-> "call", sub |-> s, answer |-> "none"]
    /\ UNCHANGED <<server, list, load, dialog, spinner, watch>>

(* The buttons of a card.                                                  *)
SetStatus(s) == s \in list.subs /\ Start("status", s)
Remove(s) == s \in list.subs /\ Start("remove", s)
RequestSync(s) ==
    /\ s \in list.subs /\ ~ SyncActive(s)
    /\ \E w \in Watches : watch[w] = NoWatch
    /\ Start("sync", s)

(* The buttons of the dialog.                                              *)
Resolve ==
    /\ dialog.open /\ ~ dialog.preview
    /\ Start("resolve", NoSub)
Register ==
    /\ dialog.open /\ dialog.preview
    /\ \E w \in Watches : watch[w] = NoWatch
    /\ Start("register", NoSub)

End == busy' = "none" /\ op' = NoOp

OpFails ==
    /\ op.pc = "answer" /\ op.answer = "error"
    /\ End
    /\ UNCHANGED <<server, list, load, dialog, spinner, watch>>

(* setPreview, in whatever state the dialog is by now.                     *)
Resolved ==
    /\ op.pc = "answer" /\ busy = "resolve" /\ op.answer = "ok"
    /\ dialog' = [dialog EXCEPT !.preview = TRUE]
    /\ End
    /\ UNCHANGED <<server, list, load, spinner, watch>>

(* A status or a removal is followed by a reload; so is a registration,    *)
(* which closes the dialog first.                                          *)
Answered ==
    /\ op.pc = "answer" /\ busy \in {"status", "remove", "register"}
    /\ op.answer # "error"
    /\ op' = [op EXCEPT !.pc = "load"]
    /\ load' = [load EXCEPT !["op"] = Asked]
    /\ dialog' = IF busy = "register" THEN Closed ELSE dialog
    /\ UNCHANGED <<server, list, busy, spinner, watch>>

OpLoaded ==
    /\ op.pc = "load" /\ Loaded("op")
    /\ IF busy = "register" THEN op' = [op EXCEPT !.pc = "me"] /\ UNCHANGED busy ELSE End
    /\ UNCHANGED <<server, dialog, spinner, watch>>

(* watchSync begins: at once after POST /sync; after the reload and GET    *)
(* /me for a registration.  The lock goes while the watch goes on.         *)
StartWatch ==
    /\ \/ op.pc = "answer" /\ busy = "sync" /\ op.answer = "active"
       \/ op.pc = "me" /\ op.answer = "active"
    /\ \E w \in Watches :
          /\ watch[w] = NoWatch
          /\ watch' = [watch EXCEPT ![w] =
                         [pc |-> "poll", sub |-> op.sub, tries |-> 0,
                          run |-> server.run[op.sub]]]
    /\ spinner' = [spinner EXCEPT ![op.sub] = "active"]
    /\ End
    /\ UNCHANGED <<server, list, load, dialog>>

NoWatchNeeded ==
    /\ op.pc = "me" /\ op.answer = "failed"
    /\ End
    /\ UNCHANGED <<server, list, load, dialog, spinner, watch>>

-----------------------------------------------------------------------------
(* The dialog itself.                                                      *)

Dialog(d) ==
    /\ dialog' = d /\ dialog' # dialog
    /\ UNCHANGED <<server, list, load, busy, op, spinner, watch>>

Open == Cardinality(list.subs) < Limit /\ Dialog([dialog EXCEPT !.open = TRUE])
Edit == dialog.open /\ Dialog([dialog EXCEPT !.preview = FALSE])

(* Cancel works at any time, a click outside only without an operation.    *)
Cancel == dialog.open /\ Dialog(Closed)

-----------------------------------------------------------------------------
(* watchSync and pollSyncRun.                                              *)

(* Its finally block.                                                      *)
EndWatch(w) ==
    /\ spinner' = [spinner EXCEPT ![watch[w].sub] = "none"]
    /\ watch' = [watch EXCEPT ![w] = NoWatch]

Reload(w) == watch' = [watch EXCEPT ![w].pc = "load"] /\ load' = [load EXCEPT ![w] = Asked]

(* The answer of GET /sync-runs/{id}: QUEUED and RUNNING are one.          *)
SyncRun(w) == watch[w].run

(* A mutant: it polls for as long as the run is active, the attempts       *)
(* counted anew.                                                           *)
PollForever(w) ==
    /\ watch[w].pc = "poll"
    /\ IF SyncRun(w) = "active"
          THEN /\ spinner' = [spinner EXCEPT ![watch[w].sub] = "active"]
               /\ watch' = [watch EXCEPT ![w].tries = (@ + 1) % MaxTries]
               /\ UNCHANGED load
          ELSE /\ spinner' = [spinner EXCEPT ![watch[w].sub] = "ended"]
               /\ Reload(w)
    /\ UNCHANGED <<server, list, busy, op, dialog>>

(* An answer to GET /sync-runs/{id}: onUpdate, and what comes next.  After *)
(* the last attempt the watch gives up.                                    *)
Poll(w) ==
    LET tries == watch[w].tries + 1 IN
    /\ watch[w].pc = "poll"
    /\ IF SyncRun(w) = "active"
          THEN /\ IF tries < MaxTries
                     THEN /\ spinner' = [spinner EXCEPT ![watch[w].sub] = "active"]
                          /\ watch' = [watch EXCEPT ![w].tries = tries]
                     ELSE EndWatch(w)
               /\ UNCHANGED load
          ELSE /\ spinner' = [spinner EXCEPT ![watch[w].sub] = "ended"]
               /\ Reload(w)
    /\ UNCHANGED <<server, list, busy, op, dialog>>

(* A mutant: the state of the card is taken back after success only.       *)
PollFailsSilently(w) ==
    /\ watch[w].pc = "poll"
    /\ watch' = [watch EXCEPT ![w] = NoWatch]
    /\ UNCHANGED <<server, list, load, busy, op, dialog, spinner>>

PollFails(w) ==
    /\ watch[w].pc = "poll" /\ EndWatch(w)
    /\ UNCHANGED <<server, list, load, busy, op, dialog>>

WatchLoaded(w) ==
    /\ watch[w].pc = "load" /\ Loaded(w) /\ EndWatch(w)
    /\ UNCHANGED <<server, busy, op, dialog>>

-----------------------------------------------------------------------------
OpStep ==
    Process \/ OpFails \/ Resolved \/ Answered \/ OpLoaded \/ StartWatch \/ NoWatchNeeded
WatchStep(w) == Poll(w) \/ PollFails(w) \/ WatchLoaded(w)

Next ==
    \/ OpStep \/ Resolve \/ Register \/ Open \/ Edit \/ Cancel
    \/ \E s \in Sub : EndRun(s) \/ SetStatus(s) \/ Remove(s) \/ RequestSync(s)
    \/ \E w \in Watches : WatchStep(w)
    \/ \E f \in Frame : ReadChannels(f)
    \/ \E f \in Refreshers : Refresh(f) \/ PageLoaded(f)

Spec == Init /\ [][Next]_vars

(* Every request comes to an answer or an error (the browser gives up in   *)
(* the end: fetch has no timeout here), and timers fire.                   *)
FairSpec ==
    /\ Spec
    /\ WF_vars(OpStep)
    /\ \A w \in Watches : WF_vars(WatchStep(w))

-----------------------------------------------------------------------------
TypeOK ==
    /\ server \in [subs : SUBSET Sub, made : SUBSET Sub, run : [Sub -> RunStatus]]
    /\ server.subs \subseteq server.made
    /\ list \in List /\ load \in [Frame -> [pc : {"none", "asked", "answered"}, got : List]]
    /\ busy \in {"none", "status", "remove", "sync", "resolve", "register"}
    /\ op \in [pc : {"none", "call", "answer", "load", "me"},
               sub : Sub \cup {NoSub}, answer : {"none", "ok", "active", "failed", "error"}]
    /\ dialog \in [open : BOOLEAN, preview : BOOLEAN]
    /\ spinner \in [Sub -> {"none", "active", "ended"}]
    /\ watch \in [Watches -> [pc : {"none", "poll", "load"}, sub : Sub \cup {NoSub},
                              tries : 0 .. MaxTries, run : RunStatus]]
    /\ (busy = "none") <=> (op.pc = "none")

(* A card that locks its button on the word of a watch has a watch that    *)
(* will take it back, though watches of the same channel overlap, delete   *)
(* each other's entry and fail.                                            *)
SpinnerHasWatch ==
    \A s \in Sub : spinner[s] # "none" => \E w \in Watches : watch[w].sub = s

(* The page does not stay locked: whatever is refused or lost, in whatever *)
(* order answers come, an operation ends, and so does the word of a watch  *)
(* that a channel is being synced, also for a run that never ends.         *)
PageUnlocks ==
    /\ busy # "none" ~> busy = "none"
    /\ \A s \in Sub : spinner[s] = "active" ~> spinner[s] # "active"
=============================================================================
