-------------------------- MODULE CalendarCleanup ---------------------------
(***************************************************************************)
(* Who answers for the events in a user's calendar. Registration and       *)
(* removal of channels (oshi-service.ts), the calendar part of a sync, the *)
(* removal of YouTube data after 22 days and the hourly work on cleanup    *)
(* tasks run side by side on subscriptions, broadcasts, mappings and       *)
(* tasks. A mapping says that the event of a broadcast is in the calendar, *)
(* a task that it has to go; whoever takes the one away must leave the     *)
(* other, or no event.                                                     *)
(* One user with a calendar; an event and its broadcast share a name, as   *)
(* deterministicEventId makes the one from the other.                      *)
(***************************************************************************)
EXTENDS Naturals, FiniteSets, SequencesExt

CONSTANTS
    Channels,  \* YouTube channels the user may subscribe to
    Events,    \* their broadcasts, and the calendar events for them
    Of,        \* channel of a broadcast
    Requests,  \* concurrent API requests of the user
    Removers,  \* those among them that also remove channels (bound)
    Limit,     \* MAX_CHANNELS_PER_USER
    Batch      \* tasks that one retryCalendarCleanup takes on

Nobody == "nobody"

ASSUME CleanupAssumption ==
    /\ IsFiniteSet(Channels) /\ IsFiniteSet(Events) /\ IsFiniteSet(Requests)
    /\ Channels # {}
    /\ Nobody \notin Requests /\ Removers \subseteq Requests
    /\ Of \in [Events -> Channels]
    /\ Limit \in Nat /\ Batch \in Nat \ {0}

VARIABLES
    subs,     \* channels with a UserChannelSubscription
    known,    \* channels with a YouTubeChannel row
    rows,     \* broadcasts with a ScheduledBroadcast row
    mapping,  \* broadcasts with a CalendarEventMapping
    tasks,    \* CalendarCleanupTask rows [id, event]
    order,    \* their ids by createdAt
    event,    \* events that are in the calendar
    over,     \* broadcasts whose end is past
    locked,   \* request that holds the lock of the User row, or Nobody
    req,      \* the API requests
    sync,     \* the sync of each channel
    pass,     \* the hourly work on the tasks
    unsaved   \* events that a sync wrote without getting to saveMapping (observation)

data == <<subs, known, rows, mapping, tasks, order, event, over, unsaved>>
vars == <<subs, known, rows, mapping, tasks, order, event, over, locked, req, sync, pass, unsaved>>

IdleRequest == [pc |-> "idle", channel |-> CHOOSE c \in Channels : TRUE, todo |-> {}, task |-> {}]
IdleSync == [pc |-> "idle", todo |-> {}, writing |-> {}]
IdlePass == [pc |-> "idle", todo |-> <<>>]

Tasked == {t.event : t \in tasks}

(* A new id: of no task, and not remembered by anybody either.             *)
Ids == 1 .. (3 * Cardinality(Events) + Cardinality(Requests))
UsedIds == {t.id : t \in tasks \cup Range(pass.todo) \cup UNION {req[r].task : r \in Requests}}

(* createMany with skipDuplicates, upsert: a new row for every event that  *)
(* has none.                                                               *)
QueueTasks(es) ==
    \E id \in [es \ Tasked -> Ids \ UsedIds] :
        /\ \A e, f \in es \ Tasked : id[e] = id[f] => e = f
        /\ \A e \in es \ Tasked, i \in Ids \ UsedIds : i < id[e] => i \in Range(id)
        /\ tasks' = tasks \cup {[id |-> id[e], event |-> e] : e \in es \ Tasked}
        /\ order' = order \o SetToSeq({id[e] : e \in es \ Tasked})

(* A mutant: the mapping goes although the task is there no more.          *)
DropTaskAndMapping(task) ==
    /\ tasks' = tasks \ {task}
    /\ order' = RemoveFirst(order, task.id)
    /\ mapping' = mapping \ {task.event}

(* deleteCalendarCleanupTask: the mapping of its event goes with a task.   *)
DropTask(task) ==
    /\ tasks' = tasks \ {task}
    /\ order' = RemoveFirst(order, task.id)
    /\ mapping' = IF task \in tasks THEN mapping \ {task.event} ELSE mapping

(* DELETE in Google Calendar; an event that is gone is as good.            *)
DeleteEvent(e) ==
    /\ event' = event \ {e}
    /\ unsaved' = unsaved \ {e}

-----------------------------------------------------------------------------
(* Time and the user's searches.                                           *)

Ends(e) ==
    /\ e \notin over /\ over' = over \cup {e}
    /\ UNCHANGED <<subs, known, rows, mapping, tasks, order, event, unsaved, locked, req, sync, pass>>

(* resolve: upsertChannel.                                                 *)
Resolve(c) ==
    /\ known' = known \cup {c}
    /\ UNCHANGED <<subs, rows, mapping, tasks, order, event, over, unsaved, locked, req, sync, pass>>

(* A mutant: mappings whose subscription is gone are left alone.           *)
NeverOrphaned(e) == FALSE

(* The mappings whose subscription is gone.                                *)
Orphaned(e) == Of[e] \notin subs

(* maintainYouTubeData, from the list, the registration, a sync or the     *)
(* pass: one serializable transaction. Any row may have got old by then;   *)
(* a channel without subscribers may also expire by its createdAt.         *)
MaintainYouTubeData ==
    /\ UNCHANGED <<event, over, unsaved, locked, req, sync, pass>>
    /\ \E expired \in SUBSET known, old \in SUBSET rows :
        LET gone == old \cup {e \in rows : Of[e] \in expired}
            unmapped == {e \in mapping : e \in gone \/ Orphaned(e)}
        IN  /\ mapping' = mapping \ unmapped
            /\ rows' = rows \ gone
            /\ subs' = subs \ expired
            /\ known' = known \ expired
            /\ QueueTasks(unmapped)

-----------------------------------------------------------------------------
(* Requests of the user.                                                   *)

At(r, pc) == req[r].pc = pc
Goes(r, k) == req' = [req EXCEPT ![r] = k]

(* register: the channel was searched for; then createSubscriptionWithin-  *)
(* Limit locks the row of the user, counts ...                             *)
Register(r, c) ==
    /\ At(r, "idle") /\ c \in known
    /\ Goes(r, [IdleRequest EXCEPT !.pc = "count", !.channel = c])
    /\ UNCHANGED <<data, locked, sync, pass>>

(* A mutant: the row of the user is not locked.                            *)
CountUnlocked(r) ==
    /\ At(r, "count")
    /\ Goes(r, IF Cardinality(subs) < Limit THEN [req[r] EXCEPT !.pc = "create"] ELSE IdleRequest)
    /\ UNCHANGED <<data, locked, sync, pass>>

Count(r) ==
    /\ At(r, "count") /\ locked = Nobody
    /\ IF Cardinality(subs) < Limit
       THEN Goes(r, [req[r] EXCEPT !.pc = "create"]) /\ locked' = r
       ELSE Goes(r, IdleRequest) /\ locked' = locked
    /\ UNCHANGED <<data, sync, pass>>

(* ... and inserts, unless the subscription is there already or the        *)
(* channel is gone.                                                        *)
Create(r) ==
    /\ At(r, "create")
    /\ subs' = subs \cup ({req[r].channel} \cap known)
    /\ locked' = IF locked = r THEN Nobody ELSE locked
    /\ Goes(r, IdleRequest)
    /\ UNCHANGED <<known, rows, mapping, tasks, order, event, over, unsaved, sync, pass>>

(* remove: the subscription and the mappings of its channel are read.      *)
RemoveChannel(r, c) ==
    /\ At(r, "idle") /\ r \in Removers /\ c \in subs
    /\ Goes(r, [IdleRequest EXCEPT !.pc = "next", !.channel = c, !.todo = {e \in mapping : Of[e] = c}])
    /\ UNCHANGED <<data, locked, sync, pass>>

(* queueCalendarCleanup for one of them: if it is still mapped it gets a   *)
(* task. It may lose its mapping between the two statements.               *)
Queue(r) ==
    /\ At(r, "next")
    /\ \E e \in req[r].todo :
           \/ /\ QueueTasks({e})
              /\ \E t \in tasks' : t.event = e
                    /\ Goes(r, [req[r] EXCEPT !.pc = "event", !.task = {t}, !.todo = req[r].todo \ {e}])
           \/ /\ e \notin mapping
              /\ Goes(r, [req[r] EXCEPT !.todo = req[r].todo \ {e}])
              /\ UNCHANGED <<tasks, order>>
    /\ UNCHANGED <<subs, known, rows, mapping, event, over, unsaved, locked, sync, pass>>

(* deleteManagedEvent, past or not.                                        *)
RemoveEvent(r) ==
    /\ At(r, "event")
    /\ \E t \in req[r].task : DeleteEvent(t.event)
    /\ Goes(r, [req[r] EXCEPT !.pc = "task"])
    /\ UNCHANGED <<subs, known, rows, mapping, tasks, order, over, locked, sync, pass>>

RemoveTask(r) ==
    /\ At(r, "task")
    /\ \E t \in req[r].task : DropTask(t)
    /\ Goes(r, [req[r] EXCEPT !.pc = "next", !.task = {}])
    /\ UNCHANGED <<subs, known, rows, event, over, unsaved, locked, sync, pass>>

(* All mappings done: deleteSubscription.                                  *)
RemoveSubscription(r) ==
    /\ At(r, "next") /\ req[r].todo = {}
    /\ subs' = subs \ {req[r].channel}
    /\ Goes(r, IdleRequest)
    /\ UNCHANGED <<known, rows, mapping, tasks, order, event, over, unsaved, locked, sync, pass>>

(* A statement or a call fails, or the process ends; a lock goes with its  *)
(* transaction.                                                            *)
RequestFails(r) ==
    /\ ~ At(r, "idle")
    /\ Goes(r, IdleRequest)
    /\ locked' = IF locked = r THEN Nobody ELSE locked
    /\ UNCHANGED <<data, sync, pass>>

-----------------------------------------------------------------------------
(* The calendar part of a sync; its fetch may find new broadcasts. The     *)
(* lease of the subscription lets one sync of it run at a time.            *)

Syncs(c, k) == sync' = [sync EXCEPT ![c] = k]

StartSync(c) ==
    /\ sync[c].pc = "idle" /\ c \in subs /\ \E e \in Events : Of[e] = c
    /\ \E found \in SUBSET {e \in Events : Of[e] = c} :
           rows' = rows \cup found
    /\ Syncs(c, [IdleSync EXCEPT !.pc = "list"])
    /\ UNCHANGED <<subs, known, mapping, tasks, order, event, over, unsaved, locked, req, pass>>

(* listBroadcastsForSync leaves out rows that got old, and those that are  *)
(* over and did not change since the last sync.                            *)
ListBroadcasts(c) ==
    /\ sync[c].pc = "list"
    /\ \E listed \in SUBSET {e \in rows : Of[e] = c} :
           Syncs(c, [sync[c] EXCEPT !.pc = "item", !.todo = listed])
    /\ UNCHANGED <<data, locked, req, pass>>

(* shouldSyncCalendarEvent: an event without a mapping is made for         *)
(* broadcasts that are not over.                                           *)
ShouldSync(e) == e \in mapping \/ e \notin over

(* getMapping for the next broadcast. Nothing to write, or a mapped event  *)
(* that exists and has the same hash: on to the next.                      *)
Skip(c) ==
    /\ sync[c].pc = "item"
    /\ \E e \in sync[c].todo :
          /\ ~ ShouldSync(e) \/ (e \in mapping /\ e \in event)
          /\ Syncs(c, [sync[c] EXCEPT !.todo = sync[c].todo \ {e}])
    /\ UNCHANGED <<data, locked, req, pass>>

Decide(c) ==
    /\ sync[c].pc = "item"
    /\ \E e \in sync[c].todo :
          /\ ShouldSync(e)
          /\ Syncs(c, [pc |-> "upsert", todo |-> sync[c].todo \ {e}, writing |-> {e}])
    /\ UNCHANGED <<data, locked, req, pass>>

Upsert(c) ==
    /\ sync[c].pc = "upsert"
    /\ event' = event \cup sync[c].writing
    /\ Syncs(c, [sync[c] EXCEPT !.pc = "save"])
    /\ UNCHANGED <<subs, known, rows, mapping, tasks, order, over, unsaved, locked, req, pass>>

(* saveMapping refuses an event that has a task; a mapping needs the row   *)
(* of its broadcast.                                                       *)
Savable(c) == \A e \in sync[c].writing : e \notin Tasked /\ e \in rows

Save(c) ==
    /\ sync[c].pc = "save" /\ Savable(c)
    /\ mapping' = mapping \cup sync[c].writing
    /\ unsaved' = unsaved \ sync[c].writing
    /\ Syncs(c, [sync[c] EXCEPT !.pc = "item", !.writing = {}])
    /\ UNCHANGED <<subs, known, rows, tasks, order, event, over, locked, req, pass>>

EndSync(c) ==
    /\ sync[c].pc = "item" /\ sync[c].todo = {}
    /\ Syncs(c, IdleSync)
    /\ UNCHANGED <<data, locked, req, pass>>

(* The sync ends early: a call fails, with or without its effect, its      *)
(* lease is lost, saveMapping refuses or the process dies.                 *)
SyncFails(c) ==
    /\ sync[c].pc # "idle"
    /\ \/ sync[c].pc = "upsert" /\ event' = event \cup sync[c].writing
          /\ unsaved' = unsaved \cup sync[c].writing
       \/ sync[c].pc = "save" /\ event' = event
          /\ unsaved' = unsaved \cup (sync[c].writing \cap event)
       \/ sync[c].pc # "save" /\ UNCHANGED <<event, unsaved>>
    /\ Syncs(c, IdleSync)
    /\ UNCHANGED <<subs, known, rows, mapping, tasks, order, over, locked, req, pass>>

-----------------------------------------------------------------------------
(* retryCalendarCleanup.                                                   *)

First(n) == {i \in DOMAIN order : i <= n}
TaskWith(id) == CHOOSE t \in tasks : t.id = id

(* listPendingCalendarCleanup: the oldest Batch tasks.                     *)
ListTasks ==
    /\ pass.pc = "idle" /\ tasks # {}
    /\ pass' = [pc |-> "event", todo |-> [i \in First(Batch) |-> TaskWith(order[i])]]
    /\ UNCHANGED <<data, locked, req, sync>>

(* deleteManagedEvent with notAfter: an event that is not over stays.      *)
CleanEvent ==
    /\ pass.pc = "event" /\ pass.todo # <<>>
    /\ LET e == Head(pass.todo).event IN (e \in event => e \in over) /\ DeleteEvent(e)
    /\ pass' = [pass EXCEPT !.pc = "task"]
    /\ UNCHANGED <<subs, known, rows, mapping, tasks, order, over, locked, req, sync>>

CleanTask ==
    /\ pass.pc = "task"
    /\ DropTask(Head(pass.todo))
    /\ pass' = [pc |-> "event", todo |-> Tail(pass.todo)]
    /\ UNCHANGED <<subs, known, rows, event, over, unsaved, locked, req, sync>>

(* The catch block: a refusal or a failure is logged, and the next task    *)
(* comes.                                                                  *)
CleanFails ==
    /\ pass.todo # <<>>
    /\ pass' = [pc |-> "event", todo |-> Tail(pass.todo)]
    /\ UNCHANGED <<data, locked, req, sync>>

(* All done, or the process ends.                                          *)
PassEnds ==
    /\ pass.pc # "idle"
    /\ pass' = IdlePass
    /\ UNCHANGED <<data, locked, req, sync>>

-----------------------------------------------------------------------------
Init ==
    /\ subs = {} /\ known = {} /\ rows = {} /\ mapping = {} /\ tasks = {} /\ order = <<>>
    /\ event = {} /\ over = {} /\ unsaved = {}
    /\ locked = Nobody
    /\ req = [r \in Requests |-> IdleRequest]
    /\ sync = [c \in Channels |-> IdleSync]
    /\ pass = IdlePass

RequestStep(r) ==
    \/ Count(r) \/ Create(r)
    \/ Queue(r) \/ RemoveEvent(r) \/ RemoveTask(r) \/ RemoveSubscription(r)

SyncStep(c) ==
    ListBroadcasts(c) \/ Skip(c) \/ Decide(c) \/ Upsert(c) \/ Save(c) \/ EndSync(c) \/ SyncFails(c)

PassStep == ListTasks \/ CleanEvent \/ CleanTask \/ CleanFails \/ PassEnds

Next ==
    \/ MaintainYouTubeData \/ PassStep
    \/ \E e \in Events : Ends(e)
    \/ \E c \in Channels : Resolve(c) \/ StartSync(c) \/ SyncStep(c)
    \/ \E r \in Requests :
          RequestStep(r) \/ RequestFails(r) \/ \E c \in Channels : Register(r, c) \/ RemoveChannel(r, c)

Spec == Init /\ [][Next]_vars

(* The pass comes every hour and gets through its list, time goes on, and  *)
(* Google does not refuse the deletion of a past event for ever.           *)
FairSpec ==
    /\ Spec
    /\ WF_vars(MaintainYouTubeData) /\ WF_vars(PassStep)
    /\ \A e \in Events :
          /\ WF_vars(Ends(e)) /\ WF_vars(SyncStep(Of[e]))
          /\ SF_vars(CleanEvent /\ Head(pass.todo).event = e)
          /\ SF_vars(CleanTask /\ Head(pass.todo).event = e)

-----------------------------------------------------------------------------
Task == [id : Ids, event : Events]
TypeOK ==
    /\ subs \subseteq Channels /\ mapping \subseteq Events /\ event \subseteq Events
    /\ over \subseteq Events /\ unsaved \subseteq Events
    /\ known \subseteq Channels /\ rows \subseteq Events
    /\ tasks \subseteq Task /\ order \in Seq(Ids)
    /\ Cardinality(tasks) = Cardinality(Tasked) /\ Cardinality(tasks) = Len(order)
    /\ locked \in Requests \cup {Nobody}
    /\ req \in [Requests -> [pc : {"idle", "count", "create", "next", "event", "task"},
                             channel : Channels, todo : SUBSET Events, task : SUBSET Task]]
    /\ sync \in [Channels -> [pc : {"idle", "list", "item", "upsert", "save"},
                              todo : SUBSET Events, writing : SUBSET Events]]
    /\ pass \in [pc : {"idle", "event", "task"}, todo : Seq(Task)]

(* However removals, syncs, expiring data and cleanup overlap, an event    *)
(* that is in the calendar has a mapping or a task, or a sync that is      *)
(* about to save the mapping, unless a sync ended between upsertEvent and  *)
(* saveMapping.                                                            *)
EventOwned ==
    \A e \in event :
        e \in mapping \/ e \in Tasked \/ e \in unsaved \/ \E c \in Channels : e \in sync[c].writing

(* Concurrent registrations keep to the limit of channels per user.        *)
WithinLimit == Cardinality(subs) <= Limit

(* An event whose subscription is gone and that is known by a mapping or a *)
(* task goes in the end, though it has to be over first and its deletion   *)
(* may fail many times.                                                    *)
OrphansGo ==
    \A e \in Events :
        e \in event /\ Of[e] \notin subs /\ (e \in mapping \/ e \in Tasked)
            ~> e \notin event \/ Of[e] \in subs \/ e \in unsaved

(* Registration counts and inserts in two statements, a task is queued and *)
(* dropped by its id, a mapping is saved in a transaction: for everybody   *)
(* else each operation of the store is a single step all the same.         *)
Registry == INSTANCE CalendarRegistry WITH tasked <- Tasked
ImplementsRegistry == Registry!Spec
=============================================================================
