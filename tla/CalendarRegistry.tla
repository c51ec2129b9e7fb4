-------------------------- MODULE CalendarRegistry --------------------------
(***************************************************************************)
(* What the store promises about one user's channels, broadcasts, mappings *)
(* and cleanup tasks: each of its operations is one step.  The in-memory   *)
(* store (memory-store.ts) has them so; CalendarCleanup shows that         *)
(* PrismaStore, which needs several statements, a lock and transactions    *)
(* for some of them, gives its callers nothing else.  Tasks have no ids    *)
(* here: an event has one or none.                                         *)
(***************************************************************************)
EXTENDS Naturals, FiniteSets

CONSTANTS Channels, Events, Of, Limit

VARIABLES
    subs,    \* channels with a subscription
    known,   \* channels with a row
    rows,    \* broadcasts with a row
    mapping, \* broadcasts with a mapping
    tasked   \* events with a cleanup task

Init == subs = {} /\ known = {} /\ rows = {} /\ mapping = {} /\ tasked = {}

UpsertChannel(c) ==
    known' = known \cup {c} /\ UNCHANGED <<subs, rows, mapping, tasked>>

UpsertBroadcasts(found) ==
    rows' = rows \cup found /\ UNCHANGED <<subs, known, mapping, tasked>>

(* createSubscriptionWithinLimit: the count and the insertion are one.     *)
CreateSubscription(c) ==
    /\ c \in known \ subs /\ Cardinality(subs) < Limit
    /\ subs' = subs \cup {c}
    /\ UNCHANGED <<known, rows, mapping, tasked>>

DeleteSubscription(c) ==
    subs' = subs \ {c} /\ UNCHANGED <<known, rows, mapping, tasked>>

(* saveMapping refuses while the event has to go.                          *)
SaveMapping(e) ==
    /\ e \in rows \ tasked
    /\ mapping' = mapping \cup {e}
    /\ UNCHANGED <<subs, known, rows, tasked>>

(* queueCalendarCleanup, for an event whose mapping was seen.              *)
QueueCleanup(e) ==
    tasked' = tasked \cup {e} /\ UNCHANGED <<subs, known, rows, mapping>>

(* deleteCalendarCleanupTask: the mapping goes with the task.              *)
DeleteTask(e) ==
    /\ e \in tasked
    /\ tasked' = tasked \ {e}
    /\ mapping' = mapping \ {e}
    /\ UNCHANGED <<subs, known, rows>>

(* maintainYouTubeData: no mapping goes without leaving a task.            *)
Unwanted(e, gone) == e \in gone \/ Of[e] \notin subs

MaintainYouTubeData(expired, old) ==
    LET gone == old \cup {e \in rows : Of[e] \in expired}
        unmapped == {e \in mapping : Unwanted(e, gone)}
    IN  /\ mapping' = mapping \ unmapped
        /\ tasked' = tasked \cup unmapped
        /\ rows' = rows \ gone
        /\ subs' = subs \ expired
        /\ known' = known \ expired

Next ==
    \/ \E c \in Channels : UpsertChannel(c) \/ CreateSubscription(c) \/ DeleteSubscription(c)
    \/ \E e \in Events : SaveMapping(e) \/ QueueCleanup(e) \/ DeleteTask(e)
    \/ \E found \in SUBSET Events : UpsertBroadcasts(found)
    \/ \E expired \in SUBSET known, old \in SUBSET rows : MaintainYouTubeData(expired, old)

Spec == Init /\ [][Next]_<<subs, known, rows, mapping, tasked>>
=============================================================================
