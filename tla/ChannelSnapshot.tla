-------------------------- MODULE ChannelSnapshot ---------------------------
(***************************************************************************)
(* What the store promises about the fetched data of a channel, for anyone *)
(* who reads it: a fetch is announced, and then it ends once, as a new     *)
(* version or as an error.  There are no leases, workers or clocks here    *)
(* and no calendars: startChannelFetch, commitChannelSnapshot and          *)
(* finishChannelFetch of memory-store.ts, where each is one step, without  *)
(* the lease they ask for.  ChannelSync implements this under its leases.  *)
(***************************************************************************)
EXTENDS Naturals

CONSTANTS
    Final, \* the last state of the broadcast
    Time   \* times of fetches; 0 is null

VARIABLES
    row,     \* the broadcast: state, end, sourceUpdatedAt
    channel  \* lastFetchSucceededAt, snapshotVersion, lastFetchStatus

vars == <<row, channel>>

None == Final + 1

Init ==
    /\ row = [state |-> None, ended |-> 0, updated |-> 0]
    /\ channel = [succeeded |-> 0, version |-> 0, status |-> "none"]

StartFetch ==
    /\ channel' = [channel EXCEPT !.status = "RUNNING"]
    /\ UNCHANGED row

(* upsertBroadcasts: sourceUpdatedAt is the time of the last change.       *)
Upserted(state, ended, at) ==
    [state |-> state, ended |-> ended,
     updated |-> IF row.state = state THEN row.updated ELSE at]

CommitSnapshot(state, ended, at) ==
    /\ channel.status = "RUNNING"
    /\ at > channel.succeeded
    /\ channel' = [succeeded |-> at, version |-> channel.version + 1, status |-> "SUCCESS"]
    /\ row' = Upserted(state, ended, at)

FinishFetch(status) ==
    /\ channel.status = "RUNNING"
    /\ channel' = [channel EXCEPT !.status = status]
    /\ UNCHANGED row

Next ==
    \/ StartFetch
    \/ \E state \in 0 .. Final, ended, at \in Time : CommitSnapshot(state, ended, at)
    \/ \E status \in {"DEFERRED", "FAILED"} : FinishFetch(status)

Spec == Init /\ [][Next]_vars
=============================================================================
