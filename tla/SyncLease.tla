----------------------------- MODULE SyncLease ------------------------------
(***************************************************************************)
(* One key of the table "SyncLease" of the store, the lease under which    *)
(* the API and the workers run a subscription sync, fetch a channel or     *)
(* delete an account (apps/api/src/infrastructure/database).               *)
(*                                                                         *)
(* acquireSyncLease is three SQL statements without a transaction, so the  *)
(* steps of other attempts fall between them.  The database clock is       *)
(* modelled by what is left of the row's time to live: DatabaseTick lets   *)
(* it pass, a row with nothing left has expiresAt <= CURRENT_TIMESTAMP.    *)
(*                                                                         *)
(* ChannelSync_proofs proves its properties together with those of         *)
(* ChannelSync, whose syncs hold such a lease; names here are therefore    *)
(* none of the names there.                                                *)
(***************************************************************************)
EXTENDS Naturals

CONSTANTS Token,    \* acquisition attempts; each brings a fresh randomUUID()
          NoToken,  \* owner of the row that does not exist
          TTL       \* ttlMs, in ticks of the database clock

ASSUME TokenAssumption == NoToken \notin Token
ASSUME TTLAssumption == TTL \in Nat \ {0}

VARIABLES lease,    \* the row: its ownerToken, its version, the time it has left
          pc,       \* where each attempt is
          version,  \* the version acquireSyncLease returned to the attempt
          granted,  \* history: serial number of the attempt's grant, 0 if none
          grants,   \* history: how many grants were made
          written   \* history: serial number of the grant that wrote last

leaseVars == <<lease, pc, version, granted, grants, written>>

NoRow == [owner |-> NoToken, version |-> 0, left |-> 0]

AttemptPlace == {"idle", "insert", "read", "held", "lost", "refused", "done", "crashed"}

LeaseTypeOK ==
    /\ lease \in [owner : Token \cup {NoToken}, version : Nat, left : 0 .. TTL]
    /\ pc \in [Token -> AttemptPlace]
    /\ version \in [Token -> Nat]
    /\ granted \in [Token -> Nat]
    /\ grants \in Nat
    /\ written \in Nat

LeaseInit ==
    /\ lease = NoRow
    /\ pc = [t \in Token |-> "idle"]
    /\ version = [t \in Token |-> 0]
    /\ granted = [t \in Token |-> 0]
    /\ grants = 0
    /\ written = 0

-----------------------------------------------------------------------------

MoveTo(t, place) == pc' = [pc EXCEPT ![t] = place]

(* The row becomes t's with a full time to live.                           *)
TakeRow(t, v) ==
    /\ lease' = [owner |-> t, version |-> v, left |-> TTL]
    /\ grants' = grants + 1
    /\ granted' = [granted EXCEPT ![t] = grants + 1]

(* WHERE "key" = $key AND "expiresAt" <= CURRENT_TIMESTAMP                 *)
Expired == lease.owner # NoToken /\ lease.left = 0

(* First statement: UPDATE the expired row.                                *)
UpdateExpired(t) ==
    /\ pc[t] = "idle"
    /\ \/ /\ Expired
          /\ TakeRow(t, lease.version + 1)
          /\ MoveTo(t, "read")
       \/ /\ ~ Expired
          /\ MoveTo(t, "insert")
          /\ UNCHANGED <<lease, granted, grants>>
    /\ UNCHANGED <<version, written>>

(* Second statement, when nothing was updated: INSERT .. ON CONFLICT DO    *)
(* NOTHING.  A new row starts again at version 1.                          *)
InsertFresh(t) ==
    /\ pc[t] = "insert"
    /\ \/ /\ lease = NoRow
          /\ TakeRow(t, 1)
          /\ MoveTo(t, "read")
       \/ /\ lease # NoRow
          /\ MoveTo(t, "refused")
          /\ UNCHANGED <<lease, granted, grants>>
    /\ UNCHANGED <<version, written>>

(* Third statement: read the version back by key and owner.  The row may   *)
(* already be another attempt's.                                           *)
ReadBack(t) ==
    /\ pc[t] = "read"
    /\ \/ /\ lease.owner = t
          /\ version' = [version EXCEPT ![t] = lease.version]
          /\ MoveTo(t, "held")
       \/ /\ lease.owner # t
          /\ MoveTo(t, "refused")
          /\ UNCHANGED version
    /\ UNCHANGED <<lease, granted, grants, written>>

-----------------------------------------------------------------------------

(* A mutant: the version alone identifies the owner.                       *)
OwnsByVersion(t) == lease.owner # NoToken /\ lease.version = version[t]

(* "ownerToken" = $owner AND "version" = $version                          *)
Owns(t) == lease.owner = t /\ lease.version = version[t]

(* A mutant: the expiry is not looked at.                                  *)
ValidExpiredToo(t) == Owns(t)

(* Owns and "expiresAt" > CURRENT_TIMESTAMP: what renewals and the         *)
(* transactions that write under the lease check.                          *)
Valid(t) == Owns(t) /\ lease.left > 0

(* A mutant: the renewal writes the row without a condition.               *)
RenewByUpsert(t) ==
    /\ pc[t] = "held"
    /\ lease' = [owner |-> t, version |-> version[t], left |-> TTL]
    /\ UNCHANGED <<pc, version, granted, grants, written>>

(* Renewal; a refused one makes the caller throw SYNC_LEASE_LOST.          *)
Renew(t) ==
    /\ pc[t] = "held"
    /\ \/ /\ Valid(t)
          /\ lease' = [lease EXCEPT !.left = TTL]
          /\ UNCHANGED pc
       \/ /\ ~ Valid(t)
          /\ MoveTo(t, "lost")
          /\ UNCHANGED lease
    /\ UNCHANGED <<version, granted, grants, written>>

(* A transaction that locks the row with SELECT .. FOR UPDATE and writes   *)
(* in the same transaction: startChannelFetch, commitChannelSnapshot,      *)
(* finishChannelFetch, markAccountDeletionStep, deleteUserData.            *)
FencedWrite(t) ==
    /\ pc[t] = "held"
    /\ \/ /\ Valid(t)
          /\ written' = granted[t]
          /\ UNCHANGED pc
       \/ /\ ~ Valid(t)
          /\ MoveTo(t, "lost")
          /\ UNCHANGED written
    /\ UNCHANGED <<lease, version, granted, grants>>

(* A mutant: the row is deleted by its key alone.                          *)
ReleaseAny(t) ==
    /\ pc[t] \in {"held", "lost"}
    /\ lease' = NoRow
    /\ MoveTo(t, "done")
    /\ UNCHANGED <<version, granted, grants, written>>

(* The finally block: DELETE the row if it is still the caller's, expired  *)
(* or not.                                                                 *)
Release(t) ==
    /\ pc[t] \in {"held", "lost"}
    /\ lease' = IF Owns(t) THEN NoRow ELSE lease
    /\ MoveTo(t, "done")
    /\ UNCHANGED <<version, granted, grants, written>>

(* The process of t dies between two statements; the row stays.            *)
CrashAttempt(t) ==
    /\ pc[t] \in {"insert", "read", "held", "lost"}
    /\ MoveTo(t, "crashed")
    /\ UNCHANGED <<lease, version, granted, grants, written>>

(* Database time passes.                                                   *)
DatabaseTick ==
    /\ lease.left > 0
    /\ lease' = [lease EXCEPT !.left = @ - 1]
    /\ UNCHANGED <<pc, version, granted, grants, written>>

LeaseNext ==
    \/ DatabaseTick
    \/ \E t \in Token :
          \/ UpdateExpired(t) \/ InsertFresh(t) \/ ReadBack(t)
          \/ Renew(t) \/ FencedWrite(t) \/ Release(t) \/ CrashAttempt(t)

LeaseSpec == LeaseInit /\ [][LeaseNext]_leaseVars

-----------------------------------------------------------------------------

(* Writes made under the lease follow the order of the grants: once an     *)
(* attempt wrote, no attempt that was granted the key earlier writes any   *)
(* more, however often the row was released, deleted and inserted again.   *)
(* This is what commitChannelSnapshot and markAccountDeletionStep rely on. *)
FencedInOrder == [][written' >= written]_leaseVars

(* A row with time left changes hands only because its owner released it:  *)
(* neither a competing acquisition nor the finally block of an attempt     *)
(* that lost the key takes a live lease from the one that has it.          *)
LiveLeaseNotStolen ==
    [][\A t \in Token :
          lease.owner = t /\ lease.left > 0 /\ lease'.owner # t
             => pc[t] # "done" /\ pc'[t] = "done"]_leaseVars

(* An attempt that still owns the row is the one granted last, and it      *)
(* holds the version the row has: nothing about an earlier tenancy of the  *)
(* key is left in the row.                                                 *)
OwnerIsLatest ==
    lease # NoRow =>
        /\ granted[lease.owner] = grants
        /\ pc[lease.owner] \in {"read", "held", "lost", "crashed"}
        /\ pc[lease.owner] = "held" => lease.version = version[lease.owner]

(* The lease table implements the abstract fenced resource: the holder is  *)
(* the owner of a row with time left.                                      *)
Holder == IF lease.left > 0 THEN lease.owner ELSE NoToken

Abstract == INSTANCE FencedResource WITH holder <- Holder

ImplementsFencedResource == Abstract!Spec
=============================================================================
