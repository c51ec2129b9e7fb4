--------------------------- MODULE FencedResource ---------------------------
(***************************************************************************)
(* What the lease table promises to the code that writes under a lease:    *)
(* the resource is granted to one attempt at a time, a grant may lapse at  *)
(* any moment, and only the attempt that holds the current grant writes.   *)
(* There is no row, no clock, no version and no database statement here;   *)
(* SyncLease shows that the SQL of the store implements this.              *)
(***************************************************************************)
EXTENDS Naturals

CONSTANTS Token,   \* acquisition attempts; each brings a fresh randomUUID()
          NoToken  \* "nobody"

VARIABLES holder,   \* the attempt with the current grant, or NoToken
          granted,  \* granted[t]: the serial number of t's grant, 0 if none
          grants,   \* how many grants were made
          written   \* the serial number of the grant of the last write

vars == <<holder, granted, grants, written>>

Init ==
    /\ holder = NoToken
    /\ granted = [t \in Token |-> 0]
    /\ grants = 0
    /\ written = 0

(* A grant goes to an attempt that never had one, and only when free.      *)
Grant(t) ==
    /\ holder = NoToken
    /\ granted[t] = 0
    /\ holder' = t
    /\ grants' = grants + 1
    /\ granted' = [granted EXCEPT ![t] = grants + 1]
    /\ UNCHANGED written

(* A grant ends: released, or expired because its holder is late or dead.  *)
Lapse ==
    /\ holder # NoToken
    /\ holder' = NoToken
    /\ UNCHANGED <<granted, grants, written>>

(* Only the holder writes.                                                 *)
Write(t) ==
    /\ holder = t
    /\ written' = granted[t]
    /\ UNCHANGED <<holder, granted, grants>>

Next ==
    \/ Lapse
    \/ \E t \in Token : Grant(t) \/ Write(t)

Spec == Init /\ [][Next]_vars
=============================================================================
