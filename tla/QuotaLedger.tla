---------------------------- MODULE QuotaLedger -----------------------------
(***************************************************************************)
(* What a store promises of the YouTube quota: per day and bucket a count  *)
(* of units used and units reserved, a reservation that is granted only    *)
(* within the limit of who asks, and units that move from reserved to used *)
(* once. MemoryStore keeps the counts as one map entry and does each of    *)
(* the two operations in one step; YouTubeGateway, with the statements     *)
(* PrismaStore sends, is shown to implement this module.                   *)
(* Every method costs one unit, so an operation moves one unit.            *)
(***************************************************************************)
EXTENDS Naturals

CONSTANTS
    Dates,     \* days of the quota's time zone
    Budget,    \* daily budget of a bucket
    Protected  \* the part of it that only scheduled runs may use

VARIABLE usage

Buckets == {"GENERAL", "SEARCH"}
Modes == {"MANUAL", "SCHEDULED"}
Unused == [used |-> 0, reserved |-> 0]

(* The part of a budget that a mode may fill up to.                        *)
Limit(b, mode) == IF mode = "MANUAL" THEN Budget[b] - Protected[b] ELSE Budget[b]

Grants(u, b, mode) == u.used + u.reserved + 1 <= Limit(b, mode)

LedgerInit == usage = [d \in Dates |-> [b \in Buckets |-> Unused]]

Reserve(d, b, mode) ==
    /\ Grants(usage[d][b], b, mode)
    /\ usage' = [usage EXCEPT ![d][b] = [used |-> @.used, reserved |-> @.reserved + 1]]

Consume(d, b) ==
    /\ usage[d][b].reserved >= 1
    /\ usage' = [usage EXCEPT ![d][b] = [used |-> @.used + 1, reserved |-> @.reserved - 1]]

LedgerNext ==
    \E d \in Dates, b \in Buckets :
        \/ \E mode \in Modes : Reserve(d, b, mode)
        \/ Consume(d, b)

LedgerSpec == LedgerInit /\ [][LedgerNext]_usage
=============================================================================
