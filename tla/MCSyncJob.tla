----------------------------- MODULE MCSyncJob ------------------------------
(* Instances of SyncJob for TLC.  Workers are interchangeable; the symmetry *)
(* is used for safety only.  Runs are numbers: their order counts.          *)
EXTENDS SyncJob, TLC

Interchange == Permutations(Worker)

(* Bounds on the states that are followed.  Passes of the hour do not      *)
(* overlap, as without a duplicate of their message they do not; the pass  *)
(* syncs beside one run, and so has a subscription its user has paused or  *)
(* left one run: two runs are enough for two workers.                      *)
InPass == {w \in Worker : job[w].pc # "idle" /\ job[w].run = NoRun}
OnePass == Cardinality(InPass) <= 1 /\ (InPass # {} => newest < 2)
OneRunOfTheLeft == \A s \in Sub : (sub[s].exists /\ ~ sub[s].paused) \/ newest < 2
=============================================================================
