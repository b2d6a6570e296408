------------------------------- MODULE Ledger -------------------------------
(***************************************************************************)
(* What the scoring pipeline promises each prediction, whatever the         *)
(* processes, tables and faults behind it: it is scored at most once,       *)
(* counted in at most one snapshot and paid for by at most one checkpoint,  *)
(* in this order, and none of it is taken back.  ScoreCycle implements it.  *)
(***************************************************************************)
EXTENDS Naturals

CONSTANT Preds

VARIABLES
  scoredSet,   \* predictions with a final score
  counts,      \* [Preds -> number of snapshots that count the prediction]
  payments     \* [Preds -> number of checkpoints that reward it]

ledgerVars == <<scoredSet, counts, payments>>

LedgerInit ==
  /\ scoredSet = {}
  /\ counts = [p \in Preds |-> 0]
  /\ payments = [p \in Preds |-> 0]

Score(p) ==
  /\ p \notin scoredSet
  /\ scoredSet' = scoredSet \cup {p}
  /\ UNCHANGED <<counts, payments>>

(* One snapshot counts the predictions in S, all for the first time. *)
Count(S) ==
  /\ S \subseteq scoredSet
  /\ \A p \in S : counts[p] = 0
  /\ counts' = [p \in Preds |-> IF p \in S THEN 1 ELSE counts[p]]
  /\ UNCHANGED <<scoredSet, payments>>

(* One checkpoint rewards what several snapshots counted. *)
Pay(S) ==
  /\ \A p \in S : counts[p] = 1 /\ payments[p] = 0
  /\ payments' = [p \in Preds |-> IF p \in S THEN 1 ELSE payments[p]]
  /\ UNCHANGED <<scoredSet, counts>>

LedgerNext ==
  \/ \E p \in Preds : Score(p)
  \/ \E S \in SUBSET Preds : Count(S) \/ Pay(S)

LedgerSpec == LedgerInit /\ [][LedgerNext]_ledgerVars
=============================================================================
