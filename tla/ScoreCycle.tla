----------------------------- MODULE ScoreCycle -----------------------------
(***************************************************************************)
(* The score-worker: one process that repeats ScoreService.score_and_       *)
(* snapshot over the database it shares with the other workers.             *)
(*                                                                         *)
(*   find PENDING -> save score -> save SCORED -> save snapshots            *)
(*     -> commit the Merkle cycle -> rebuild the leaderboard -> checkpoint  *)
(*                                                                         *)
(* Every repository `save` commits on its own, so each one is a durable    *)
(* step and the process can stop between any two of them.  The model has   *)
(* one action per durable step, a Crash that keeps the database and        *)
(* forgets the process, and the exceptions the code handles: the ones      *)
(* run() catches (Abort, ScoringRaises) and the ones caught closer         *)
(* (Merkle and checkpoint failures).                                        *)
(*                                                                         *)
(* Time is logical: `clock` is later than every timestamp stored, because  *)
(* two reads of datetime.now with a commit between them differ.            *)
(***************************************************************************)
EXTENDS Integers, FiniteSets

CONSTANTS
  Preds,        \* predictions, numbered in the order of performed_at
  Models,       \* the models that made them
  ModelOf,      \* [Preds -> Models]
  Raises,       \* predictions on which the scoring function or the score
                \* type's validation raises
  Interval,     \* checkpoint interval, in ticks of the clock
  MaxClock,     \* bound: the clock does not tick past it while nothing runs
  MaxFaults     \* bound: crashes and failed database calls in a behaviour

ASSUME ScoreCycleAssumption ==
  /\ Preds \subseteq Nat
  /\ ModelOf \in [Preds -> Models]
  /\ Raises \subseteq Preds
  /\ Interval \in Nat \ {0}
  /\ MaxClock \in Nat
  /\ MaxFaults \in Nat

VARIABLES
  clock,        \* the time datetime.now would read
  \* the database
  status,       \* [Preds -> status of the prediction's row, "none" before it]
  truth,        \* predictions whose ground truth can be resolved
  scores,       \* predictions that have a score row
  snapshots,    \* snapshot rows
  cycles,       \* Merkle cycle rows
  leaves,       \* snapshots that have a leaf row in the Merkle nodes
  board,        \* the snapshots the stored leaderboard was built from
  checkpoints,  \* checkpoint rows
  \* the score-worker's memory
  pc,           \* what the process does next
  now,          \* the cycle's timestamp
  todo,         \* predictions found and not yet looked at
  scored,       \* predictions scored in this cycle
  unsaved,      \* models whose snapshot of this cycle is not saved
  written,      \* snapshots saved in this cycle
  lastCheckpoint,   \* _last_checkpoint_at, Unset in a new process
  current,      \* period_end of the checkpoint this cycle created
  session,      \* whether the database session needs a rollback
  \* history, read by the properties only
  dropped,      \* predictions whose scores an interrupted cycle left behind
  faults        \* crashes and failed calls so far

db      == <<status, truth, scores, snapshots, cycles, leaves, board, checkpoints>>
work    == <<now, todo, scored, unsaved, written, current>>
history == <<dropped, faults>>
vars    == <<clock, db, pc, work, lastCheckpoint, session, history>>

Unset   == -1
NoCycle == 0

Snapshot   == [model : Models, at : Nat, preds : SUBSET Preds]
Cycle      == [at : Nat, prev : Nat, snaps : SUBSET Snapshot]
Checkpoint == [start : Int, end : Nat, snaps : SUBSET Snapshot, root : SUBSET Nat]

PCs == {"idle", "score", "status", "snapshot", "cycle", "nodes", "board",
        "due", "checkpoint", "root"}

TypeOK ==
  /\ clock \in Nat
  /\ status \in [Preds -> {"none", "PENDING", "SCORED"}]
  /\ truth \subseteq Preds
  /\ scores \subseteq Preds
  /\ snapshots \subseteq Snapshot
  /\ cycles \subseteq Cycle
  /\ leaves \subseteq Snapshot
  /\ board \subseteq Snapshot
  /\ checkpoints \subseteq Checkpoint
  /\ pc \in PCs
  /\ now \in Nat
  /\ todo \subseteq Preds
  /\ scored \subseteq Preds
  /\ unsaved \subseteq Models
  /\ written \subseteq Snapshot
  /\ lastCheckpoint \in Nat \cup {Unset}
  /\ current \in Nat
  /\ session \in {"ok", "pending_rollback"}
  /\ dropped \subseteq Preds
  /\ faults \in 0..MaxFaults

Init ==
  /\ clock = 1
  /\ status = [p \in Preds |-> "none"]
  /\ truth = {} /\ scores = {} /\ snapshots = {} /\ cycles = {}
  /\ leaves = {} /\ board = {} /\ checkpoints = {}
  /\ pc = "idle" /\ now = 0 /\ todo = {} /\ scored = {} /\ unsaved = {}
  /\ written = {} /\ lastCheckpoint = Unset /\ current = 0 /\ session = "ok"
  /\ dropped = {} /\ faults = 0

-----------------------------------------------------------------------------
(* The rows get_latest() returns, and the rows a period query returns *)

Pending   == {p \in Preds : status[p] = "PENDING"}
Counted   == UNION {s.preds : s \in snapshots}
IsFirst(p, S)      == p \in S /\ \A q \in S : p <= q
IsLatestCycle(c)   == c \in cycles /\ \A d \in cycles : d.at <= c.at
IsLatestCheckpoint(k) == k \in checkpoints /\ \A j \in checkpoints : j.end <= k.end
After(t)           == IF clock > t THEN clock ELSE t + 1
SnapshotsIn(from, to) == {s \in snapshots : from <= s.at /\ s.at <= to}
CyclesIn(from, to)    == {c \in cycles : from <= c.at /\ c.at <= to}

(* The process drops what the cycle held in memory: what it had scored and *)
(* not yet put in a snapshot stays SCORED in the database.                 *)
Abandon ==
  /\ pc' = "idle" /\ now' = 0 /\ todo' = {} /\ scored' = {} /\ unsaved' = {}
  /\ written' = {} /\ current' = 0
  /\ dropped' = dropped \cup (scored \ Counted)

(* The cycle ends normally. *)
Finish ==
  /\ pc' = "idle" /\ now' = 0 /\ todo' = {} /\ scored' = {} /\ unsaved' = {}
  /\ written' = {} /\ current' = 0

-----------------------------------------------------------------------------
(* The other processes *)

(* The predict-worker's prediction becomes due: its row is PENDING and its *)
(* resolvable_at has passed, so the score-worker's query can return it.    *)
PredictionDue(p) ==
  /\ status[p] = "none"
  /\ status' = [status EXCEPT ![p] = "PENDING"]
  /\ UNCHANGED <<clock, truth, scores, snapshots, cycles, leaves, board,
                 checkpoints, pc, work, lastCheckpoint, session, history>>

(* The feed records (or the input row) the ground truth is resolved from   *)
(* are stored.                                                             *)
TruthArrives(p) ==
  /\ status[p] # "none"
  /\ p \notin truth
  /\ truth' = truth \cup {p}
  /\ UNCHANGED <<clock, status, scores, snapshots, cycles, leaves, board,
                 checkpoints, pc, work, lastCheckpoint, session, history>>

Tick ==
  /\ clock < MaxClock
  /\ clock' = clock + 1
  /\ UNCHANGED <<db, pc, work, lastCheckpoint, session, history>>

-----------------------------------------------------------------------------
(* _score_predictions *)

(* Variant with an error: the query's status filter is dropped. *)
StartCycleAnyStatus ==
  /\ pc = "idle"
  /\ session = "ok"
  /\ Pending # {}
  /\ now' = clock
  /\ todo' = {p \in Preds : status[p] # "none"}
  /\ pc' = "score"
  /\ UNCHANGED <<clock, db, scored, unsaved, written, current,
                 lastCheckpoint, session, history>>

(* Variant with an error: the query returns the oldest prediction only. *)
StartCycleOldestOnly ==
  /\ pc = "idle"
  /\ session = "ok"
  /\ Pending # {}
  /\ now' = clock
  /\ todo' = {p \in Pending : IsFirst(p, Pending)}
  /\ pc' = "score"
  /\ UNCHANGED <<clock, db, scored, unsaved, written, current,
                 lastCheckpoint, session, history>>

(* find(status=PENDING, resolvable_before=now).  With nothing to score the  *)
(* cycle returns at once; a session left in pending rollback makes the      *)
(* query raise, and run() rolls it back.                                    *)
StartCycle ==
  /\ pc = "idle"
  /\ session = "ok"
  /\ Pending # {}
  /\ now' = clock
  /\ todo' = Pending
  /\ pc' = "score"
  /\ UNCHANGED <<clock, db, scored, unsaved, written, current,
                 lastCheckpoint, session, history>>

StartCycleRollsBack ==
  /\ pc = "idle"
  /\ session = "pending_rollback"
  /\ session' = "ok"
  /\ UNCHANGED <<clock, db, pc, work, lastCheckpoint, history>>

(* _resolve_actuals returns None: the prediction stays PENDING. *)
SkipUnresolved(p) ==
  /\ pc = "score"
  /\ IsFirst(p, todo)
  /\ p \notin truth
  /\ todo' = todo \ {p}
  /\ UNCHANGED <<clock, db, pc, now, scored, unsaved, written, current,
                 lastCheckpoint, session, history>>

SaveScore(p) ==
  /\ pc = "score"
  /\ IsFirst(p, todo)
  /\ p \in truth \ Raises
  /\ scores' = scores \cup {p}
  /\ pc' = "status"
  /\ UNCHANGED <<clock, status, truth, snapshots, cycles, leaves, board,
                 checkpoints, work, lastCheckpoint, session, history>>

(* The scoring function or model_validate raises: the exception leaves the  *)
(* loop, score_and_snapshot and reaches run().                              *)
ScoringRaises(p) ==
  /\ pc = "score"
  /\ IsFirst(p, todo)
  /\ p \in truth \cap Raises
  /\ Abandon
  /\ UNCHANGED <<clock, db, lastCheckpoint, session, faults>>

(* Variant with an error: the status is set on the object, not saved. *)
SaveStatusInMemory(p) ==
  /\ pc = "status"
  /\ IsFirst(p, todo)
  /\ todo' = todo \ {p}
  /\ scored' = scored \cup {p}
  /\ pc' = "score"
  /\ UNCHANGED <<clock, db, now, unsaved, written, current,
                 lastCheckpoint, session, history>>

(* Each of the two saves commits: a crash in between leaves the score alone. *)
SaveStatus(p) ==
  /\ pc = "status"
  /\ IsFirst(p, todo)
  /\ status' = [status EXCEPT ![p] = "SCORED"]
  /\ todo' = todo \ {p}
  /\ scored' = scored \cup {p}
  /\ pc' = "score"
  /\ UNCHANGED <<clock, truth, scores, snapshots, cycles, leaves, board,
                 checkpoints, now, unsaved, written, current,
                 lastCheckpoint, session, history>>

(* Variant with an error: grouping by model keeps one model only. *)
FinishScoringOneModel ==
  /\ pc = "score"
  /\ todo = {}
  /\ IF scored = {}
       THEN Finish
       ELSE /\ pc' = "snapshot"
            /\ unsaved' = {ModelOf[p] : p \in {q \in scored : IsFirst(q, scored)}}
            /\ UNCHANGED <<now, todo, scored, written, current>>
  /\ UNCHANGED <<clock, db, lastCheckpoint, session, history>>

(* The loop is over: nothing scored ends the cycle, else one snapshot per   *)
(* model with a score in it is written.                                     *)
FinishScoring ==
  /\ pc = "score"
  /\ todo = {}
  /\ IF scored = {}
       THEN Finish
       ELSE /\ pc' = "snapshot"
            /\ unsaved' = {ModelOf[p] : p \in scored}
            /\ UNCHANGED <<now, todo, scored, written, current>>
  /\ UNCHANGED <<clock, db, lastCheckpoint, session, history>>

-----------------------------------------------------------------------------
(* _write_snapshots *)

(* One snapshot of the cycle's scores per model, all at the cycle's time. *)
SaveSnapshot(m) ==
  /\ pc = "snapshot"
  /\ m \in unsaved
  /\ LET s == [model |-> m, at |-> now,
               preds |-> {p \in scored : ModelOf[p] = m}]
     IN  /\ snapshots' = snapshots \cup {s}
         /\ written' = written \cup {s}
  /\ unsaved' = unsaved \ {m}
  /\ pc' = IF unsaved = {m} THEN "cycle" ELSE "snapshot"
  /\ clock' = After(now)
  /\ UNCHANGED <<status, truth, scores, cycles, leaves, board, checkpoints,
                 now, todo, scored, current, lastCheckpoint, session, history>>

-----------------------------------------------------------------------------
(* MerkleService.commit_cycle: the cycle row first, chained to the latest   *)
(* one, then the tree's nodes one by one.  A failure is logged, the session *)
(* rolled back, and the cycle goes on to the leaderboard.                   *)

(* Variant with an error: get_latest orders ascending. *)
PreviousCycleAscending(prev) ==
  \/ cycles = {} /\ prev = NoCycle
  \/ \E c \in cycles : prev = c.at /\ \A d \in cycles : c.at <= d.at

(* get_latest: the row created last. *)
PreviousCycle(prev) ==
  \/ cycles = {} /\ prev = NoCycle
  \/ \E c \in cycles : IsLatestCycle(c) /\ prev = c.at

CommitCycleRow ==
  /\ pc = "cycle"
  /\ \E prev \in {NoCycle} \cup {c.at : c \in cycles} :
       /\ PreviousCycle(prev)
       /\ cycles' = cycles \cup {[at |-> now, prev |-> prev, snaps |-> written]}
  /\ pc' = "nodes"
  /\ UNCHANGED <<clock, status, truth, scores, snapshots, leaves, board,
                 checkpoints, work, lastCheckpoint, session, history>>

SaveLeaf(s) ==
  /\ pc = "nodes"
  /\ s \in written \ leaves
  /\ leaves' = leaves \cup {s}
  /\ pc' = IF written \ leaves = {s} THEN "board" ELSE "nodes"
  /\ UNCHANGED <<clock, status, truth, scores, snapshots, cycles, board,
                 checkpoints, work, lastCheckpoint, session, history>>

CommitCycleFails ==
  /\ pc \in {"cycle", "nodes"}
  /\ faults < MaxFaults
  /\ faults' = faults + 1
  /\ pc' = "board"
  /\ UNCHANGED <<clock, db, work, lastCheckpoint, session, dropped>>

-----------------------------------------------------------------------------
(* LeaderboardService.rebuild: from every snapshot in the database. *)

(* The stored board is replaced. *)
RebuildLeaderboard ==
  /\ pc = "board"
  /\ board' = snapshots
  /\ pc' = "due"
  /\ UNCHANGED <<clock, status, truth, scores, snapshots, cycles, leaves,
                 checkpoints, work, lastCheckpoint, session, history>>

-----------------------------------------------------------------------------
(* CheckpointService *)

(* maybe_checkpoint: a new process takes the last checkpoint's time from    *)
(* the database; without one, a checkpoint is due at once.                  *)
KnownLast(last) ==
  \/ lastCheckpoint # Unset /\ last = lastCheckpoint
  \/ /\ lastCheckpoint = Unset
     /\ \E k \in checkpoints : IsLatestCheckpoint(k) /\ last = k.end
  \/ lastCheckpoint = Unset /\ checkpoints = {} /\ last = Unset

MaybeCheckpoint ==
  /\ pc = "due"
  /\ \E last \in {Unset, lastCheckpoint} \cup {k.end : k \in checkpoints} :
       /\ KnownLast(last)
       /\ lastCheckpoint' = last
       /\ IF last # Unset /\ now - last < Interval
            THEN Finish
            ELSE pc' = "checkpoint" /\ UNCHANGED work
  /\ UNCHANGED <<clock, db, session, history>>

(* Variant with an error: the period is always one interval long. *)
PeriodStartOneInterval(start) == start = clock - Interval

(* The period starts where the last checkpoint ended. *)
PeriodStart(start) ==
  \/ \E k \in checkpoints : IsLatestCheckpoint(k) /\ start = k.end
  \/ checkpoints = {} /\ start = clock - Interval

(* Variant with an error: the cycle's timestamp ends the period. *)
CreateCheckpointAtCycleTime ==
  /\ pc = "checkpoint"
  /\ \E start \in {clock - Interval} \cup {k.end : k \in checkpoints} :
       /\ PeriodStart(start)
       /\ IF SnapshotsIn(start, now) = {}
            THEN Finish /\ UNCHANGED <<clock, checkpoints>>
            ELSE /\ checkpoints' = checkpoints \cup
                      {[start |-> start, end |-> now,
                        snaps |-> SnapshotsIn(start, now), root |-> {}]}
                 /\ current' = now
                 /\ clock' = clock + 1
                 /\ pc' = "root"
                 /\ UNCHANGED <<now, todo, scored, unsaved, written>>
  /\ UNCHANGED <<status, truth, scores, snapshots, cycles, leaves, board,
                 lastCheckpoint, session, history>>

(* create_checkpoint up to checkpoint_repository.save, with its own reading *)
(* of the clock; both ends of the snapshot query are inclusive.             *)
CreateCheckpoint ==
  /\ pc = "checkpoint"
  /\ \E start \in {clock - Interval} \cup {k.end : k \in checkpoints} :
       /\ PeriodStart(start)
       /\ IF SnapshotsIn(start, clock) = {}
            THEN Finish /\ UNCHANGED <<clock, checkpoints>>
            ELSE /\ checkpoints' = checkpoints \cup
                      {[start |-> start, end |-> clock,
                        snaps |-> SnapshotsIn(start, clock), root |-> {}]}
                 /\ current' = clock
                 /\ clock' = clock + 1
                 /\ pc' = "root"
                 /\ UNCHANGED <<now, todo, scored, unsaved, written>>
  /\ UNCHANGED <<status, truth, scores, snapshots, cycles, leaves, board,
                 lastCheckpoint, session, history>>

(* An exception before the row is saved is swallowed by maybe_checkpoint    *)
(* without a rollback: a failed database call leaves the session pending,   *)
(* a build_emission that raises does not.                                   *)
CreateCheckpointFails ==
  /\ pc = "checkpoint"
  /\ faults < MaxFaults
  /\ faults' = faults + 1
  /\ session' \in {"ok", "pending_rollback"}
  /\ Finish
  /\ UNCHANGED <<clock, db, lastCheckpoint, dropped>>

(* commit_checkpoint and update_merkle_root: the root commits to the cycle  *)
(* rows of the period.  No cycle, no root.                                  *)
CommitRoot ==
  /\ pc = "root"
  /\ \E k \in checkpoints :
       /\ k.end = current
       /\ checkpoints' = (checkpoints \ {k}) \cup
            {[k EXCEPT !.root = {c.at : c \in CyclesIn(k.start, k.end)}]}
  /\ lastCheckpoint' = now
  /\ Finish
  /\ UNCHANGED <<clock, status, truth, scores, snapshots, cycles, leaves, board,
                 session, history>>

CommitRootFails ==
  /\ pc = "root"
  /\ faults < MaxFaults
  /\ faults' = faults + 1
  /\ session' \in {"ok", "pending_rollback"}
  /\ lastCheckpoint' = now
  /\ Finish
  /\ UNCHANGED <<clock, db, dropped>>

-----------------------------------------------------------------------------
(* Faults *)

(* A database call raises where only run() catches it: the cycle is dropped *)
(* and the session rolled back.                                             *)
Abort ==
  /\ pc \in {"score", "status", "snapshot", "board", "due"}
  /\ faults < MaxFaults
  /\ faults' = faults + 1
  /\ Abandon
  /\ UNCHANGED <<clock, db, lastCheckpoint, session>>

(* The process stops and a new one starts. *)
Crash ==
  /\ faults < MaxFaults
  /\ faults' = faults + 1
  /\ Abandon
  /\ lastCheckpoint' = Unset
  /\ session' = "ok"
  /\ UNCHANGED <<clock, db>>

-----------------------------------------------------------------------------
Environment == Tick \/ \E p \in Preds : PredictionDue(p) \/ TruthArrives(p)

Worker ==
  \/ StartCycle \/ StartCycleRollsBack
  \/ \E p \in Preds : \/ SkipUnresolved(p) \/ SaveScore(p)
                      \/ ScoringRaises(p) \/ SaveStatus(p)
  \/ FinishScoring
  \/ \E m \in Models : SaveSnapshot(m)
  \/ CommitCycleRow
  \/ \E s \in written : SaveLeaf(s)
  \/ RebuildLeaderboard
  \/ MaybeCheckpoint \/ CreateCheckpoint \/ CommitRoot

Faults ==
  CommitCycleFails \/ CreateCheckpointFails \/ CommitRootFails \/ Abort \/ Crash

Next == Environment \/ Worker \/ Faults

Spec == Init /\ [][Next]_vars

(* run() loops until it is shut down and time passes: neither needs anyone  *)
(* else.  Nothing forces a prediction, a ground truth or a fault.           *)
FairSpec == Spec /\ WF_vars(Worker) /\ WF_vars(Tick)
-----------------------------------------------------------------------------
(* Properties *)

(* A snapshot counts only predictions whose SCORED status and score row are *)
(* durable, and no SCORED row is without its score: a crash between the two *)
(* commits of _score_predictions can leave a score without a status, never  *)
(* the reverse.                                                             *)
EvidenceIsDurable ==
  /\ \A p \in Counted : status[p] = "SCORED"
  /\ \A p \in Preds : status[p] = "SCORED" => p \in scores

(* No prediction weighs in two snapshots, whatever is retried after a crash *)
(* or an exception.                                                         *)
CountedOnce ==
  \A s, t \in snapshots : s # t => s.preds \cap t.preds = {}

(* No snapshot is rewarded by two checkpoints: periods share their end      *)
(* points and both ends of the query are inclusive.                         *)
PaidOnce ==
  \A j, k \in checkpoints : j.end # k.end => j.snaps \cap k.snaps = {}

(* docs/data-pipeline.md:105: a checkpoint reads "all snapshots since the   *)
(* last checkpoint"; checkpoint.py:61: from there, "or beginning of time".  *)
(* So every snapshot the checkpoints have gone past was rewarded by one of  *)
(* them, but for what the code does to the first: its period starts one     *)
(* interval back (checkpoint.py:64), and a snapshot older than that, which  *)
(* failed attempts or a long cycle have made wait, is never rewarded.       *)
NothingSkipped ==
  \A s \in snapshots :
    (\E k \in checkpoints : s.at <= k.end) =>
      \/ \E k \in checkpoints : s \in k.snaps
      \/ \A k \in checkpoints : s.at < k.start

(* A SCORED prediction that no snapshot counts belongs to the cycle under   *)
(* way or to a cycle that an exception or a crash interrupted.              *)
OnlyInterruptedDropped ==
  \A p \in Preds : status[p] = "SCORED" => p \in Counted \cup dropped \cup scored

(* The cycle rows form one chain in time: only the first has no             *)
(* predecessor and every other names the one just before it.                *)
ChainLinked ==
  \A c \in cycles :
    LET earlier == {d \in cycles : d.at < c.at}
    IN  IF earlier = {} THEN c.prev = NoCycle
        ELSE \E d \in earlier : c.prev = d.at /\ \A e \in earlier : e.at <= d.at

(* What is committed agrees with what is stored, whichever commits failed:  *)
(* cycles are chained; each commits to every snapshot saved under its time, *)
(* and no leaf is outside the tree of a cycle; a checkpoint's root commits  *)
(* to exactly the cycles of its period, so that no cycle is under two; and  *)
(* the cycles that created two checkpoints are an interval apart, restarts  *)
(* of the worker in between included.                                       *)
RecordsAgree ==
  /\ ChainLinked
  /\ \A c \in cycles : c.snaps = {s \in snapshots : s.at = c.at}
  /\ \A s \in leaves : \E c \in cycles : s \in c.snaps
  /\ \A k \in checkpoints :
       k.root # {} => k.root = {c.at : c \in CyclesIn(k.start, k.end)}
  /\ \A j, k \in checkpoints : j.end # k.end => j.root \cap k.root = {}
  /\ \A j, k \in checkpoints : j.end < k.end =>
       \E s \in k.snaps : \A t \in j.snaps : s.at - t.at >= Interval

(* A due prediction whose ground truth is available is scored in the end,   *)
(* behind others that have none and across a bounded number of faults, if   *)
(* neither it nor one found before it makes scoring raise.                  *)
EventuallyScored ==
  \A p \in {p \in Preds : \A q \in Raises : p < q} :
    (status[p] = "PENDING" /\ p \in truth) ~> (status[p] = "SCORED")

(* docs/data-pipeline.md:95, "aggregate_snapshot (scores in period)": when  *)
(* the worker rests, every score is in a snapshot.                          *)
EveryScoreInSnapshot ==
  pc = "idle" => \A p \in Preds : status[p] = "SCORED" => p \in Counted

-----------------------------------------------------------------------------
(* The pipeline implements the ledger: a prediction's row that is SCORED is *)
(* its final score, the snapshots and checkpoints that hold it its counts   *)
(* and payments.                                                            *)
TheLedger == INSTANCE Ledger WITH
  scoredSet <- {p \in Preds : status[p] = "SCORED"},
  counts    <- [p \in Preds |-> Cardinality({s \in snapshots : p \in s.preds})],
  payments  <- [p \in Preds |->
                 Cardinality({k \in checkpoints : \E s \in k.snaps : p \in s.preds})]

(* Every step of the worker, faults included, is a step of the ledger or    *)
(* invisible to it.                                                         *)
ImplementsLedger == TheLedger!LedgerSpec

-----------------------------------------------------------------------------
(* Strengthenings the proofs use.                                           *)

(* What the worker's memory says about the rows at each point of the cycle. *)
CountInv ==
  /\ EvidenceIsDurable
  /\ CountedOnce
  /\ OnlyInterruptedDropped
  /\ \A p \in scored : status[p] = "SCORED"
  /\ pc = "idle" => scored = {}
  /\ pc \in {"score", "status"} =>
       /\ \A p \in todo : status[p] = "PENDING"
       /\ \A p \in scored : p \notin Counted
  /\ pc = "status" => \A p \in todo : IsFirst(p, todo) => p \in scores
  /\ pc = "snapshot" => \A p \in scored : p \in Counted <=> ModelOf[p] \notin unsaved
  /\ pc \in {"cycle", "nodes", "board", "due", "checkpoint", "root"} =>
       scored \subseteq Counted

(* Stored times are in the past, no snapshot carries the time at which a    *)
(* checkpoint ended, and periods do not overlap.                            *)
PayInv ==
  /\ \A s \in snapshots : s.at < clock
  /\ \A k \in checkpoints : k.end < clock
  /\ pc # "idle" => now <= clock
  /\ pc \in {"score", "status", "snapshot"} => \A k \in checkpoints : k.end < now
  /\ \A s \in snapshots : \A k \in checkpoints : s.at # k.end
  /\ \A k \in checkpoints : k.snaps = SnapshotsIn(k.start, k.end)
  /\ \A j, k \in checkpoints : j.end < k.end => j.end <= k.start
  /\ NothingSkipped

(* One row per cycle time, and none at the end of a period; from a cycle's  *)
(* last snapshot to its row, its snapshots are the stored ones of its time  *)
(* and every row and period is older.                                       *)
CycleInv ==
  /\ \A c \in cycles : c.at < clock
  /\ \A c, d \in cycles : c.at = d.at => c = d
  /\ \A c \in cycles : \A k \in checkpoints : c.at # k.end
  /\ \A c \in cycles : c.snaps = {s \in snapshots : s.at = c.at}
  /\ \A s \in leaves : \E c \in cycles : s \in c.snaps
  /\ \A k \in checkpoints :
       k.root # {} => k.root = {c.at : c \in CyclesIn(k.start, k.end)}
  /\ ChainLinked
  /\ written = IF pc = "idle" THEN {} ELSE {s \in snapshots : s.at = now}
  /\ pc \in {"score", "status", "snapshot", "cycle"} =>
       /\ \A c \in cycles : c.at < now
       /\ \A k \in checkpoints : k.end < now
  /\ pc \in {"cycle", "nodes", "board", "due", "checkpoint", "root"} => now < clock
  /\ pc = "nodes" => \E c \in cycles : c.at = now

(* One row per period end.  A checkpoint pays for nothing later than the    *)
(* time _last_checkpoint_at remembers, and a cycle that creates another     *)
(* comes an interval after, with a snapshot of its own to show for it.      *)
SpacingInv ==
  /\ \A j, k \in checkpoints : j.end = k.end => j = k
  /\ \A j, k \in checkpoints : j.end < k.end =>
       \E s \in k.snaps : \A t \in j.snaps : s.at - t.at >= Interval
  /\ pc # "idle" => \A s \in snapshots : s.at <= now
  /\ pc \in {"cycle", "nodes", "board", "due", "checkpoint"} =>
       /\ \E s \in snapshots : s.at = now
       /\ \A k \in checkpoints : k.end < now
  /\ pc = "checkpoint" =>
       \A k \in checkpoints : \A t \in k.snaps : now - t.at >= Interval
  /\ pc # "root" /\ lastCheckpoint # Unset =>
       \A k \in checkpoints : \A t \in k.snaps : t.at <= lastCheckpoint
=============================================================================
