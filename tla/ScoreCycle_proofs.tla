-------------------------- MODULE ScoreCycle_proofs --------------------------
(***************************************************************************)
(* Proofs about the score-worker for any number of predictions, models,     *)
(* faults and ticks.                                                        *)
(***************************************************************************)
EXTENDS ScoreCycle, FiniteSetTheorems, TLAPS

-----------------------------------------------------------------------------
(* Type correctness *)

(* What ends a cycle, normally or not, keeps the worker's memory typed. *)
LEMMA FinishTyped ==
  ASSUME TypeOK, Finish
  PROVE  /\ pc' \in PCs /\ now' \in Nat /\ todo' \subseteq Preds
         /\ scored' \subseteq Preds /\ unsaved' \subseteq Models
         /\ written' \subseteq Snapshot /\ current' \in Nat
  BY DEF TypeOK, Finish, PCs

LEMMA AbandonTyped ==
  ASSUME TypeOK, Abandon
  PROVE  /\ pc' \in PCs /\ now' \in Nat /\ todo' \subseteq Preds
         /\ scored' \subseteq Preds /\ unsaved' \subseteq Models
         /\ written' \subseteq Snapshot /\ current' \in Nat
         /\ dropped' \subseteq Preds
  BY DEF TypeOK, Abandon, PCs

(* Every variable of the model keeps its type: the rows are of the shape    *)
(* the tables hold and the worker is at one of the points the code has.     *)
THEOREM TypeCorrect == Spec => []TypeOK
<1>1. Init => TypeOK
  BY ScoreCycleAssumption DEF Init, TypeOK, PCs, Unset
<1>2. TypeOK /\ [Next]_vars => TypeOK'
  <2> SUFFICES ASSUME TypeOK, [Next]_vars
               PROVE  TypeOK'
    OBVIOUS
  <2> USE ScoreCycleAssumption DEF db, work, history, PCs
  <2>1. CASE Tick
    BY <2>1 DEF TypeOK, Tick
  <2>2. ASSUME NEW p \in Preds, PredictionDue(p) PROVE TypeOK'
    BY <2>2 DEF TypeOK, PredictionDue
  <2>3. ASSUME NEW p \in Preds, TruthArrives(p) PROVE TypeOK'
    BY <2>3 DEF TypeOK, TruthArrives
  <2>4. CASE StartCycle
    BY <2>4 DEF TypeOK, StartCycle, Pending
  <2>5. CASE StartCycleRollsBack
    BY <2>5 DEF TypeOK, StartCycleRollsBack
  <2>6. ASSUME NEW p \in Preds, SkipUnresolved(p) PROVE TypeOK'
    BY <2>6 DEF TypeOK, SkipUnresolved
  <2>7. ASSUME NEW p \in Preds, SaveScore(p) PROVE TypeOK'
    BY <2>7 DEF TypeOK, SaveScore
  <2>8. ASSUME NEW p \in Preds, ScoringRaises(p) PROVE TypeOK'
    BY <2>8, AbandonTyped DEF TypeOK, ScoringRaises
  <2>9. ASSUME NEW p \in Preds, SaveStatus(p) PROVE TypeOK'
    BY <2>9 DEF TypeOK, SaveStatus
  <2>10. CASE FinishScoring
    <3>1. CASE scored = {}
      BY <2>10, <3>1, FinishTyped DEF TypeOK, FinishScoring
    <3>2. CASE scored # {}
      <4>1. {ModelOf[p] : p \in scored} \subseteq Models
        BY DEF TypeOK
      <4>2. QED
        BY <2>10, <3>2, <4>1 DEF TypeOK, FinishScoring
    <3>3. QED
      BY <3>1, <3>2
  <2>11. ASSUME NEW m \in Models, SaveSnapshot(m) PROVE TypeOK'
    <3> DEFINE s == [model |-> m, at |-> now,
                     preds |-> {p \in scored : ModelOf[p] = m}]
    <3>1. s \in Snapshot
      BY DEF TypeOK, Snapshot
    <3>2. After(now) \in Nat
      BY DEF TypeOK, After
    <3>3. QED
      BY <2>11, <3>1, <3>2 DEF TypeOK, SaveSnapshot
  <2>12. CASE CommitCycleRow
    <3>1. PICK prev \in {NoCycle} \cup {c.at : c \in cycles} :
            cycles' = cycles \cup {[at |-> now, prev |-> prev, snaps |-> written]}
      BY <2>12 DEF CommitCycleRow
    <3>2. prev \in Nat
      BY DEF TypeOK, Cycle, NoCycle
    <3>3. [at |-> now, prev |-> prev, snaps |-> written] \in Cycle
      BY <3>2 DEF TypeOK, Cycle
    <3>4. QED
      BY <2>12, <3>1, <3>3 DEF TypeOK, CommitCycleRow
  <2>13. ASSUME NEW s \in written, SaveLeaf(s) PROVE TypeOK'
    BY <2>13 DEF TypeOK, SaveLeaf
  <2>14. CASE RebuildLeaderboard
    BY <2>14 DEF TypeOK, RebuildLeaderboard
  <2>15. CASE MaybeCheckpoint
    <3>1. lastCheckpoint' \in Nat \cup {Unset}
      BY <2>15 DEF MaybeCheckpoint, TypeOK, Checkpoint
    <3>2. QED
      BY <2>15, <3>1, FinishTyped DEF TypeOK, MaybeCheckpoint
  <2>16. CASE CreateCheckpoint
    <3>1. PICK start \in {clock - Interval} \cup {k.end : k \in checkpoints} :
            IF SnapshotsIn(start, clock) = {}
            THEN Finish /\ UNCHANGED <<clock, checkpoints>>
            ELSE /\ checkpoints' = checkpoints \cup
                      {[start |-> start, end |-> clock,
                        snaps |-> SnapshotsIn(start, clock), root |-> {}]}
                 /\ current' = clock
                 /\ clock' = clock + 1
                 /\ pc' = "root"
                 /\ UNCHANGED <<now, todo, scored, unsaved, written>>
      BY <2>16 DEF CreateCheckpoint
    <3>2. start \in Int
      BY DEF TypeOK, Checkpoint
    <3>3. [start |-> start, end |-> clock,
           snaps |-> SnapshotsIn(start, clock), root |-> {}] \in Checkpoint
      BY <3>2 DEF TypeOK, Checkpoint, SnapshotsIn
    <3>4. CASE SnapshotsIn(start, clock) = {}
      BY <2>16, <3>1, <3>4, FinishTyped DEF TypeOK, CreateCheckpoint
    <3>5. CASE SnapshotsIn(start, clock) # {}
      <4>1. checkpoints' \subseteq Checkpoint
        BY <3>1, <3>3, <3>5 DEF TypeOK
      <4>2. /\ current' \in Nat /\ clock' \in Nat /\ pc' \in PCs
            /\ UNCHANGED <<now, todo, scored, unsaved, written>>
        BY <3>1, <3>5 DEF TypeOK
      <4>3. QED
        BY <2>16, <4>1, <4>2 DEF TypeOK, CreateCheckpoint
    <3>6. QED
      BY <3>4, <3>5
  <2>17. CASE CommitRoot
    <3>1. PICK k \in checkpoints :
            checkpoints' = (checkpoints \ {k}) \cup
              {[k EXCEPT !.root = {c.at : c \in CyclesIn(k.start, k.end)}]}
      BY <2>17 DEF CommitRoot
    <3>2. {c.at : c \in CyclesIn(k.start, k.end)} \subseteq Nat
      BY DEF TypeOK, Cycle, CyclesIn
    <3>3. [k EXCEPT !.root = {c.at : c \in CyclesIn(k.start, k.end)}] \in Checkpoint
      BY <3>2 DEF TypeOK, Checkpoint
    <3>4. QED
      BY <2>17, <3>1, <3>3, FinishTyped DEF TypeOK, CommitRoot
  <2>18. CASE CommitCycleFails
    BY <2>18 DEF TypeOK, CommitCycleFails
  <2>19. CASE CreateCheckpointFails
    BY <2>19, FinishTyped DEF TypeOK, CreateCheckpointFails
  <2>20. CASE CommitRootFails
    BY <2>20, FinishTyped DEF TypeOK, CommitRootFails
  <2>21. CASE Abort
    BY <2>21, AbandonTyped DEF TypeOK, Abort
  <2>22. CASE Crash
    BY <2>22, AbandonTyped DEF TypeOK, Crash
  <2>23. CASE UNCHANGED vars
    BY <2>23 DEF TypeOK, vars
  <2>24. QED
    BY <2>1, <2>2, <2>3, <2>4, <2>5, <2>6, <2>7, <2>8, <2>9, <2>10, <2>11,
       <2>12, <2>13, <2>14, <2>15, <2>16, <2>17, <2>18, <2>19, <2>20, <2>21,
       <2>22, <2>23
       DEF Next, Environment, Worker, Faults
<1>3. QED
  BY <1>1, <1>2, PTL DEF Spec

-----------------------------------------------------------------------------
(* Periods and payments *)

Early == {"score", "status", "snapshot"}

(* A step that touches neither snapshots nor checkpoints keeps the periods. *)
LEMMA PayFrame ==
  ASSUME PayInv, snapshots' = snapshots, checkpoints' = checkpoints,
         clock \in Nat, clock' \in Nat, clock' >= clock,
         snapshots \subseteq Snapshot, checkpoints \subseteq Checkpoint,
         pc' # "idle" => now' <= clock',
         pc' \in Early => \A k \in checkpoints : k.end < now'
  PROVE  PayInv'
<1>1. /\ \A s \in snapshots' : s.at < clock'
      /\ \A k \in checkpoints' : k.end < clock'
  BY DEF PayInv, Snapshot, Checkpoint
<1>2. QED
  BY <1>1 DEF PayInv, Early, NothingSkipped, SnapshotsIn

LEMMA PayFrameIdle ==
  ASSUME PayInv, snapshots' = snapshots, checkpoints' = checkpoints,
         clock \in Nat, clock' = clock,
         snapshots \subseteq Snapshot, checkpoints \subseteq Checkpoint,
         pc' = "idle"
  PROVE  PayInv'
  BY PayFrame DEF Early

LEMMA PayFrameSameCycle ==
  ASSUME PayInv, snapshots' = snapshots, checkpoints' = checkpoints,
         clock \in Nat, clock' \in Nat, clock' >= clock, now \in Nat,
         snapshots \subseteq Snapshot, checkpoints \subseteq Checkpoint,
         now' = now, pc' # "idle" => pc # "idle", pc' \in Early => pc \in Early
  PROVE  PayInv'
<1>1. pc' # "idle" => now' <= clock'
  BY DEF PayInv
<1>2. pc' \in Early => \A k \in checkpoints : k.end < now'
  BY DEF PayInv, Early
<1>3. QED
  BY <1>1, <1>2, PayFrame

LEMMA PayInit == Init => PayInv
  BY DEF Init, PayInv, NothingSkipped

(* The new snapshot's time is that of the cycle, after every checkpoint.    *)
LEMMA PaySaveSnapshot ==
  ASSUME TypeOK, TypeOK', PayInv, NEW m \in Models, SaveSnapshot(m)
  PROVE  PayInv'
<1> DEFINE new == [model |-> m, at |-> now,
                   preds |-> {p \in scored : ModelOf[p] = m}]
<1>1. /\ snapshots' = snapshots \cup {new} /\ checkpoints' = checkpoints
      /\ new.at = now /\ now' = now /\ pc = "snapshot"
      /\ pc' \in {"cycle", "snapshot"} /\ clock' = After(now)
  BY DEF SaveSnapshot
<1>2. clock' >= clock /\ now < clock' /\ clock \in Nat /\ now \in Nat /\ clock' \in Nat
  BY <1>1 DEF After, TypeOK
<1>3. \A k \in checkpoints : k.end < now /\ k.end < clock /\ k.end \in Nat /\ k.start \in Int
  BY <1>1, <1>2 DEF PayInv, TypeOK, Checkpoint
<1>4. \A s \in snapshots : s.at < clock /\ s.at \in Nat
  BY DEF PayInv, TypeOK, Snapshot
<1>5. \A s \in snapshots' : s.at < clock'
  BY <1>1, <1>2, <1>4
<1>6. \A k \in checkpoints' : k.end < clock'
  BY <1>1, <1>2, <1>3
<1>7. pc' # "idle" => now' <= clock'
  BY <1>1, <1>2
<1>8. pc' \in Early => \A k \in checkpoints' : k.end < now'
  BY <1>1, <1>3
<1>9. \A s \in snapshots' : \A k \in checkpoints' : s.at # k.end
  BY <1>1, <1>2, <1>3 DEF PayInv
<1>10. \A k \in checkpoints' : k.snaps = SnapshotsIn(k.start, k.end)'
  <2> SUFFICES ASSUME NEW k \in checkpoints
               PROVE  k.snaps = SnapshotsIn(k.start, k.end)'
    BY <1>1
  <2>1. k.snaps = SnapshotsIn(k.start, k.end)
    BY DEF PayInv
  <2>2. ~(new.at <= k.end)
    BY <1>1, <1>2, <1>3
  <2>3. QED
    BY <1>1, <2>1, <2>2 DEF SnapshotsIn
<1>11. NothingSkipped'
  <2> SUFFICES ASSUME NEW s \in snapshots', NEW k \in checkpoints, s.at <= k.end
               PROVE  \/ \E j \in checkpoints : s \in j.snaps
                      \/ \A j \in checkpoints : s.at < j.start
    BY <1>1 DEF NothingSkipped
  <2>1. s \in snapshots
    BY <1>1, <1>2, <1>3
  <2>2. QED
    BY <2>1 DEF PayInv, NothingSkipped
<1>12. QED
  BY <1>1, <1>5, <1>6, <1>7, <1>8, <1>9, <1>10, <1>11 DEF PayInv, Early

(* The new period begins where the last one ended and ends after every      *)
(* stored time.                                                             *)
LEMMA PayCreateCheckpoint ==
  ASSUME TypeOK, TypeOK', PayInv, CreateCheckpoint
  PROVE  PayInv'
<1>1. PICK start \in {clock - Interval} \cup {k.end : k \in checkpoints} :
        /\ PeriodStart(start)
        /\ IF SnapshotsIn(start, clock) = {}
            THEN Finish /\ UNCHANGED <<clock, checkpoints>>
            ELSE /\ checkpoints' = checkpoints \cup
                      {[start |-> start, end |-> clock,
                        snaps |-> SnapshotsIn(start, clock), root |-> {}]}
                 /\ clock' = clock + 1
                 /\ pc' = "root"
                 /\ UNCHANGED now
  BY DEF CreateCheckpoint
<1>2. snapshots' = snapshots /\ pc = "checkpoint"
  BY DEF CreateCheckpoint
<1>3. clock \in Nat /\ now \in Nat /\ now <= clock
  BY <1>2 DEF TypeOK, PayInv
<1>4. CASE SnapshotsIn(start, clock) = {}
  <2>1. pc' = "idle" /\ clock' = clock /\ checkpoints' = checkpoints
    BY <1>1, <1>4 DEF Finish
  <2>2. QED
    BY <1>2, <1>3, <2>1, PayFrameIdle DEF TypeOK
<1>5. CASE SnapshotsIn(start, clock) # {}
  <2> DEFINE new == [start |-> start, end |-> clock,
                     snaps |-> SnapshotsIn(start, clock), root |-> {}]
  <2>1. /\ checkpoints' = checkpoints \cup {new} /\ clock' = clock + 1
        /\ pc' = "root" /\ now' = now
    BY <1>1, <1>5
  <2>2. new.start = start /\ new.end = clock /\ new.snaps = SnapshotsIn(start, clock)
    OBVIOUS
  <2>3. \A k \in checkpoints : k.end < clock /\ k.end \in Nat /\ k.start \in Int
    BY DEF PayInv, TypeOK, Checkpoint
  <2>4. \A s \in snapshots : s.at < clock /\ s.at \in Nat
    BY DEF PayInv, TypeOK, Snapshot
  <2>5. start \in Int /\ \A k \in checkpoints : k.end <= start
    BY <1>1, <1>3, <2>3, ScoreCycleAssumption DEF PeriodStart, IsLatestCheckpoint
  <2>6. \A s \in snapshots' : s.at < clock'
    BY <1>2, <1>3, <2>1, <2>4
  <2>7. \A k \in checkpoints' : k.end < clock'
    BY <1>3, <2>1, <2>2, <2>3
  <2>8. \A s \in snapshots' : \A k \in checkpoints' : s.at # k.end
    BY <1>2, <1>3, <2>1, <2>2, <2>4 DEF PayInv
  <2>9. \A k \in checkpoints' : k.snaps = SnapshotsIn(k.start, k.end)'
    BY <1>2, <2>1, <2>2 DEF PayInv, SnapshotsIn
  <2>10. \A j, k \in checkpoints' : j.end < k.end => j.end <= k.start
    BY <1>3, <2>1, <2>2, <2>3, <2>5 DEF PayInv
  <2>11. NothingSkipped'
    <3> SUFFICES ASSUME NEW s \in snapshots
                 PROVE  \/ \E k \in checkpoints' : s \in k.snaps
                        \/ \A k \in checkpoints' : s.at < k.start
      BY <1>2 DEF NothingSkipped
    <3>1. CASE start <= s.at
      <4>1. s \in new.snaps
        BY <2>2, <2>4, <3>1, <1>3 DEF SnapshotsIn
      <4>2. QED
        BY <2>1, <4>1
    <3>2. CASE s.at < start
      <4>1. CASE checkpoints = {}
        BY <2>1, <2>2, <3>2, <4>1
      <4>2. CASE checkpoints # {}
        <5>1. PICK k \in checkpoints : start = k.end
          BY <1>1, <4>2 DEF PeriodStart
        <5>2. s.at <= k.end
          BY <2>3, <2>4, <3>2, <5>1
        <5>3. \/ \E j \in checkpoints : s \in j.snaps
              \/ \A j \in checkpoints : s.at < j.start
          BY <5>2 DEF PayInv, NothingSkipped
        <5>4. QED
          BY <2>1, <2>2, <3>2, <5>3
      <4>3. QED
        BY <4>1, <4>2
    <3>3. QED
      BY <2>4, <2>5, <3>1, <3>2
  <2>12. QED
    BY <1>3, <2>1, <2>6, <2>7, <2>8, <2>9, <2>10, <2>11 DEF PayInv
<1>6. QED
  BY <1>4, <1>5

(* Setting the root changes nothing else of the row. *)
LEMMA PayCommitRoot ==
  ASSUME TypeOK, PayInv, CommitRoot
  PROVE  PayInv'
<1>1. PICK k \in checkpoints :
        checkpoints' = (checkpoints \ {k}) \cup
          {[k EXCEPT !.root = {c.at : c \in CyclesIn(k.start, k.end)}]}
  BY DEF CommitRoot
<1> DEFINE new == [k EXCEPT !.root = {c.at : c \in CyclesIn(k.start, k.end)}]
<1>2. snapshots' = snapshots /\ clock' = clock /\ pc' = "idle"
  BY DEF CommitRoot, Finish
<1>3. new.start = k.start /\ new.end = k.end /\ new.snaps = k.snaps
  BY DEF TypeOK, Checkpoint
<1>4. \A j \in checkpoints' : \E i \in checkpoints :
        j.start = i.start /\ j.end = i.end /\ j.snaps = i.snaps
  BY <1>1, <1>3
<1>5. \A i \in checkpoints : \E j \in checkpoints' :
        j.start = i.start /\ j.end = i.end /\ j.snaps = i.snaps
  BY <1>1, <1>3
<1>6. NothingSkipped'
  <2> SUFFICES ASSUME NEW s \in snapshots, NEW j \in checkpoints', s.at <= j.end
               PROVE  \/ \E i \in checkpoints' : s \in i.snaps
                      \/ \A i \in checkpoints' : s.at < i.start
    BY <1>2 DEF NothingSkipped
  <2>1. \/ \E i \in checkpoints : s \in i.snaps
        \/ \A i \in checkpoints : s.at < i.start
    BY <1>4 DEF PayInv, NothingSkipped
  <2>2. QED
    BY <1>4, <1>5, <2>1
<1>7. \A j \in checkpoints' : j.snaps = SnapshotsIn(j.start, j.end)'
  BY <1>2, <1>4 DEF PayInv, SnapshotsIn
<1>8. \A i, j \in checkpoints' : i.end < j.end => i.end <= j.start
  BY <1>4 DEF PayInv
<1>9. /\ \A j \in checkpoints' : j.end < clock'
      /\ \A s \in snapshots' : s.at < clock'
      /\ \A s \in snapshots' : \A j \in checkpoints' : s.at # j.end
  BY <1>2, <1>4 DEF PayInv
<1>10. QED
  BY <1>2, <1>6, <1>7, <1>8, <1>9 DEF PayInv

LEMMA PayStep == TypeOK /\ TypeOK' /\ PayInv /\ [Next]_vars => PayInv'
<1> SUFFICES ASSUME TypeOK, TypeOK', PayInv, [Next]_vars
             PROVE  PayInv'
  OBVIOUS
<1> USE DEF db, work, history
<1>0. /\ clock \in Nat /\ clock' \in Nat /\ now \in Nat
      /\ snapshots \subseteq Snapshot /\ checkpoints \subseteq Checkpoint
  BY DEF TypeOK
<1>1. CASE Tick
  BY <1>0, <1>1, PayFrameSameCycle DEF Tick
<1>2. ASSUME NEW p \in Preds, PredictionDue(p) PROVE PayInv'
  BY <1>0, <1>2, PayFrameSameCycle DEF PredictionDue
<1>3. ASSUME NEW p \in Preds, TruthArrives(p) PROVE PayInv'
  BY <1>0, <1>3, PayFrameSameCycle DEF TruthArrives
<1>4. CASE StartCycle
  <2>1. \A k \in checkpoints : k.end < now'
    BY <1>4 DEF StartCycle, PayInv
  <2>2. now' <= clock' /\ clock' >= clock
    BY <1>0, <1>4 DEF StartCycle
  <2>3. QED
    BY <1>0, <1>4, <2>1, <2>2, PayFrame DEF StartCycle
<1>5. CASE StartCycleRollsBack
  BY <1>0, <1>5, PayFrameIdle DEF StartCycleRollsBack
<1>6. ASSUME NEW p \in Preds, SkipUnresolved(p) PROVE PayInv'
  BY <1>0, <1>6, PayFrameSameCycle DEF SkipUnresolved
<1>7. ASSUME NEW p \in Preds, SaveScore(p) PROVE PayInv'
  BY <1>0, <1>7, PayFrameSameCycle DEF SaveScore, Early
<1>8. ASSUME NEW p \in Preds, ScoringRaises(p) PROVE PayInv'
  BY <1>0, <1>8, PayFrameIdle DEF ScoringRaises, Abandon
<1>9. ASSUME NEW p \in Preds, SaveStatus(p) PROVE PayInv'
  BY <1>0, <1>9, PayFrameSameCycle DEF SaveStatus, Early
<1>10. CASE FinishScoring
  <2>1. CASE scored = {}
    BY <1>0, <1>10, <2>1, PayFrameIdle DEF FinishScoring, Finish
  <2>2. CASE scored # {}
    BY <1>0, <1>10, <2>2, PayFrameSameCycle DEF FinishScoring, Early
  <2>3. QED
    BY <2>1, <2>2
<1>11. ASSUME NEW m \in Models, SaveSnapshot(m) PROVE PayInv'
  BY <1>11, PaySaveSnapshot
<1>12. CASE CommitCycleRow
  BY <1>0, <1>12, PayFrameSameCycle DEF CommitCycleRow, Early
<1>13. ASSUME NEW s \in written, SaveLeaf(s) PROVE PayInv'
  BY <1>0, <1>13, PayFrameSameCycle DEF SaveLeaf, Early
<1>14. CASE RebuildLeaderboard
  BY <1>0, <1>14, PayFrameSameCycle DEF RebuildLeaderboard, Early
<1>15. CASE MaybeCheckpoint
  <2>1. CASE pc' = "idle"
    BY <1>0, <1>15, <2>1, PayFrameIdle DEF MaybeCheckpoint
  <2>2. CASE pc' # "idle"
    BY <1>0, <1>15, <2>2, PayFrameSameCycle DEF MaybeCheckpoint, Finish, Early
  <2>3. QED
    BY <2>1, <2>2
<1>16. CASE CreateCheckpoint
  BY <1>16, PayCreateCheckpoint
<1>17. CASE CommitRoot
  BY <1>17, PayCommitRoot
<1>18. CASE CommitCycleFails
  BY <1>0, <1>18, PayFrameSameCycle DEF CommitCycleFails, Early
<1>19. CASE CreateCheckpointFails
  BY <1>0, <1>19, PayFrameIdle DEF CreateCheckpointFails, Finish
<1>20. CASE CommitRootFails
  BY <1>0, <1>20, PayFrameIdle DEF CommitRootFails, Finish
<1>21. CASE Abort
  BY <1>0, <1>21, PayFrameIdle DEF Abort, Abandon
<1>22. CASE Crash
  BY <1>0, <1>22, PayFrameIdle DEF Crash, Abandon
<1>23. CASE UNCHANGED vars
  BY <1>0, <1>23, PayFrameSameCycle DEF vars
<1>24. QED
  BY <1>1, <1>2, <1>3, <1>4, <1>5, <1>6, <1>7, <1>8, <1>9, <1>10, <1>11,
     <1>12, <1>13, <1>14, <1>15, <1>16, <1>17, <1>18, <1>19, <1>20, <1>21,
     <1>22, <1>23
     DEF Next, Environment, Worker, Faults

(* Two checkpoints that reward the same snapshot are one: the snapshot's    *)
(* time would have to be the end of the earlier period.                     *)
LEMMA PeriodsPayOnce == TypeOK /\ PayInv => PaidOnce
<1> SUFFICES ASSUME TypeOK, PayInv
             PROVE  PaidOnce
  OBVIOUS
<1>1. ASSUME NEW j \in checkpoints, NEW k \in checkpoints, j.end < k.end,
             NEW s \in j.snaps, s \in k.snaps
      PROVE  FALSE
  <2>1. s \in snapshots /\ s.at <= j.end /\ k.start <= s.at /\ j.end <= k.start
    BY <1>1 DEF PayInv, SnapshotsIn
  <2>2. s.at # j.end
    BY <2>1 DEF PayInv
  <2>3. s.at \in Nat /\ j.end \in Nat /\ k.start \in Int
    BY <2>1 DEF TypeOK, Snapshot, Checkpoint
  <2>4. QED
    BY <2>1, <2>2, <2>3
<1>2. \A j, k \in checkpoints : j.end # k.end => j.end < k.end \/ k.end < j.end
  <2>1. \A k \in checkpoints : k.end \in Nat
    BY DEF TypeOK, Checkpoint
  <2>2. QED
    BY <2>1
<1>3. QED
  BY <1>1, <1>2 DEF PaidOnce

(* The strengthening is inductive over any behaviour of the worker.         *)
LEMMA PayInvariant == Spec => []PayInv
<1>1. Spec => []TypeOK
  BY TypeCorrect
<1>2. QED
  BY <1>1, PayInit, PayStep, PTL DEF Spec

(* However often the worker crashes or fails, no snapshot is rewarded by    *)
(* two checkpoints.                                                         *)
THEOREM SnapshotsPaidOnce == Spec => []PaidOnce
  BY TypeCorrect, PayInvariant, PeriodsPayOnce, PTL

(* And none that the checkpoints have gone past is left out, the ones older *)
(* than the first period excepted.                                          *)
THEOREM NoSnapshotSkipped == Spec => []NothingSkipped
<1>1. PayInv => NothingSkipped
  BY DEF PayInv
<1>2. QED
  BY <1>1, PayInvariant, PTL

-----------------------------------------------------------------------------
(* Scores, statuses and snapshots *)

Late == {"cycle", "nodes", "board", "due", "checkpoint", "root"}

(* A step that leaves the rows of predictions and snapshots alone and the   *)
(* cycle's memory of them, too, or ends the cycle with everything counted.  *)
LEMMA CountFrame ==
  ASSUME TypeOK, CountInv,
         status' = status, scores' = scores, snapshots' = snapshots,
         dropped' = dropped, unsaved' = unsaved, scored' = scored,
         todo' = todo, pc' = pc \/ (pc \in Late /\ pc' \in Late)
  PROVE  CountInv'
  BY DEF CountInv, EvidenceIsDurable, CountedOnce, OnlyInterruptedDropped,
         Counted, IsFirst, Late

LEMMA CountFinish ==
  ASSUME TypeOK, CountInv, Finish, pc \in Late,
         status' = status, scores' = scores, snapshots' = snapshots,
         dropped' = dropped
  PROVE  CountInv'
  BY DEF CountInv, EvidenceIsDurable, CountedOnce, OnlyInterruptedDropped,
         Counted, Finish, Late

LEMMA CountAbandon ==
  ASSUME TypeOK, CountInv, Abandon,
         status' = status, scores' = scores, snapshots' = snapshots
  PROVE  CountInv'
  BY DEF CountInv, EvidenceIsDurable, CountedOnce, OnlyInterruptedDropped,
         Counted, Abandon

LEMMA CountInit == Init => CountInv
  BY DEF Init, CountInv, EvidenceIsDurable, CountedOnce, OnlyInterruptedDropped, Counted

(* A prediction that becomes due is not SCORED, so nothing counts it yet.   *)
LEMMA CountPredictionDue ==
  ASSUME TypeOK, CountInv, NEW p \in Preds, PredictionDue(p)
  PROVE  CountInv'
<1>1. /\ status[p] = "none" /\ status' = [status EXCEPT ![p] = "PENDING"]
      /\ UNCHANGED <<scores, snapshots, dropped, unsaved, scored, todo, pc>>
  BY DEF PredictionDue, work, history
<1>2. \A q \in Preds : /\ status'[q] = "SCORED" <=> status[q] = "SCORED"
                       /\ status[q] = "PENDING" => status'[q] = "PENDING"
  BY <1>1 DEF TypeOK
<1>3. Counted' = Counted /\ Counted \subseteq Preds
  BY <1>1 DEF Counted, TypeOK, Snapshot
<1>4. scored \subseteq Preds /\ todo \subseteq Preds
  BY DEF TypeOK
<1>5. QED
  BY <1>1, <1>2, <1>3, <1>4
     DEF CountInv, EvidenceIsDurable, CountedOnce, OnlyInterruptedDropped, IsFirst

LEMMA CountSaveStatus ==
  ASSUME TypeOK, CountInv, NEW p \in Preds, SaveStatus(p)
  PROVE  CountInv'
<1>1. /\ pc = "status" /\ pc' = "score" /\ IsFirst(p, todo)
      /\ status' = [status EXCEPT ![p] = "SCORED"]
      /\ todo' = todo \ {p} /\ scored' = scored \cup {p}
      /\ UNCHANGED <<scores, snapshots, dropped, unsaved>>
  BY DEF SaveStatus, history
<1>2. p \in scores /\ status[p] = "PENDING" /\ p \notin Counted
  BY <1>1 DEF CountInv, EvidenceIsDurable, IsFirst
<1>3. \A q \in Preds : status'[q] = IF q = p THEN "SCORED" ELSE status[q]
  BY <1>1 DEF TypeOK
<1>4. Counted' = Counted /\ Counted \subseteq Preds
  BY <1>1 DEF Counted, TypeOK, Snapshot
<1>5. scored \subseteq Preds /\ todo \subseteq Preds
  BY DEF TypeOK
<1>6. EvidenceIsDurable' /\ CountedOnce' /\ OnlyInterruptedDropped'
  BY <1>1, <1>2, <1>3, <1>4
     DEF CountInv, EvidenceIsDurable, CountedOnce, OnlyInterruptedDropped
<1>7. /\ \A q \in scored' : status'[q] = "SCORED"
      /\ \A q \in todo' : status'[q] = "PENDING"
      /\ \A q \in scored' : q \notin Counted'
  BY <1>1, <1>2, <1>3, <1>4, <1>5 DEF CountInv
<1>8. QED
  BY <1>1, <1>6, <1>7 DEF CountInv

(* The snapshot counts what its model scored in this cycle, which no other  *)
(* snapshot counts yet.                                                     *)
LEMMA CountSaveSnapshot ==
  ASSUME TypeOK, CountInv, NEW m \in Models, SaveSnapshot(m)
  PROVE  CountInv'
<1> DEFINE mine == {p \in scored : ModelOf[p] = m}
           new  == [model |-> m, at |-> now, preds |-> mine]
<1>1. /\ pc = "snapshot" /\ m \in unsaved
      /\ snapshots' = snapshots \cup {new}
      /\ unsaved' = unsaved \ {m}
      /\ pc' = IF unsaved = {m} THEN "cycle" ELSE "snapshot"
      /\ UNCHANGED <<status, scores, dropped, scored, todo>>
  BY DEF SaveSnapshot, history
<1>2. new.preds = mine /\ Counted' = Counted \cup mine
  <2>1. new.preds = mine
    OBVIOUS
  <2>2. Counted' = UNION {s.preds : s \in snapshots \cup {new}}
    BY <1>1 DEF Counted
  <2> HIDE DEF new, mine
  <2>3. QED
    BY <2>1, <2>2 DEF Counted
<1>3. \A p \in scored : p \in Counted <=> ModelOf[p] \notin unsaved
  BY <1>1 DEF CountInv
<1>4. \A p \in mine : p \notin Counted /\ status[p] = "SCORED"
  BY <1>1, <1>3 DEF CountInv
<1>5. EvidenceIsDurable'
  BY <1>1, <1>2, <1>4 DEF CountInv, EvidenceIsDurable
<1>6. CountedOnce'
  <2>1. \A s \in snapshots : s.preds \cap mine = {}
    BY <1>4 DEF Counted
  <2>2. \A s, t \in snapshots' : s # t => s.preds \cap t.preds = {}
    BY <1>1, <1>2, <2>1 DEF CountInv, CountedOnce
  <2>3. QED
    BY <2>2 DEF CountedOnce
<1>7. OnlyInterruptedDropped'
  BY <1>1, <1>2 DEF CountInv, OnlyInterruptedDropped
<1>8. \A p \in scored' : p \in Counted' <=> ModelOf[p] \notin unsaved'
  BY <1>1, <1>2, <1>3
<1>9. unsaved = {m} => scored' \subseteq Counted'
  BY <1>1, <1>8
<1>10. \A p \in scored' : status'[p] = "SCORED"
  BY <1>1 DEF CountInv
<1>11. QED
  BY <1>1, <1>5, <1>6, <1>7, <1>8, <1>9, <1>10 DEF CountInv

LEMMA CountFinishScoring ==
  ASSUME TypeOK, CountInv, FinishScoring
  PROVE  CountInv'
<1>1. /\ pc = "score"
      /\ UNCHANGED <<status, scores, snapshots, dropped>>
  BY DEF FinishScoring, db, history
<1>2. CASE scored = {}
  <2>1. pc' = "idle" /\ scored' = {}
    BY <1>2 DEF FinishScoring, Finish
  <2>2. QED
    BY <1>1, <1>2, <2>1
       DEF CountInv, EvidenceIsDurable, CountedOnce, OnlyInterruptedDropped, Counted
<1>3. CASE scored # {}
  <2>1. /\ pc' = "snapshot" /\ scored' = scored
        /\ unsaved' = {ModelOf[p] : p \in scored}
    BY <1>3 DEF FinishScoring
  <2>2. \A p \in scored : p \notin Counted /\ ModelOf[p] \in unsaved'
    BY <1>1, <2>1 DEF CountInv
  <2>3. Counted' = Counted
    BY <1>1 DEF Counted
  <2>4. QED
    BY <1>1, <2>1, <2>2, <2>3
       DEF CountInv, EvidenceIsDurable, CountedOnce, OnlyInterruptedDropped
<1>4. QED
  BY <1>2, <1>3

LEMMA CountStep == TypeOK /\ CountInv /\ [Next]_vars => CountInv'
<1> SUFFICES ASSUME TypeOK, CountInv, [Next]_vars
             PROVE  CountInv'
  OBVIOUS
<1> USE DEF db, work, history
<1>1. CASE Tick
  BY <1>1, CountFrame DEF Tick
<1>2. ASSUME NEW p \in Preds, PredictionDue(p) PROVE CountInv'
  BY <1>2, CountPredictionDue
<1>3. ASSUME NEW p \in Preds, TruthArrives(p) PROVE CountInv'
  BY <1>3, CountFrame DEF TruthArrives
<1>4. CASE StartCycle
  BY <1>4 DEF StartCycle, CountInv, EvidenceIsDurable, CountedOnce,
              OnlyInterruptedDropped, Counted, Pending
<1>5. CASE StartCycleRollsBack
  BY <1>5, CountFrame DEF StartCycleRollsBack
<1>6. ASSUME NEW p \in Preds, SkipUnresolved(p) PROVE CountInv'
  BY <1>6 DEF SkipUnresolved, CountInv, EvidenceIsDurable, CountedOnce,
              OnlyInterruptedDropped, Counted
<1>7. ASSUME NEW p \in Preds, SaveScore(p) PROVE CountInv'
  <2>1. \A q \in todo : IsFirst(q, todo) => q = p
    BY <1>7, ScoreCycleAssumption DEF SaveScore, IsFirst, TypeOK
  <2>2. QED
    BY <1>7, <2>1 DEF SaveScore, CountInv, EvidenceIsDurable, CountedOnce,
                      OnlyInterruptedDropped, Counted, IsFirst
<1>8. ASSUME NEW p \in Preds, ScoringRaises(p) PROVE CountInv'
  BY <1>8, CountAbandon DEF ScoringRaises
<1>9. ASSUME NEW p \in Preds, SaveStatus(p) PROVE CountInv'
  BY <1>9, CountSaveStatus
<1>10. CASE FinishScoring
  BY <1>10, CountFinishScoring
<1>11. ASSUME NEW m \in Models, SaveSnapshot(m) PROVE CountInv'
  BY <1>11, CountSaveSnapshot
<1>12. CASE CommitCycleRow
  BY <1>12, CountFrame DEF CommitCycleRow, Late
<1>13. ASSUME NEW s \in written, SaveLeaf(s) PROVE CountInv'
  BY <1>13, CountFrame DEF SaveLeaf, Late
<1>14. CASE RebuildLeaderboard
  BY <1>14, CountFrame DEF RebuildLeaderboard, Late
<1>15. CASE MaybeCheckpoint
  BY <1>15, CountFrame, CountFinish DEF MaybeCheckpoint, Late
<1>16. CASE CreateCheckpoint
  BY <1>16, CountFrame, CountFinish DEF CreateCheckpoint, Late
<1>17. CASE CommitRoot
  BY <1>17, CountFinish DEF CommitRoot, Late
<1>18. CASE CommitCycleFails
  BY <1>18, CountFrame DEF CommitCycleFails, Late
<1>19. CASE CreateCheckpointFails
  BY <1>19, CountFinish DEF CreateCheckpointFails, Late
<1>20. CASE CommitRootFails
  BY <1>20, CountFinish DEF CommitRootFails, Late
<1>21. CASE Abort
  BY <1>21, CountAbandon DEF Abort
<1>22. CASE Crash
  BY <1>22, CountAbandon DEF Crash
<1>23. CASE UNCHANGED vars
  BY <1>23, CountFrame DEF vars
<1>24. QED
  BY <1>1, <1>2, <1>3, <1>4, <1>5, <1>6, <1>7, <1>8, <1>9, <1>10, <1>11,
     <1>12, <1>13, <1>14, <1>15, <1>16, <1>17, <1>18, <1>19, <1>20, <1>21,
     <1>22, <1>23
     DEF Next, Environment, Worker, Faults

LEMMA CountInvariant == Spec => []CountInv
<1>1. Spec => []TypeOK
  BY TypeCorrect
<1>2. QED
  BY <1>1, CountInit, CountStep, PTL DEF Spec

(* No prediction weighs in two snapshots, whatever is retried. *)
THEOREM PredictionsCountedOnce == Spec => []CountedOnce
<1>1. CountInv => CountedOnce
  BY DEF CountInv
<1>2. QED
  BY <1>1, CountInvariant, PTL

(* What a snapshot counts has its score and status committed. *)
THEOREM EvidenceDurable == Spec => []EvidenceIsDurable
<1>1. CountInv => EvidenceIsDurable
  BY DEF CountInv
<1>2. QED
  BY <1>1, CountInvariant, PTL

(* Only an exception or a crash makes a snapshot miss a score. *)
THEOREM OnlyInterruptionsDrop == Spec => []OnlyInterruptedDropped
<1>1. CountInv => OnlyInterruptedDropped
  BY DEF CountInv
<1>2. QED
  BY <1>1, CountInvariant, PTL

-----------------------------------------------------------------------------
(* Cycle rows, leaves and roots *)

BeforeRow == {"score", "status", "snapshot", "cycle"}

(* A step that changes no snapshot, cycle row, leaf or checkpoint keeps the *)
(* records if the worker's memory still agrees with them.                   *)
LEMMA CycleFrame ==
  ASSUME TypeOK, CycleInv, snapshots' = snapshots, cycles' = cycles,
         leaves' = leaves, checkpoints' = checkpoints,
         clock' \in Nat, clock' >= clock,
         written' = IF pc' = "idle" THEN {} ELSE {s \in snapshots : s.at = now'},
         pc' \in BeforeRow => /\ \A c \in cycles : c.at < now'
                             /\ \A k \in checkpoints : k.end < now',
         pc' \in Late => now' < clock',
         pc' = "nodes" => \E c \in cycles : c.at = now'
  PROVE  CycleInv'
<1>1. \A c \in cycles : c.at \in Nat
  BY DEF TypeOK, Cycle
<1>2. \A c \in cycles' : c.at < clock'
  BY <1>1 DEF CycleInv, TypeOK
<1>3. ChainLinked' /\ \A k \in checkpoints : CyclesIn(k.start, k.end)' = CyclesIn(k.start, k.end)
  BY DEF CycleInv, ChainLinked, CyclesIn
<1>4. QED
  BY <1>2, <1>3 DEF CycleInv, BeforeRow, Late

LEMMA CycleFrameIdle ==
  ASSUME TypeOK, CycleInv, snapshots' = snapshots, cycles' = cycles,
         leaves' = leaves, checkpoints' = checkpoints, clock' = clock,
         pc' = "idle", written' = {}
  PROVE  CycleInv'
<1>1. clock' \in Nat /\ clock' >= clock
  BY DEF TypeOK
<1>2. QED
  BY <1>1, CycleFrame DEF BeforeRow, Late

LEMMA CycleFrameSameCycle ==
  ASSUME TypeOK, CycleInv, snapshots' = snapshots, cycles' = cycles,
         leaves' = leaves, checkpoints' = checkpoints,
         clock' \in Nat, clock' >= clock, now' = now, written' = written,
         pc' = "idle" <=> pc = "idle", pc' \in BeforeRow => pc \in BeforeRow,
         pc' \in Late => pc \in Late, pc' = "nodes" => pc = "nodes"
  PROVE  CycleInv'
<1>1. pc' \in Late => now' < clock'
  BY DEF CycleInv, TypeOK, Late
<1>2. pc' \in BeforeRow => /\ \A c \in cycles : c.at < now'
                          /\ \A k \in checkpoints : k.end < now'
  BY DEF CycleInv, BeforeRow
<1>3. pc' = "nodes" => \E c \in cycles : c.at = now'
  BY DEF CycleInv
<1>4. written' = IF pc' = "idle" THEN {} ELSE {s \in snapshots : s.at = now'}
  BY DEF CycleInv
<1>5. QED
  BY <1>1, <1>2, <1>3, <1>4, CycleFrame

LEMMA CycleInit == Init => CycleInv
  BY DEF Init, CycleInv, ChainLinked

(* The time of a cycle is later than that of every row, so it has no        *)
(* snapshot when it starts.                                                 *)
LEMMA CycleStartCycle ==
  ASSUME TypeOK, PayInv, CycleInv, StartCycle
  PROVE  CycleInv'
<1>1. /\ pc = "idle" /\ pc' = "score" /\ now' = clock /\ clock' = clock
      /\ UNCHANGED <<snapshots, cycles, leaves, checkpoints, written>>
  BY DEF StartCycle, db
<1>2. \A s \in snapshots : s.at \in Nat /\ s.at < clock
  BY DEF TypeOK, PayInv, Snapshot
<1>3. written' = {s \in snapshots : s.at = now'}
  BY <1>1, <1>2 DEF CycleInv
<1>4. /\ \A c \in cycles : c.at < now'
      /\ \A k \in checkpoints : k.end < now'
  BY <1>1 DEF CycleInv, PayInv
<1>5. clock' \in Nat /\ clock' >= clock
  BY <1>1 DEF TypeOK
<1>6. QED
  BY <1>1, <1>3, <1>4, <1>5, CycleFrame DEF Late

(* A snapshot is saved before the row of its cycle, the others' rows are of *)
(* other times.                                                             *)
LEMMA CycleSaveSnapshot ==
  ASSUME TypeOK, CycleInv, NEW m \in Models, SaveSnapshot(m)
  PROVE  CycleInv'
<1> DEFINE new == [model |-> m, at |-> now,
                   preds |-> {p \in scored : ModelOf[p] = m}]
<1>1. /\ pc = "snapshot" /\ pc' \in {"snapshot", "cycle"}
      /\ snapshots' = snapshots \cup {new} /\ written' = written \cup {new}
      /\ clock' = After(now) /\ now' = now
      /\ UNCHANGED <<cycles, leaves, checkpoints>>
  BY DEF SaveSnapshot
<1>2. new.at = now
  OBVIOUS
<1> HIDE DEF new
<1>3. clock \in Nat /\ now \in Nat /\ clock' >= clock /\ now < clock' /\ clock' \in Nat
  BY <1>1 DEF TypeOK, After
<1>4. \A c \in cycles : c.at \in Nat /\ c.at < now /\ c.at < clock
  BY <1>1 DEF CycleInv, TypeOK, Cycle
<1>5. written' = {s \in snapshots' : s.at = now}
  BY <1>1, <1>2 DEF CycleInv
<1>6. \A c \in cycles : c.snaps = {s \in snapshots' : s.at = c.at}
  BY <1>1, <1>2, <1>3, <1>4 DEF CycleInv
<1>7. \A c \in cycles : c.at < clock'
  BY <1>3, <1>4
<1>8. /\ ChainLinked'
      /\ \A k \in checkpoints : CyclesIn(k.start, k.end)' = CyclesIn(k.start, k.end)
  BY <1>1 DEF CycleInv, ChainLinked, CyclesIn
<1>9. QED
  BY <1>1, <1>3, <1>4, <1>5, <1>6, <1>7, <1>8 DEF CycleInv

(* The new row is the latest, names the one before it, and lies after every *)
(* period: no root stored earlier misses it.                                *)
LEMMA CycleCommitRow ==
  ASSUME TypeOK, CycleInv, CommitCycleRow
  PROVE  CycleInv'
<1>1. PICK prev : /\ PreviousCycle(prev)
                  /\ cycles' = cycles \cup
                       {[at |-> now, prev |-> prev, snaps |-> written]}
  BY DEF CommitCycleRow
<1> DEFINE new == [at |-> now, prev |-> prev, snaps |-> written]
<1>2. /\ pc = "cycle" /\ pc' = "nodes" /\ now' = now /\ written' = written
      /\ UNCHANGED <<clock, snapshots, leaves, checkpoints>>
  BY DEF CommitCycleRow, work
<1>3. new.at = now /\ new.prev = prev /\ new.snaps = written
  OBVIOUS
<1>4. cycles' = cycles \cup {new}
  BY <1>1
<1> HIDE DEF new
<1>5. now \in Nat /\ now < clock /\ clock \in Nat
  BY <1>2 DEF TypeOK, CycleInv
<1>6. \A c \in cycles : c.at \in Nat /\ c.at < now
  BY <1>2 DEF CycleInv, TypeOK, Cycle
<1>7. \A k \in checkpoints : k.end < now /\ k.end \in Nat /\ k.start \in Int
  BY <1>2 DEF CycleInv, TypeOK, Checkpoint
<1>8. written = {s \in snapshots : s.at = now}
  BY <1>2 DEF CycleInv
<1>9. \A c \in cycles' : c.at < clock'
  BY <1>2, <1>3, <1>4, <1>5 DEF CycleInv
<1>10. \A c, d \in cycles' : c.at = d.at => c = d
  BY <1>3, <1>4, <1>5, <1>6 DEF CycleInv
<1>11. \A c \in cycles' : \A k \in checkpoints' : c.at # k.end
  BY <1>2, <1>3, <1>4, <1>5, <1>7 DEF CycleInv
<1>12. \A c \in cycles' : c.snaps = {s \in snapshots' : s.at = c.at}
  BY <1>2, <1>3, <1>4, <1>8 DEF CycleInv
<1>13. \A s \in leaves' : \E c \in cycles' : s \in c.snaps
  BY <1>2, <1>4 DEF CycleInv
<1>14. \A k \in checkpoints' :
         k.root # {} => k.root = {c.at : c \in CyclesIn(k.start, k.end)}'
  <2> SUFFICES ASSUME NEW k \in checkpoints
               PROVE  CyclesIn(k.start, k.end)' = CyclesIn(k.start, k.end)
    BY <1>2 DEF CycleInv
  <2>1. ~(new.at <= k.end)
    BY <1>3, <1>5, <1>7
  <2>2. QED
    BY <1>4, <2>1 DEF CyclesIn
<1>15. ChainLinked'
  <2> SUFFICES ASSUME NEW c \in cycles'
               PROVE  LET earlier == {d \in cycles' : d.at < c.at}
                      IN  IF earlier = {} THEN c.prev = NoCycle
                          ELSE \E d \in earlier :
                                 c.prev = d.at /\ \A e \in earlier : e.at <= d.at
    BY DEF ChainLinked
  <2> DEFINE earlier == {d \in cycles' : d.at < c.at}
  <2>1. CASE c = new
    <3>1. earlier = cycles
      BY <1>3, <1>4, <1>5, <1>6, <2>1
    <3> HIDE DEF earlier
    <3>2. IF earlier = {} THEN prev = NoCycle
          ELSE \E d \in earlier : prev = d.at /\ \A e \in earlier : e.at <= d.at
      BY <1>1, <3>1 DEF PreviousCycle, IsLatestCycle
    <3>3. QED
      BY <1>3, <2>1, <3>2 DEF earlier
  <2>2. CASE c \in cycles
    <3>1. earlier = {d \in cycles : d.at < c.at}
      BY <1>3, <1>4, <1>5, <1>6, <2>2
    <3>2. QED
      BY <2>2, <3>1 DEF CycleInv, ChainLinked
  <2>3. QED
    BY <1>4, <2>1, <2>2
<1>16. QED
  BY <1>2, <1>3, <1>4, <1>5, <1>8, <1>9, <1>10, <1>11, <1>12, <1>13, <1>14, <1>15
     DEF CycleInv

(* A new period ends after every cycle and has no root yet. *)
LEMMA CycleCreateCheckpoint ==
  ASSUME TypeOK, CycleInv, CreateCheckpoint
  PROVE  CycleInv'
<1>1. PICK start :
        IF SnapshotsIn(start, clock) = {}
            THEN Finish /\ UNCHANGED <<clock, checkpoints>>
            ELSE /\ checkpoints' = checkpoints \cup
                      {[start |-> start, end |-> clock,
                        snaps |-> SnapshotsIn(start, clock), root |-> {}]}
                 /\ clock' = clock + 1
                 /\ pc' = "root"
                 /\ UNCHANGED <<now, written>>
  BY DEF CreateCheckpoint
<1>2. pc = "checkpoint" /\ UNCHANGED <<snapshots, cycles, leaves>>
  BY DEF CreateCheckpoint
<1>3. CASE SnapshotsIn(start, clock) = {}
  BY <1>1, <1>2, <1>3, CycleFrameIdle DEF Finish
<1>4. CASE SnapshotsIn(start, clock) # {}
  <2> DEFINE new == [start |-> start, end |-> clock,
                     snaps |-> SnapshotsIn(start, clock), root |-> {}]
  <2>1. /\ checkpoints' = checkpoints \cup {new} /\ clock' = clock + 1
        /\ pc' = "root" /\ now' = now /\ written' = written
    BY <1>1, <1>4
  <2>2. new.end = clock /\ new.root = {}
    OBVIOUS
  <2> HIDE DEF new
  <2>3. /\ clock \in Nat /\ now \in Nat /\ now < clock
        /\ \A c \in cycles : c.at < clock /\ c.at \in Nat
    BY <1>2 DEF TypeOK, CycleInv, Cycle
  <2>4. \A c \in cycles' : \A k \in checkpoints' : c.at # k.end
    BY <1>2, <2>1, <2>2, <2>3 DEF CycleInv
  <2>5. \A k \in checkpoints' :
          k.root # {} => k.root = {c.at : c \in CyclesIn(k.start, k.end)}'
    BY <1>2, <2>1, <2>2 DEF CycleInv, CyclesIn
  <2>6. \A c \in cycles' : c.at < clock'
    BY <1>2, <2>1, <2>3
  <2>7. ChainLinked' /\ now' < clock'
    BY <1>2, <2>1, <2>3 DEF CycleInv, ChainLinked
  <2>8. written' = {s \in snapshots' : s.at = now'}
    BY <1>2, <2>1 DEF CycleInv
  <2>9. QED
    BY <1>2, <2>1, <2>4, <2>5, <2>6, <2>7, <2>8 DEF CycleInv
<1>5. QED
  BY <1>3, <1>4

(* The root is set to the cycles of the period. *)
LEMMA CycleCommitRoot ==
  ASSUME TypeOK, CycleInv, CommitRoot
  PROVE  CycleInv'
<1>1. PICK k \in checkpoints :
        checkpoints' = (checkpoints \ {k}) \cup
          {[k EXCEPT !.root = {c.at : c \in CyclesIn(k.start, k.end)}]}
  BY DEF CommitRoot
<1> DEFINE new == [k EXCEPT !.root = {c.at : c \in CyclesIn(k.start, k.end)}]
<1>2. /\ pc' = "idle" /\ written' = {}
      /\ UNCHANGED <<clock, snapshots, cycles, leaves>>
  BY DEF CommitRoot, Finish
<1>3. /\ new.start = k.start /\ new.end = k.end
      /\ new.root = {c.at : c \in CyclesIn(k.start, k.end)}
  BY DEF TypeOK, Checkpoint
<1>4. checkpoints' = (checkpoints \ {k}) \cup {new}
  BY <1>1
<1> HIDE DEF new
<1>5. \A j \in checkpoints' : CyclesIn(j.start, j.end)' = CyclesIn(j.start, j.end)
  BY <1>2 DEF CyclesIn
<1>6. \A j \in checkpoints' :
        j.root # {} => j.root = {c.at : c \in CyclesIn(j.start, j.end)}'
  <2> SUFFICES ASSUME NEW j \in checkpoints', j.root # {}
               PROVE  j.root = {c.at : c \in CyclesIn(j.start, j.end)}
    BY <1>5
  <2>1. CASE j = new
    BY <1>3, <2>1
  <2>2. CASE j \in checkpoints
    BY <2>2 DEF CycleInv
  <2>3. QED
    BY <1>4, <2>1, <2>2
<1>7. \A c \in cycles' : \A j \in checkpoints' : c.at # j.end
  BY <1>2, <1>3, <1>4 DEF CycleInv
<1>8. ChainLinked'
  BY <1>2 DEF CycleInv, ChainLinked
<1>9. QED
  BY <1>2, <1>6, <1>7, <1>8 DEF CycleInv

LEMMA CycleSaveLeaf ==
  ASSUME TypeOK, CycleInv, NEW s \in written, SaveLeaf(s)
  PROVE  CycleInv'
<1>1. /\ pc = "nodes" /\ pc' \in {"nodes", "board"} /\ leaves' = leaves \cup {s}
      /\ UNCHANGED <<clock, snapshots, cycles, checkpoints, now, written>>
  BY DEF SaveLeaf, work
<1>2. PICK c \in cycles : c.at = now
  BY <1>1 DEF CycleInv
<1>3. s \in c.snaps
  BY <1>1, <1>2 DEF CycleInv
<1>4. ChainLinked' /\ \A k \in checkpoints : CyclesIn(k.start, k.end)' = CyclesIn(k.start, k.end)
  BY <1>1 DEF CycleInv, ChainLinked, CyclesIn
<1>5. QED
  BY <1>1, <1>2, <1>3, <1>4 DEF CycleInv

LEMMA CycleStep == TypeOK /\ TypeOK' /\ PayInv /\ CycleInv /\ [Next]_vars => CycleInv'
<1> SUFFICES ASSUME TypeOK, TypeOK', PayInv, CycleInv, [Next]_vars
             PROVE  CycleInv'
  OBVIOUS
<1> USE DEF db, work, history
<1>0. clock \in Nat /\ clock' \in Nat /\ (clock' = clock => clock' >= clock)
  BY DEF TypeOK
<1>1. CASE Tick
  BY <1>0, <1>1, CycleFrameSameCycle DEF Tick
<1>2. ASSUME NEW p \in Preds, PredictionDue(p) PROVE CycleInv'
  BY <1>0, <1>2, CycleFrameSameCycle DEF PredictionDue
<1>3. ASSUME NEW p \in Preds, TruthArrives(p) PROVE CycleInv'
  BY <1>0, <1>3, CycleFrameSameCycle DEF TruthArrives
<1>4. CASE StartCycle
  BY <1>4, CycleStartCycle
<1>5. CASE StartCycleRollsBack
  BY <1>0, <1>5, CycleFrameSameCycle DEF StartCycleRollsBack
<1>6. ASSUME NEW p \in Preds, SkipUnresolved(p) PROVE CycleInv'
  BY <1>0, <1>6, CycleFrameSameCycle DEF SkipUnresolved
<1>7. ASSUME NEW p \in Preds, SaveScore(p) PROVE CycleInv'
  BY <1>0, <1>7, CycleFrameSameCycle DEF SaveScore, BeforeRow, Late
<1>8. ASSUME NEW p \in Preds, ScoringRaises(p) PROVE CycleInv'
  BY <1>8, CycleFrameIdle DEF ScoringRaises, Abandon
<1>9. ASSUME NEW p \in Preds, SaveStatus(p) PROVE CycleInv'
  BY <1>0, <1>9, CycleFrameSameCycle DEF SaveStatus, BeforeRow, Late
<1>10. CASE FinishScoring
  <2>1. CASE scored = {}
    BY <1>10, <2>1, CycleFrameIdle DEF FinishScoring, Finish
  <2>2. CASE scored # {}
    BY <1>0, <1>10, <2>2, CycleFrameSameCycle DEF FinishScoring, BeforeRow, Late
  <2>3. QED
    BY <2>1, <2>2
<1>11. ASSUME NEW m \in Models, SaveSnapshot(m) PROVE CycleInv'
  BY <1>11, CycleSaveSnapshot
<1>12. CASE CommitCycleRow
  BY <1>12, CycleCommitRow
<1>13. ASSUME NEW s \in written, SaveLeaf(s) PROVE CycleInv'
  BY <1>13, CycleSaveLeaf
<1>14. CASE RebuildLeaderboard
  BY <1>0, <1>14, CycleFrameSameCycle DEF RebuildLeaderboard, BeforeRow, Late
<1>15. CASE MaybeCheckpoint
  <2>1. CASE Finish
    BY <1>15, <2>1, CycleFrameIdle DEF MaybeCheckpoint, Finish
  <2>2. CASE pc' = "checkpoint" /\ UNCHANGED work
    BY <1>0, <1>15, <2>2, CycleFrameSameCycle DEF MaybeCheckpoint, BeforeRow, Late
  <2>3. QED
    BY <1>15, <2>1, <2>2 DEF MaybeCheckpoint
<1>16. CASE CreateCheckpoint
  BY <1>16, CycleCreateCheckpoint
<1>17. CASE CommitRoot
  BY <1>17, CycleCommitRoot
<1>18. CASE CommitCycleFails
  BY <1>0, <1>18, CycleFrameSameCycle DEF CommitCycleFails, BeforeRow, Late
<1>19. CASE CreateCheckpointFails
  BY <1>19, CycleFrameIdle DEF CreateCheckpointFails, Finish
<1>20. CASE CommitRootFails
  BY <1>20, CycleFrameIdle DEF CommitRootFails, Finish
<1>21. CASE Abort
  BY <1>21, CycleFrameIdle DEF Abort, Abandon
<1>22. CASE Crash
  BY <1>22, CycleFrameIdle DEF Crash, Abandon
<1>23. CASE UNCHANGED vars
  BY <1>0, <1>23, CycleFrameSameCycle DEF vars
<1>24. QED
  BY <1>1, <1>2, <1>3, <1>4, <1>5, <1>6, <1>7, <1>8, <1>9, <1>10, <1>11,
     <1>12, <1>13, <1>14, <1>15, <1>16, <1>17, <1>18, <1>19, <1>20, <1>21,
     <1>22, <1>23
     DEF Next, Environment, Worker, Faults

LEMMA CycleInvariant == Spec => []CycleInv
<1>1. Spec => []TypeOK
  BY TypeCorrect
<1>2. Spec => []PayInv
  BY PayInvariant
<1>3. QED
  BY <1>1, <1>2, CycleInit, CycleStep, PTL DEF Spec

-----------------------------------------------------------------------------
(* The distance between two checkpoints' cycles *)

WithSnapshot == {"cycle", "nodes", "board", "due", "checkpoint"}

(* A step that changes no snapshot and no checkpoint keeps the distances if *)
(* what the worker remembers still bounds what was paid.                    *)
LEMMA SpacingFrame ==
  ASSUME SpacingInv, snapshots' = snapshots, checkpoints' = checkpoints,
         pc' # "idle" => \A s \in snapshots : s.at <= now',
         pc' \in WithSnapshot => /\ \E s \in snapshots : s.at = now'
                                /\ \A k \in checkpoints : k.end < now',
         pc' = "checkpoint" =>
           \A k \in checkpoints : \A t \in k.snaps : now' - t.at >= Interval,
         pc' # "root" /\ lastCheckpoint' # Unset =>
           \A k \in checkpoints : \A t \in k.snaps : t.at <= lastCheckpoint'
  PROVE  SpacingInv'
  BY DEF SpacingInv, WithSnapshot

LEMMA SpacingFrameIdle ==
  ASSUME SpacingInv, snapshots' = snapshots, checkpoints' = checkpoints,
         pc' = "idle", pc # "root",
         lastCheckpoint' = lastCheckpoint \/ lastCheckpoint' = Unset
  PROVE  SpacingInv'
  BY SpacingFrame DEF SpacingInv, WithSnapshot

LEMMA SpacingFrameSameCycle ==
  ASSUME SpacingInv, snapshots' = snapshots, checkpoints' = checkpoints,
         now' = now, lastCheckpoint' = lastCheckpoint,
         pc' # "idle" => pc # "idle", pc' \in WithSnapshot => pc \in WithSnapshot,
         pc' = "checkpoint" => pc = "checkpoint", pc = "root" <=> pc' = "root"
  PROVE  SpacingInv'
<1>1. /\ pc' # "idle" => \A s \in snapshots : s.at <= now'
      /\ pc' \in WithSnapshot => /\ \E s \in snapshots : s.at = now'
                                /\ \A k \in checkpoints : k.end < now'
      /\ pc' = "checkpoint" =>
           \A k \in checkpoints : \A t \in k.snaps : now' - t.at >= Interval
      /\ pc' # "root" /\ lastCheckpoint' # Unset =>
           \A k \in checkpoints : \A t \in k.snaps : t.at <= lastCheckpoint'
  BY DEF SpacingInv, WithSnapshot
<1>2. QED
  BY <1>1, SpacingFrame

LEMMA SpacingInit == Init => SpacingInv
  BY DEF Init, SpacingInv

LEMMA SpacingStartCycle ==
  ASSUME TypeOK, PayInv, SpacingInv, StartCycle
  PROVE  SpacingInv'
<1>1. /\ pc = "idle" /\ pc' = "score" /\ now' = clock
      /\ UNCHANGED <<snapshots, checkpoints, lastCheckpoint>>
  BY DEF StartCycle, db
<1>2. \A s \in snapshots : s.at <= now'
  BY <1>1 DEF TypeOK, PayInv, Snapshot
<1>3. pc' # "root" /\ lastCheckpoint' # Unset =>
        \A k \in checkpoints : \A t \in k.snaps : t.at <= lastCheckpoint'
  BY <1>1 DEF SpacingInv
<1>4. QED
  BY <1>1, <1>2, <1>3, SpacingFrame DEF WithSnapshot

LEMMA SpacingSaveSnapshot ==
  ASSUME TypeOK, CycleInv, SpacingInv, NEW m \in Models, SaveSnapshot(m)
  PROVE  SpacingInv'
<1> DEFINE new == [model |-> m, at |-> now,
                   preds |-> {p \in scored : ModelOf[p] = m}]
<1>1. /\ pc = "snapshot" /\ pc' \in {"snapshot", "cycle"} /\ now' = now
      /\ snapshots' = snapshots \cup {new}
      /\ UNCHANGED <<checkpoints, lastCheckpoint>>
  BY DEF SaveSnapshot
<1>2. new.at = now
  OBVIOUS
<1> HIDE DEF new
<1>3. \A s \in snapshots' : s.at <= now
  BY <1>1, <1>2 DEF SpacingInv, TypeOK
<1>4. (\E s \in snapshots' : s.at = now) /\ \A k \in checkpoints : k.end < now
  BY <1>1, <1>2 DEF CycleInv
<1>5. QED
  BY <1>1, <1>3, <1>4 DEF SpacingInv

(* The last checkpoint's time, remembered or read, is no earlier than       *)
(* anything paid for.                                                       *)
LEMMA LastBoundsPaid ==
  ASSUME TypeOK, PayInv, SpacingInv, pc # "root", NEW last, KnownLast(last), last # Unset
  PROVE  \A k \in checkpoints : \A t \in k.snaps : t.at <= last
<1>1. CASE lastCheckpoint # Unset /\ last = lastCheckpoint
  BY <1>1 DEF SpacingInv
<1>2. CASE \E k \in checkpoints : IsLatestCheckpoint(k) /\ last = k.end
  <2>1. PICK j \in checkpoints : IsLatestCheckpoint(j) /\ last = j.end
    BY <1>2
  <2> SUFFICES ASSUME NEW k \in checkpoints, NEW t \in k.snaps
               PROVE  t.at <= last
    OBVIOUS
  <2>2. k.end <= j.end /\ k.end \in Nat /\ j.end \in Nat
    BY <2>1 DEF IsLatestCheckpoint, TypeOK, Checkpoint
  <2>3. t.at <= k.end /\ t.at \in Nat
    BY DEF PayInv, SnapshotsIn, TypeOK, Snapshot
  <2>4. QED
    BY <2>1, <2>2, <2>3
<1>3. QED
  BY <1>1, <1>2 DEF KnownLast

LEMMA SpacingMaybeCheckpoint ==
  ASSUME TypeOK, PayInv, SpacingInv, MaybeCheckpoint
  PROVE  SpacingInv'
<1>1. PICK last \in {Unset, lastCheckpoint} \cup {k.end : k \in checkpoints} :
        /\ KnownLast(last)
        /\ lastCheckpoint' = last
        /\ IF last # Unset /\ now - last < Interval
             THEN Finish
             ELSE pc' = "checkpoint" /\ UNCHANGED work
  BY DEF MaybeCheckpoint
<1>2. pc = "due" /\ UNCHANGED <<snapshots, checkpoints>>
  BY DEF MaybeCheckpoint, db
<1>3. last \in Nat \cup {Unset} /\ now \in Nat
  BY DEF TypeOK, Checkpoint
<1>4. last # Unset => \A k \in checkpoints : \A t \in k.snaps : t.at <= last
  BY <1>1, <1>2, LastBoundsPaid
<1>5. CASE last # Unset /\ now - last < Interval
  <2>1. pc' = "idle"
    BY <1>1, <1>5 DEF Finish
  <2>2. QED
    BY <1>1, <1>2, <1>4, <2>1, SpacingFrame DEF WithSnapshot
<1>6. CASE ~(last # Unset /\ now - last < Interval)
  <2>1. pc' = "checkpoint" /\ now' = now
    BY <1>1, <1>6 DEF work
  <2>2. last = Unset => checkpoints = {}
    BY <1>1 DEF KnownLast, Unset, TypeOK, Checkpoint
  <2>3. last # Unset => \A k \in checkpoints : \A t \in k.snaps : now - t.at >= Interval
    <3> SUFFICES ASSUME last # Unset, NEW k \in checkpoints, NEW t \in k.snaps
                 PROVE  now - t.at >= Interval
      OBVIOUS
    <3>1. t.at \in Nat /\ t.at <= last
      BY <1>4 DEF TypeOK, Checkpoint, Snapshot
    <3>2. QED
      BY <1>3, <1>6, <3>1, ScoreCycleAssumption
  <2>4. /\ \A s \in snapshots : s.at <= now'
        /\ \E s \in snapshots : s.at = now'
        /\ \A k \in checkpoints : k.end < now'
    BY <1>2, <2>1 DEF SpacingInv
  <2>5. QED
    BY <1>1, <1>2, <1>4, <2>1, <2>2, <2>3, <2>4, SpacingFrame
<1>7. QED
  BY <1>5, <1>6

(* The new checkpoint pays for the snapshot of the cycle that creates it.   *)
LEMMA SpacingCreateCheckpoint ==
  ASSUME TypeOK, PayInv, SpacingInv, CreateCheckpoint
  PROVE  SpacingInv'
<1>1. PICK start \in {clock - Interval} \cup {k.end : k \in checkpoints} :
        /\ PeriodStart(start)
        /\ IF SnapshotsIn(start, clock) = {}
            THEN Finish /\ UNCHANGED <<clock, checkpoints>>
            ELSE /\ checkpoints' = checkpoints \cup
                      {[start |-> start, end |-> clock,
                        snaps |-> SnapshotsIn(start, clock), root |-> {}]}
                 /\ pc' = "root"
                 /\ UNCHANGED now
  BY DEF CreateCheckpoint
<1>2. pc = "checkpoint" /\ UNCHANGED <<snapshots, lastCheckpoint>>
  BY DEF CreateCheckpoint
<1>3. CASE SnapshotsIn(start, clock) = {}
  BY <1>1, <1>2, <1>3, SpacingFrameIdle DEF Finish
<1>4. CASE SnapshotsIn(start, clock) # {}
  <2> DEFINE new == [start |-> start, end |-> clock,
                     snaps |-> SnapshotsIn(start, clock), root |-> {}]
  <2>1. checkpoints' = checkpoints \cup {new} /\ pc' = "root" /\ now' = now
    BY <1>1, <1>4
  <2>2. new.end = clock /\ new.snaps = SnapshotsIn(start, clock)
    OBVIOUS
  <2> HIDE DEF new
  <2>3. /\ clock \in Nat /\ now \in Nat /\ now <= clock
        /\ \A k \in checkpoints : k.end < clock /\ k.end \in Nat
    BY <1>2 DEF TypeOK, PayInv, Checkpoint
  <2>4. \A j, k \in checkpoints' : j.end = k.end => j = k
    BY <2>1, <2>2, <2>3 DEF SpacingInv
  <2>5. PICK s \in snapshots : s.at = now
    BY <1>2 DEF SpacingInv, WithSnapshot
  <2>6. checkpoints # {} => s \in new.snaps
    <3>1. checkpoints # {} => start <= now
      BY <1>1, <1>2, <2>3 DEF PeriodStart, SpacingInv
    <3>2. QED
      BY <2>2, <2>3, <2>5, <3>1 DEF SnapshotsIn
  <2>7. \A j, k \in checkpoints' : j.end < k.end =>
          \E u \in k.snaps : \A t \in j.snaps : u.at - t.at >= Interval
    <3> SUFFICES ASSUME NEW j \in checkpoints', NEW k \in checkpoints', j.end < k.end
                 PROVE  \E u \in k.snaps : \A t \in j.snaps : u.at - t.at >= Interval
      OBVIOUS
    <3>1. j \in checkpoints
      BY <2>1, <2>2, <2>3
    <3>2. CASE k \in checkpoints
      BY <3>1, <3>2 DEF SpacingInv
    <3>3. CASE k = new
      <4>1. \A t \in j.snaps : s.at - t.at >= Interval
        BY <1>2, <2>5, <3>1 DEF SpacingInv
      <4>2. QED
        BY <2>6, <3>1, <3>3, <4>1
    <3>4. QED
      BY <2>1, <3>2, <3>3
  <2>8. \A t \in snapshots' : t.at <= now'
    BY <1>2, <2>1 DEF SpacingInv
  <2>9. QED
    BY <2>1, <2>4, <2>7, <2>8 DEF SpacingInv
<1>5. QED
  BY <1>3, <1>4

(* When the checkpoint is finished the worker remembers the cycle's time,   *)
(* which no stored snapshot is later than.                                  *)
LEMMA SpacingCommitRoot ==
  ASSUME TypeOK, SpacingInv, PayInv, CommitRoot
  PROVE  SpacingInv'
<1>1. PICK k \in checkpoints :
        checkpoints' = (checkpoints \ {k}) \cup
          {[k EXCEPT !.root = {c.at : c \in CyclesIn(k.start, k.end)}]}
  BY DEF CommitRoot
<1> DEFINE new == [k EXCEPT !.root = {c.at : c \in CyclesIn(k.start, k.end)}]
<1>2. /\ pc = "root" /\ pc' = "idle" /\ lastCheckpoint' = now /\ snapshots' = snapshots
  BY DEF CommitRoot, Finish
<1>3. new.end = k.end /\ new.snaps = k.snaps
  BY DEF TypeOK, Checkpoint
<1>4. checkpoints' = (checkpoints \ {k}) \cup {new}
  BY <1>1
<1> HIDE DEF new
<1>5. \A i, j \in checkpoints' : i.end = j.end => i = j
  BY <1>3, <1>4 DEF SpacingInv
<1>6. \A j \in checkpoints' : \E i \in checkpoints : j.end = i.end /\ j.snaps = i.snaps
  BY <1>3, <1>4
<1>7. \A i, j \in checkpoints' : i.end < j.end =>
        \E s \in j.snaps : \A t \in i.snaps : s.at - t.at >= Interval
  BY <1>6 DEF SpacingInv
<1>8. \A j \in checkpoints' : \A t \in j.snaps : t.at <= now
  BY <1>2, <1>6 DEF SpacingInv, PayInv, SnapshotsIn
<1>9. QED
  BY <1>2, <1>5, <1>7, <1>8 DEF SpacingInv

LEMMA SpacingStep ==
  TypeOK /\ PayInv /\ CycleInv /\ SpacingInv /\ [Next]_vars => SpacingInv'
<1> SUFFICES ASSUME TypeOK, PayInv, CycleInv, SpacingInv, [Next]_vars
             PROVE  SpacingInv'
  OBVIOUS
<1> USE DEF db, work, history
<1>1. CASE Tick
  BY <1>1, SpacingFrameSameCycle DEF Tick
<1>2. ASSUME NEW p \in Preds, PredictionDue(p) PROVE SpacingInv'
  BY <1>2, SpacingFrameSameCycle DEF PredictionDue
<1>3. ASSUME NEW p \in Preds, TruthArrives(p) PROVE SpacingInv'
  BY <1>3, SpacingFrameSameCycle DEF TruthArrives
<1>4. CASE StartCycle
  BY <1>4, SpacingStartCycle
<1>5. CASE StartCycleRollsBack
  BY <1>5, SpacingFrameSameCycle DEF StartCycleRollsBack
<1>6. ASSUME NEW p \in Preds, SkipUnresolved(p) PROVE SpacingInv'
  BY <1>6, SpacingFrameSameCycle DEF SkipUnresolved
<1>7. ASSUME NEW p \in Preds, SaveScore(p) PROVE SpacingInv'
  BY <1>7, SpacingFrameSameCycle DEF SaveScore, WithSnapshot
<1>8. ASSUME NEW p \in Preds, ScoringRaises(p) PROVE SpacingInv'
  BY <1>8, SpacingFrameIdle DEF ScoringRaises, Abandon
<1>9. ASSUME NEW p \in Preds, SaveStatus(p) PROVE SpacingInv'
  BY <1>9, SpacingFrameSameCycle DEF SaveStatus, WithSnapshot
<1>10. CASE FinishScoring
  <2>1. CASE scored = {}
    BY <1>10, <2>1, SpacingFrameIdle DEF FinishScoring, Finish
  <2>2. CASE scored # {}
    BY <1>10, <2>2, SpacingFrameSameCycle DEF FinishScoring, WithSnapshot
  <2>3. QED
    BY <2>1, <2>2
<1>11. ASSUME NEW m \in Models, SaveSnapshot(m) PROVE SpacingInv'
  BY <1>11, SpacingSaveSnapshot
<1>12. CASE CommitCycleRow
  BY <1>12, SpacingFrameSameCycle DEF CommitCycleRow, WithSnapshot
<1>13. ASSUME NEW s \in written, SaveLeaf(s) PROVE SpacingInv'
  BY <1>13, SpacingFrameSameCycle DEF SaveLeaf, WithSnapshot
<1>14. CASE RebuildLeaderboard
  BY <1>14, SpacingFrameSameCycle DEF RebuildLeaderboard, WithSnapshot
<1>15. CASE MaybeCheckpoint
  BY <1>15, SpacingMaybeCheckpoint
<1>16. CASE CreateCheckpoint
  BY <1>16, SpacingCreateCheckpoint
<1>17. CASE CommitRoot
  BY <1>17, SpacingCommitRoot
<1>18. CASE CommitCycleFails
  BY <1>18, SpacingFrameSameCycle DEF CommitCycleFails, WithSnapshot
<1>19. CASE CreateCheckpointFails
  BY <1>19, SpacingFrameIdle DEF CreateCheckpointFails, Finish
<1>20. CASE CommitRootFails
  <2>1. /\ pc = "root" /\ pc' = "idle" /\ lastCheckpoint' = now
        /\ UNCHANGED <<snapshots, checkpoints>>
    BY <1>20 DEF CommitRootFails, Finish
  <2>2. \A k \in checkpoints : \A t \in k.snaps : t.at <= lastCheckpoint'
    BY <2>1 DEF SpacingInv, PayInv, SnapshotsIn
  <2>3. QED
    BY <2>1, <2>2, SpacingFrame DEF WithSnapshot
<1>21. CASE Abort
  BY <1>21, SpacingFrameIdle DEF Abort, Abandon
<1>22. CASE Crash
  BY <1>22, SpacingFrame DEF Crash, Abandon, WithSnapshot
<1>23. CASE UNCHANGED vars
  BY <1>23, SpacingFrameSameCycle DEF vars
<1>24. QED
  BY <1>1, <1>2, <1>3, <1>4, <1>5, <1>6, <1>7, <1>8, <1>9, <1>10, <1>11,
     <1>12, <1>13, <1>14, <1>15, <1>16, <1>17, <1>18, <1>19, <1>20, <1>21,
     <1>22, <1>23
     DEF Next, Environment, Worker, Faults

LEMMA SpacingInvariant == Spec => []SpacingInv
<1>1. Spec => []TypeOK /\ []PayInv /\ []CycleInv
  BY TypeCorrect, PayInvariant, CycleInvariant, PTL
<1>2. QED
  BY <1>1, SpacingInit, SpacingStep, PTL DEF Spec

(* Two roots share a cycle only if it lies at the end both periods share.   *)
LEMMA RootsDisjoint ==
  ASSUME TypeOK, PayInv, CycleInv,
         NEW j \in checkpoints, NEW k \in checkpoints, j.end # k.end
  PROVE  j.root \cap k.root = {}
<1>1. ASSUME NEW i \in checkpoints, NEW l \in checkpoints, i.end < l.end,
             NEW t \in i.root, t \in l.root
      PROVE  FALSE
  <2>1. t \in {c.at : c \in CyclesIn(i.start, i.end)} /\ t \in {c.at : c \in CyclesIn(l.start, l.end)}
    BY <1>1 DEF CycleInv
  <2>2. PICK c \in cycles : t = c.at /\ c.at <= i.end /\ l.start <= c.at
    BY <2>1 DEF CyclesIn
  <2>3. i.end <= l.start /\ c.at # i.end
    BY <1>1 DEF PayInv, CycleInv
  <2>4. c.at \in Nat /\ i.end \in Nat /\ l.start \in Int
    BY DEF TypeOK, Cycle, Checkpoint
  <2>5. QED
    BY <2>2, <2>3, <2>4
<1>2. j.end \in Nat /\ k.end \in Nat
  BY DEF TypeOK, Checkpoint
<1>3. QED
  BY <1>1, <1>2

(* What the worker has committed to agrees with what it has stored, however *)
(* its commits, checkpoints and restarts interleave.                        *)
THEOREM RecordsAlwaysAgree == Spec => []RecordsAgree
<1>1. TypeOK /\ PayInv /\ CycleInv /\ SpacingInv => RecordsAgree
  BY RootsDisjoint DEF CycleInv, SpacingInv, RecordsAgree
<1>2. QED
  BY <1>1, TypeCorrect, PayInvariant, CycleInvariant, SpacingInvariant, PTL

-----------------------------------------------------------------------------
(* The pipeline implements the ledger *)

(* Predictions that a checkpoint rewards. *)
Rewarded == {p \in Preds : \E k \in checkpoints : \E s \in k.snaps : p \in s.preds}

LEMMA AtMostOne ==
  ASSUME NEW S, \A x, y \in S : x = y
  PROVE  Cardinality(S) = IF S = {} THEN 0 ELSE 1
<1>1. CASE S = {}
  BY <1>1, FS_EmptySet
<1>2. CASE S # {}
  <2>1. PICK x : S = {x}
    BY <1>2
  <2>2. QED
    BY <2>1, FS_Singleton
<1>3. QED
  BY <1>1, <1>2

(* At most one snapshot counts a prediction and at most one checkpoint pays *)
(* for it, so the numbers of rows the ledger sees are 0 or 1.               *)
LEMMA RowsAreFlags ==
  ASSUME TypeOK, CountInv, PayInv, SpacingInv, NEW p \in Preds
  PROVE  /\ Cardinality({s \in snapshots : p \in s.preds}) = IF p \in Counted THEN 1 ELSE 0
         /\ Cardinality({k \in checkpoints : \E s \in k.snaps : p \in s.preds})
              = IF p \in Rewarded THEN 1 ELSE 0
<1> DEFINE holding == {s \in snapshots : p \in s.preds}
           paying  == {k \in checkpoints : \E s \in k.snaps : p \in s.preds}
<1>1. \A s, t \in holding : s = t
  BY DEF CountInv, CountedOnce
<1>2. \A j, k \in paying : j = k
  <2> SUFFICES ASSUME NEW j \in paying, NEW k \in paying
               PROVE  j = k
    OBVIOUS
  <2>1. PICK s \in j.snaps, t \in k.snaps : p \in s.preds /\ p \in t.preds
    OBVIOUS
  <2>2. s \in holding /\ t \in holding
    BY <2>1 DEF PayInv, SnapshotsIn
  <2>3. s = t
    BY <1>1, <2>2
  <2>4. j.end = k.end
    BY <2>3, PeriodsPayOnce DEF PaidOnce
  <2>5. QED
    BY <2>4 DEF SpacingInv
<1>3. holding = {} <=> p \notin Counted
  BY DEF Counted
<1>4. paying = {} <=> p \notin Rewarded
  BY DEF Rewarded
<1>5. Cardinality(holding) = IF p \in Counted THEN 1 ELSE 0
  <2> HIDE DEF holding
  <2>1. QED
    BY <1>1, <1>3, AtMostOne
<1>6. Cardinality(paying) = IF p \in Rewarded THEN 1 ELSE 0
  <2> HIDE DEF paying
  <2>1. QED
    BY <1>2, <1>4, AtMostOne
<1>7. QED
  BY <1>5, <1>6

(* What the ledger sees of a state of the pipeline. *)
ScoredSet == {p \in Preds : status[p] = "SCORED"}
Counts    == [p \in Preds |-> Cardinality({s \in snapshots : p \in s.preds})]
Payments  == [p \in Preds |->
               Cardinality({k \in checkpoints : \E s \in k.snaps : p \in s.preds})]

RowsOK == TypeOK /\ CountInv /\ PayInv /\ SpacingInv

FlagsOnly ==
  /\ Counts = [p \in Preds |-> IF p \in Counted THEN 1 ELSE 0]
  /\ Payments = [p \in Preds |-> IF p \in Rewarded THEN 1 ELSE 0]

LEMMA LedgerView == RowsOK => FlagsOnly
  BY RowsAreFlags DEF RowsOK, FlagsOnly, Counts, Payments

LEMMA LedgerViews == ASSUME RowsOK, RowsOK' PROVE FlagsOnly /\ FlagsOnly'
  BY LedgerView, PTL

LEMMA LedgerStarts == Init => TheLedger!LedgerInit
<1> SUFFICES ASSUME Init
             PROVE  TheLedger!LedgerInit
  OBVIOUS
<1>1. \A p \in Preds : status[p] # "SCORED"
  BY DEF Init
<1>2. \A p \in Preds : {s \in snapshots : p \in s.preds} = {}
  BY DEF Init
<1>3. \A p \in Preds : {k \in checkpoints : \E s \in k.snaps : p \in s.preds} = {}
  BY DEF Init
<1>4. Cardinality({}) = 0
  BY FS_EmptySet
<1>5. QED
  BY <1>1, <1>2, <1>3, <1>4 DEF TheLedger!LedgerInit

(* Saving the SCORED status is the ledger's Score. *)
LEMMA LedgerSaveStatus ==
  ASSUME RowsOK, NEW p \in Preds, SaveStatus(p)
  PROVE  TheLedger!Score(p)
<1>1. /\ status' = [status EXCEPT ![p] = "SCORED"]
      /\ UNCHANGED <<snapshots, checkpoints>> /\ status[p] = "PENDING"
  BY DEF SaveStatus, RowsOK, CountInv, IsFirst
<1>2. ScoredSet' = ScoredSet \cup {p} /\ p \notin ScoredSet
  BY <1>1 DEF RowsOK, TypeOK, ScoredSet
<1>3. Counts' = Counts /\ Payments' = Payments
  BY <1>1 DEF Counts, Payments
<1>4. QED
  BY <1>2, <1>3 DEF TheLedger!Score, ScoredSet, Counts, Payments

(* Saving a model's snapshot is one Count of what it scored in the cycle.   *)
LEMMA LedgerSaveSnapshot ==
  ASSUME RowsOK, RowsOK', NEW m \in Models, SaveSnapshot(m)
  PROVE  \E S \in SUBSET Preds : TheLedger!Count(S)
<1> DEFINE mine == {p \in scored : ModelOf[p] = m}
           new  == [model |-> m, at |-> now, preds |-> mine]
<1>1. /\ pc = "snapshot" /\ m \in unsaved /\ snapshots' = snapshots \cup {new}
      /\ UNCHANGED <<status, checkpoints>>
  BY DEF SaveSnapshot
<1>2. new.preds = mine /\ mine \subseteq Preds
  BY DEF RowsOK, TypeOK
<1>3. mine \cap Counted = {} /\ mine \subseteq ScoredSet
  BY <1>1 DEF RowsOK, CountInv, ScoredSet, TypeOK
<1>4. Counted' = Counted \cup mine
  <2>1. Counted' = UNION {s.preds : s \in snapshots \cup {new}}
    BY <1>1 DEF Counted
  <2> HIDE DEF new, mine
  <2>2. QED
    BY <1>2, <2>1 DEF Counted
<1> HIDE DEF new, mine
<1>5. Rewarded' = Rewarded /\ ScoredSet' = ScoredSet
  BY <1>1 DEF Rewarded, ScoredSet
<1>6. /\ Counts' = [p \in Preds |-> IF p \in mine THEN 1 ELSE Counts[p]]
      /\ \A p \in mine : Counts[p] = 0
  BY <1>2, <1>3, <1>4, LedgerViews DEF FlagsOnly
<1>7. Payments' = Payments
  BY <1>1 DEF Payments
<1>8. TheLedger!Count(mine)
  BY <1>3, <1>5, <1>6, <1>7 DEF TheLedger!Count, ScoredSet, Counts, Payments
<1>9. QED
  BY <1>2, <1>8

(* Saving a checkpoint is one Pay for everything its snapshots count: no    *)
(* earlier checkpoint holds any of them.                                    *)
LEMMA LedgerCreateCheckpoint ==
  ASSUME RowsOK, RowsOK', CreateCheckpoint, checkpoints' # checkpoints
  PROVE  \E S \in SUBSET Preds : TheLedger!Pay(S)
<1>1. PICK start :
        checkpoints' = checkpoints \cup
          {[start |-> start, end |-> clock,
            snaps |-> SnapshotsIn(start, clock), root |-> {}]}
  BY DEF CreateCheckpoint
<1> DEFINE new  == [start |-> start, end |-> clock,
                    snaps |-> SnapshotsIn(start, clock), root |-> {}]
           paid == {p \in Preds : \E s \in new.snaps : p \in s.preds}
<1>2. UNCHANGED <<status, snapshots>>
  BY DEF CreateCheckpoint
<1>3. new \in checkpoints' /\ checkpoints \subseteq checkpoints' /\ new.end = clock
  BY <1>1
<1>4. Rewarded' = Rewarded \cup paid
  <2> HIDE DEF new
  <2>1. checkpoints' = checkpoints \cup {new}
    BY <1>1 DEF new
  <2>2. QED
    BY <2>1 DEF Rewarded
<1>5. new.snaps \subseteq snapshots
  BY DEF SnapshotsIn
<1> HIDE DEF new
<1>6. paid \subseteq Counted
  BY <1>5 DEF Counted
<1>7. paid \cap Rewarded = {}
  <2> SUFFICES ASSUME NEW p \in paid, p \in Rewarded
               PROVE  FALSE
    OBVIOUS
  <2>1. PICK s \in new.snaps : p \in s.preds
    OBVIOUS
  <2>2. PICK k \in checkpoints : \E t \in k.snaps : p \in t.preds
    BY DEF Rewarded
  <2>3. PICK t \in k.snaps : p \in t.preds
    BY <2>2
  <2>4. t \in snapshots /\ k.end < clock
    BY DEF RowsOK, PayInv, SnapshotsIn
  <2>5. s = t
    BY <1>5, <2>1, <2>3, <2>4 DEF RowsOK, CountInv, CountedOnce
  <2>6. PaidOnce'
    BY PeriodsPayOnce, PTL DEF RowsOK
  <2>7. k.end # new.end
    BY <1>3, <2>4 DEF RowsOK, TypeOK, Checkpoint
  <2>8. QED
    BY <1>3, <2>1, <2>3, <2>5, <2>6, <2>7 DEF PaidOnce
<1> HIDE DEF paid
<1>8. Counts' = Counts /\ ScoredSet' = ScoredSet
  BY <1>2 DEF Counts, ScoredSet
<1>9. /\ Payments' = [p \in Preds |-> IF p \in paid THEN 1 ELSE Payments[p]]
      /\ \A p \in paid : p \in Preds => Counts[p] = 1 /\ Payments[p] = 0
  BY <1>4, <1>6, <1>7, LedgerViews DEF FlagsOnly
<1>10. paid \subseteq Preds
  BY DEF paid
<1>11. TheLedger!Pay(paid)
  BY <1>8, <1>9, <1>10 DEF TheLedger!Pay, ScoredSet, Counts, Payments
<1>12. QED
  BY <1>10, <1>11

(* The root changes no payment. *)
LEMMA LedgerCommitRoot ==
  ASSUME RowsOK, RowsOK', CommitRoot
  PROVE  Rewarded' = Rewarded
<1>1. PICK k \in checkpoints :
        checkpoints' = (checkpoints \ {k}) \cup
          {[k EXCEPT !.root = {c.at : c \in CyclesIn(k.start, k.end)}]}
  BY DEF CommitRoot
<1> DEFINE new == [k EXCEPT !.root = {c.at : c \in CyclesIn(k.start, k.end)}]
<1>2. new.snaps = k.snaps
  BY DEF RowsOK, TypeOK, Checkpoint
<1>3. checkpoints' = (checkpoints \ {k}) \cup {new}
  BY <1>1
<1> HIDE DEF new
<1>4. QED
  BY <1>2, <1>3 DEF Rewarded

(* A step that scores nothing and keeps the snapshots and what is rewarded  *)
(* is invisible to the ledger.                                              *)
LEMMA LedgerStutter ==
  ASSUME RowsOK, RowsOK', ScoredSet' = ScoredSet, snapshots' = snapshots,
         Rewarded' = Rewarded
  PROVE  UNCHANGED TheLedger!ledgerVars
<1>1. Counted' = Counted
  BY DEF Counted
<1>2. Counts' = Counts /\ Payments' = Payments
  BY <1>1, LedgerViews DEF FlagsOnly
<1>3. QED
  BY <1>2 DEF TheLedger!ledgerVars, ScoredSet, Counts, Payments

LEMMA LedgerFrame ==
  ASSUME RowsOK, RowsOK', status' = status, snapshots' = snapshots,
         checkpoints' = checkpoints
  PROVE  UNCHANGED TheLedger!ledgerVars
  BY LedgerStutter DEF ScoredSet, Rewarded

LEMMA LedgerStep ==
  RowsOK /\ RowsOK' /\ [Next]_vars => [TheLedger!LedgerNext]_(TheLedger!ledgerVars)
<1> SUFFICES ASSUME RowsOK, RowsOK', [Next]_vars
             PROVE  TheLedger!LedgerNext \/ UNCHANGED TheLedger!ledgerVars
  OBVIOUS
<1> DEFINE Goal == TheLedger!LedgerNext \/ UNCHANGED TheLedger!ledgerVars
<1> USE DEF db, work, history
<1>1. CASE Tick
  BY <1>1, LedgerFrame DEF Tick
<1>2. ASSUME NEW p \in Preds, PredictionDue(p) PROVE Goal
  <2>1. ScoredSet' = ScoredSet
    BY <1>2 DEF PredictionDue, ScoredSet, RowsOK, TypeOK
  <2>2. Rewarded' = Rewarded
    BY <1>2 DEF PredictionDue, Rewarded
  <2>3. QED
    BY <1>2, <2>1, <2>2, LedgerStutter DEF PredictionDue
<1>3. ASSUME NEW p \in Preds, TruthArrives(p) PROVE Goal
  BY <1>3, LedgerFrame DEF TruthArrives
<1>4. CASE StartCycle
  BY <1>4, LedgerFrame DEF StartCycle
<1>5. CASE StartCycleRollsBack
  BY <1>5, LedgerFrame DEF StartCycleRollsBack
<1>6. ASSUME NEW p \in Preds, SkipUnresolved(p) PROVE Goal
  BY <1>6, LedgerFrame DEF SkipUnresolved
<1>7. ASSUME NEW p \in Preds, SaveScore(p) PROVE Goal
  BY <1>7, LedgerFrame DEF SaveScore
<1>8. ASSUME NEW p \in Preds, ScoringRaises(p) PROVE Goal
  BY <1>8, LedgerFrame DEF ScoringRaises
<1>9. ASSUME NEW p \in Preds, SaveStatus(p) PROVE Goal
  BY <1>9, LedgerSaveStatus DEF TheLedger!LedgerNext
<1>10. CASE FinishScoring
  BY <1>10, LedgerFrame DEF FinishScoring
<1>11. ASSUME NEW m \in Models, SaveSnapshot(m) PROVE Goal
  BY <1>11, LedgerSaveSnapshot DEF TheLedger!LedgerNext
<1>12. CASE CommitCycleRow
  BY <1>12, LedgerFrame DEF CommitCycleRow
<1>13. ASSUME NEW s \in written, SaveLeaf(s) PROVE Goal
  BY <1>13, LedgerFrame DEF SaveLeaf
<1>14. CASE RebuildLeaderboard
  BY <1>14, LedgerFrame DEF RebuildLeaderboard
<1>15. CASE MaybeCheckpoint
  BY <1>15, LedgerFrame DEF MaybeCheckpoint
<1>16. CASE CreateCheckpoint
  <2>1. CASE checkpoints' = checkpoints
    BY <1>16, <2>1, LedgerFrame DEF CreateCheckpoint
  <2>2. CASE checkpoints' # checkpoints
    BY <1>16, <2>2, LedgerCreateCheckpoint DEF TheLedger!LedgerNext
  <2>3. QED
    BY <2>1, <2>2
<1>17. CASE CommitRoot
  <2>1. ScoredSet' = ScoredSet /\ snapshots' = snapshots
    BY <1>17 DEF CommitRoot, ScoredSet
  <2>2. QED
    BY <1>17, <2>1, LedgerCommitRoot, LedgerStutter
<1>18. CASE CommitCycleFails
  BY <1>18, LedgerFrame DEF CommitCycleFails
<1>19. CASE CreateCheckpointFails
  BY <1>19, LedgerFrame DEF CreateCheckpointFails
<1>20. CASE CommitRootFails
  BY <1>20, LedgerFrame DEF CommitRootFails
<1>21. CASE Abort
  BY <1>21, LedgerFrame DEF Abort
<1>22. CASE Crash
  BY <1>22, LedgerFrame DEF Crash
<1>23. CASE UNCHANGED vars
  BY <1>23, LedgerFrame DEF vars
<1>24. QED
  BY <1>1, <1>2, <1>3, <1>4, <1>5, <1>6, <1>7, <1>8, <1>9, <1>10, <1>11,
     <1>12, <1>13, <1>14, <1>15, <1>16, <1>17, <1>18, <1>19, <1>20, <1>21,
     <1>22, <1>23
     DEF Next, Environment, Worker, Faults

(* Whatever crashes, fails or is retried, the score-worker's database keeps *)
(* the ledger's promise to each prediction: scored, then counted, then paid *)
(* for, each at most once and in this order.                                *)
THEOREM PipelineImplementsLedger == Spec => ImplementsLedger
<1>1. Spec => []RowsOK
  BY TypeCorrect, CountInvariant, PayInvariant, SpacingInvariant, PTL DEF RowsOK
<1>2. QED
  BY <1>1, LedgerStarts, LedgerStep, PTL DEF Spec, ImplementsLedger, TheLedger!LedgerSpec
=============================================================================
