------------------------ MODULE PredictWorker_proofs ------------------------
(***************************************************************************)
(* Theorems of PredictWorker: for any models, configurations, intervals,    *)
(* sizes of window and page, and number of faults.                         *)
(***************************************************************************)
EXTENDS PredictWorker, FiniteSetTheorems, TLAPS

-----------------------------------------------------------------------------
(* The inductive invariants, one per theorem *)

(* The provider and the table hold finitely many records, so that a page   *)
(* and the window loaded at start have a size.                             *)
FinInv == IsFiniteSet(published) /\ IsFiniteSet(stored)

(* A batch is in hand in a tick only, of models that are registered, and    *)
(* its input is saved before it; when it is being saved, no model waits for *)
(* its row unless the session has failed.                                  *)
RefInv ==
  /\ known \subseteq models \cup dirty
  /\ pc \notin Ticking => batch = {}
  /\ \A p \in batch : p.model \in known /\ p.at = now
  /\ (pc = "call" \/ batch # {}) => \E i \in inputs : i.at = now
  /\ pc = "save" /\ session = "ok" => dirty = {}
  /\ RefsExist

Answers(p, r, m) == p.model = m /\ p.config = r.config /\ p.at = r.at

(* What a call asked for is in the table, or in the hands of its tick.     *)
RunInv ==
  \A r \in runs : \/ r.at \in torn
                  \/ \A m \in r.models :
                       \/ \E p \in predictions : Answers(p, r, m)
                       \/ /\ pc \in Ticking /\ now = r.at
                          /\ \E p \in batch : Answers(p, r, m)

(* The process started before its tick, and a configuration that is due    *)
(* has waited since its last call by this process.                         *)
SchedInv ==
  /\ \A s \in starts : s < clock
  /\ pc \in Ticking => now < clock /\ \A s \in starts : s < now
  /\ pc # "down" => starts # {}
  /\ pc \notin Ticking => todo = {}
  /\ \A c \in todo : nextRun[c] <= now
  /\ \A r \in runs : /\ r.at < clock
                     /\ pc \in Ticking => r.at <= now
                     /\ \/ \E s \in starts : r.at < s
                        \/ pc = "down"
                        \/ r.at + PredictInterval[r.config] <= nextRun[r.config]
  /\ ScheduleKept

(* With a session that works, what the window and the record in hand hold  *)
(* is stored.                                                              *)
InputInv ==
  /\ session = "ok" => \A k \in DOMAIN window : Recorded(window[k])
  /\ pc \in {"mark", "advance"} => Recorded(record)
  /\ pc = "begin" /\ session = "ok" => Recorded(record)
  /\ InputsStored

-----------------------------------------------------------------------------
(* The window *)

(* What start-up loads fits into the window: the k-th of the loaded records *)
(* has k records up to it.                                                 *)
LEMMA LoadedFits ==
  ASSUME NEW T, IsFiniteSet(T), T \subseteq Nat, NEW n \in Nat,
         NEW w \in [1..Cardinality(Earliest(T, n)) -> Earliest(T, n)],
         \A i, j \in DOMAIN w : i < j => w[i] < w[j]
  PROVE  w \in Seq(Nat) /\ Len(w) <= n
<1> DEFINE L == Earliest(T, n)
           k == Cardinality(L)
<1>1. L \subseteq T /\ IsFiniteSet(L) /\ k \in Nat
  BY FS_Subset, FS_CardinalityType DEF Earliest
<1>2. w \in Seq(Nat) /\ Len(w) = k
  <2>1. w \in [1..k -> Nat]
    BY <1>1
  <2> HIDE DEF k
  <2> QED BY <1>1, <2>1
<1>3. ASSUME k # 0
      PROVE  k <= n
  <2> DEFINE U == {u \in T : u <= w[k]}
  <2>1. w[k] \in L
    BY <1>1, <1>3
  <2>2. IsFiniteSet(U) /\ Cardinality(U) \in Nat /\ Cardinality(U) <= n
    BY <2>1, FS_Subset, FS_CardinalityType DEF Earliest
  <2>3. w \in Injection(1..k, U)
    <3>1. \A i \in 1..k : w[i] \in T /\ w[i] \in Nat
      BY <1>1
    <3>2. \A i \in 1..k : w[i] \in U
      <4>1. \A i \in 1..k : i = k \/ w[i] < w[k]
        BY <1>1, <1>3
      <4>2. w[k] \in Nat
        BY <2>1, <1>1
      <4>3. \A i \in 1..k : w[i] <= w[k]
        BY <4>1, <4>2, <3>1
      <4> QED BY <4>3, <3>1
    <3>3. \A i, j \in 1..k : w[i] = w[j] => i = j
      <4>1. \A i, j \in 1..k : i < j \/ i = j \/ j < i
        BY <1>1
      <4>2. \A i, j \in 1..k : i < j => w[i] < w[j]
        OBVIOUS
      <4>3. \A i, j \in 1..k : i < j => w[i] # w[j]
        BY <4>2, <3>1
      <4> QED BY <4>1, <4>3
    <3>4. w \in [1..k -> U]
      BY <3>2
    <3> QED BY <3>3, <3>4 DEF Injection, IsInjective
  <2>4. Cardinality(1..k) <= Cardinality(U)
    BY <2>2, <2>3, FS_Injection
  <2>5. Cardinality(1..k) = k
    BY <1>1, <1>3, FS_Interval
  <2> QED BY <1>1, <2>2, <2>4, <2>5
<1>4. k <= n
  BY <1>1, <1>3
<1> QED BY <1>2, <1>4

(* Appending keeps the window's size, and its records but the oldest. *)
LEMMA AppendedIs ==
  ASSUME NEW w \in Seq(Nat), Len(w) <= WindowSize, NEW t \in Nat
  PROVE  /\ Appended(w, t) \in Seq(Nat)
         /\ Len(Appended(w, t)) <= WindowSize
         /\ \A k \in DOMAIN Appended(w, t) :
              \/ Appended(w, t)[k] = t
              \/ \E j \in DOMAIN w : Appended(w, t)[k] = w[j]
<1> USE PredictWorkerAssumption
<1>1. CASE Len(w) < WindowSize
  BY <1>1 DEF Appended
<1>2. CASE ~(Len(w) < WindowSize)
  <2>1. Len(w) = WindowSize /\ w # <<>>
    BY <1>2
  <2> DEFINE v == Tail(w)
  <2>2. v \in Seq(Nat) /\ Len(v) = Len(w) - 1
    BY <2>1
  <2>3. \A k \in 1..Len(v) : v[k] = w[k + 1] /\ k + 1 \in DOMAIN w
    BY <2>1, <2>2
  <2>4. Appended(w, t) = Append(v, t)
    BY <1>2 DEF Appended
  <2> HIDE DEF v
  <2>5. /\ Append(v, t) \in Seq(Nat) /\ Len(Append(v, t)) = Len(v) + 1
        /\ \A k \in 1..(Len(v) + 1) : k = Len(v) + 1 \/ k \in 1..Len(v)
    BY <2>2
  <2>6. /\ Append(v, t)[Len(v) + 1] = t
        /\ \A k \in 1..Len(v) : Append(v, t)[k] = v[k]
    BY <2>2
  <2>7. DOMAIN Append(v, t) = 1..(Len(v) + 1)
    BY <2>5
  <2>8. Len(Append(v, t)) = WindowSize
    BY <2>1, <2>2, <2>5
  <2>9. ASSUME NEW k \in 1..(Len(v) + 1)
        PROVE  Append(v, t)[k] = t \/ \E j \in DOMAIN w : Append(v, t)[k] = w[j]
    <3>1. CASE k = Len(v) + 1
      BY <3>1, <2>6
    <3>2. CASE k \in 1..Len(v)
      BY <3>2, <2>3, <2>6
    <3> QED BY <3>1, <3>2, <2>5
  <2> QED BY <2>4, <2>5, <2>7, <2>8, <2>9
<1> QED BY <1>1, <1>2

-----------------------------------------------------------------------------
(* Types *)

LEMMA FinStep ==
  ASSUME TypeOK, FinInv, [Next]_vars
  PROVE  FinInv'
<1> USE FinInv DEF FinInv
<1>1. CASE Publish
  BY <1>1, FS_AddElement DEF Publish, tables
<1>2. CASE Start
  BY <1>2 DEF Start, tables
<1>3. CASE Backfill
  <2>1. CASE UNCHANGED stored
    BY <1>3, <2>1 DEF Backfill, feed
  <2>2. CASE ~UNCHANGED stored
    <3> DEFINE page == Earliest({r \in published : BackfillStart <= r}, BackfillLimit)
    <3>1. stored' = stored \cup page /\ UNCHANGED published
      BY <1>3, <2>2 DEF Backfill, feed
    <3>2. IsFiniteSet(page)
      BY FS_Subset DEF Earliest
    <3> QED BY <3>1, <3>2, FS_Union
  <2> QED BY <2>1, <2>2
<1>4. CASE BackfillMark
  BY <1>4 DEF BackfillMark, feed
<1>5. CASE Deliver
  BY <1>5 DEF Deliver, IsLatest, feed, tables
<1>6. CASE AppendRecord
  BY <1>6, FS_AddElement DEF AppendRecord, feed
<1>7. CASE SetWatermark
  BY <1>7 DEF SetWatermark, feed
<1>8. CASE SinkFails
  BY <1>8 DEF SinkFails, CallFails, Fault, feed, tables
<1>9. CASE BeginTick
  BY <1>9 DEF BeginTick, tables
<1>10. ASSUME NEW a \in SUBSET Models, FeedUpdate(a)
      PROVE  FinInv'
  BY <1>10 DEF FeedUpdate, Register, feed, tables
<1>11. ASSUME NEW a \in SUBSET Models, NoConfigs(a)
      PROVE  FinInv'
  BY <1>11 DEF NoConfigs, CallFails, Fault, Register, EndTick, feed, tables
<1>12. CASE SaveInput
  BY <1>12 DEF SaveInput, feed, ingested
<1>13. ASSUME NEW a \in SUBSET Models, NEW c \in Configs, CallModels(c, a)
      PROVE  FinInv'
  BY <1>13 DEF CallModels, InTurn, Register, BatchOf, feed, tables
<1>14. CASE TickRaises
  BY <1>14 DEF TickRaises, Fault, AbortTick, EndTick, feed, tables
<1>15. CASE EndConfigs
  BY <1>15 DEF EndConfigs, EndTick, feed, tables
<1>16. ASSUME NEW m \in Models, FlushModel(m)
      PROVE  FinInv'
  BY <1>16 DEF FlushModel, feed, ingested
<1>17. CASE FlushFails
  BY <1>17 DEF FlushFails, CallFails, Fault, feed, tables
<1>18. CASE FlushDone
  BY <1>18 DEF FlushDone, feed, tables
<1>19. ASSUME NEW p \in batch, SavePrediction(p)
      PROVE  FinInv'
  BY <1>19 DEF SavePrediction, SavedNext, EndTick, feed, ingested
<1>20. CASE SaveFails
  BY <1>20 DEF SaveFails, CallFails, Fault, AbortTick, EndTick, feed, tables
<1>21. CASE Prune
  BY <1>21, FS_Subset DEF Prune, feed
<1>22. CASE PruneFails
  BY <1>22 DEF PruneFails, RetentionRuns, CallFails, Fault, feed, tables
<1>23. CASE Crash
  BY <1>23 DEF Crash, Fault, feed, tables
<1>24. CASE UNCHANGED vars
  BY <1>24 DEF vars, feed, tables, ingested
<1> QED BY <1>1, <1>2, <1>3, <1>4, <1>5, <1>6, <1>7, <1>8, <1>9, <1>10, <1>11,
           <1>12, <1>13, <1>14, <1>15, <1>16, <1>17, <1>18, <1>19, <1>20, <1>21,
           <1>22, <1>23, <1>24 DEF Next

(* What a call adds to the batch and the history. *)
LEMMA CallTypes ==
  ASSUME TypeOK, NEW a \in SUBSET Models, NEW c \in Configs, CallModels(c, a)
  PROVE  batch' \subseteq Prediction /\ runs' \subseteq Run
<1>1. known \subseteq Models /\ known' \in SUBSET Models /\ now \in Nat
  BY DEF TypeOK, CallModels, Register
<1>2. ASSUME NEW m \in known \cup a
      PROVE  [model |-> m, config |-> c, at |-> now, answered |-> m \in a] \in Prediction
  <2>1. (m \in a) \in BOOLEAN
    OBVIOUS
  <2>2. m \in Models
    BY <1>1, <1>2
  <2>3. \A b \in BOOLEAN : [model |-> m, config |-> c, at |-> now, answered |-> b] \in Prediction
    BY <1>1, <2>2 DEF Prediction
  <2> QED BY <2>1, <2>3, Zenon
<1>3. BatchOf(c, a) \subseteq Prediction
  BY <1>2 DEF BatchOf
<1>4. [config |-> c, at |-> now, models |-> known'] \in Run
  BY <1>1 DEF Run
<1>5. batch \subseteq Prediction /\ runs \subseteq Run
  BY DEF TypeOK
<1> QED BY <1>3, <1>4, <1>5 DEF CallModels

LEMMA TypeStep ==
  ASSUME TypeOK, FinInv, [Next]_vars
  PROVE  TypeOK'
<1> USE PredictWorkerAssumption DEF TypeOK, PCs, Ticking
<1>1. CASE Publish
  <2>1. published' \subseteq Nat /\ clock' \in Nat
    BY <1>1 DEF Publish
  <2> QED BY <1>1, <2>1 DEF Publish, tables, tick, registry, history
<1>2. CASE Start
  <2>1. window' \in Seq(Nat) /\ Len(window') <= WindowSize
    BY <1>2, LoadedFits DEF Start, FinInv
  <2> QED BY <1>2, <2>1 DEF Start, tables, tick, registry
<1>3. CASE Backfill
  BY <1>3 DEF Backfill, BackfillStart, Earliest, IsLatest, feed, registry, history
<1>4. CASE BackfillMark
  BY <1>4 DEF BackfillMark, feed, tick, registry, history
<1>5. CASE Deliver
  BY <1>5 DEF Deliver, IsLatest, feed, tables, registry, history
<1>6. CASE AppendRecord
  BY <1>6 DEF AppendRecord, feed, tick, registry, history
<1>7. CASE SetWatermark
  BY <1>7 DEF SetWatermark, feed, tick, registry, history
<1>8. CASE SinkFails
  BY <1>8 DEF SinkFails, CallFails, Fault, feed, tables, tick, registry
<1>9. CASE BeginTick
  <2>1. window' \in Seq(Nat) /\ Len(window') <= WindowSize
    BY <1>9, AppendedIs DEF BeginTick
  <2> QED BY <1>9, <2>1 DEF BeginTick, tables, registry, history
<1>10. ASSUME NEW a \in SUBSET Models, FeedUpdate(a)
      PROVE  TypeOK'
  BY <1>10 DEF FeedUpdate, Register, feed, tables, history
<1>11. ASSUME NEW a \in SUBSET Models, NoConfigs(a)
      PROVE  TypeOK'
  BY <1>11 DEF NoConfigs, CallFails, Fault, Register, EndTick, feed, tables
<1>12. CASE SaveInput
  BY <1>12 DEF SaveInput, Input, feed, ingested, tick, registry, history
<1>13. ASSUME NEW a \in SUBSET Models, NEW c \in Configs, CallModels(c, a)
      PROVE  TypeOK'
  <2>1. batch' \subseteq Prediction /\ runs' \subseteq Run
    BY <1>13, CallTypes
  <2>2. known' \subseteq Models /\ dirty' \subseteq known'
    BY <1>13 DEF CallModels, Register
  <2>3. nextRun' \in [Configs -> Nat]
    <3>1. now + PredictInterval[c] \in Nat /\ nextRun \in [Configs -> Nat]
      OBVIOUS
    <3>2. nextRun' = [nextRun EXCEPT ![c] = now + PredictInterval[c]]
      BY <1>13 DEF CallModels
    <3> QED BY <3>1, <3>2
  <2>4. /\ pc' = "configs" /\ todo' \subseteq Configs
        /\ UNCHANGED <<clock, published, stored, watermark, models, inputs, predictions,
                       session, window, seen, record, now, torn, starts, faults>>
    BY <1>13 DEF CallModels, feed, tables
  <2> QED BY <2>1, <2>2, <2>3, <2>4
<1>14. CASE TickRaises
  <2>1. /\ pc' = "listen" /\ todo' = {} /\ batch' = {}
        /\ torn' = torn \cup {now} /\ faults' = faults + 1
    BY <1>14 DEF TickRaises, AbortTick, EndTick, Fault
  <2>2. UNCHANGED <<clock, published, stored, watermark, models, inputs, predictions, session,
                    window, seen, record, now, known, dirty, nextRun, runs, starts>>
    BY <1>14 DEF TickRaises, AbortTick, EndTick, feed, tables, registry
  <2> QED BY <2>1, <2>2
<1>15. CASE EndConfigs
  BY <1>15 DEF EndConfigs, EndTick, feed, tables, tick, registry, history
<1>16. ASSUME NEW m \in Models, FlushModel(m)
      PROVE  TypeOK'
  BY <1>16 DEF FlushModel, feed, ingested, tick, history
<1>17. CASE FlushFails
  BY <1>17 DEF FlushFails, CallFails, Fault, feed, tables, tick, registry
<1>18. CASE FlushDone
  BY <1>18 DEF FlushDone, feed, tables, tick, registry, history
<1>19. ASSUME NEW p \in batch, SavePrediction(p)
      PROVE  TypeOK'
  BY <1>19 DEF SavePrediction, SavedNext, EndTick, feed, ingested, registry, history
<1>20. CASE SaveFails
  BY <1>20 DEF SaveFails, CallFails, Fault, AbortTick, EndTick, feed, tables,
     registry
<1>21. CASE Prune
  BY <1>21 DEF Prune, RetentionRuns, feed, tick, registry, history
<1>22. CASE PruneFails
  BY <1>22 DEF PruneFails, RetentionRuns, CallFails, Fault, feed, tables,
     tick, registry
<1>23. CASE Crash
  BY <1>23 DEF Crash, Fault, feed, tables
<1>24. CASE UNCHANGED vars
  BY <1>24 DEF vars, feed, ingested, tables, tick, registry, history
<1> QED BY <1>1, <1>2, <1>3, <1>4, <1>5, <1>6, <1>7, <1>8, <1>9, <1>10, <1>11,
           <1>12, <1>13, <1>14, <1>15, <1>16, <1>17, <1>18, <1>19, <1>20, <1>21,
           <1>22, <1>23, <1>24 DEF Next

-----------------------------------------------------------------------------
(* References *)

LEMMA RefStep ==
  ASSUME TypeOK, RefInv, [Next]_vars
  PROVE  RefInv'
<1> USE DEF TypeOK, RefInv, RefsExist, Prediction, Input, Ticking, PCs
<1>1. CASE Publish
  BY <1>1 DEF Publish, tables, tick, registry, history
<1>2. CASE Start
  BY <1>2 DEF Start, tables, tick, registry
<1>3. CASE Backfill
  BY <1>3 DEF Backfill, BackfillStart, Earliest, IsLatest, feed, registry, history
<1>4. CASE BackfillMark
  BY <1>4 DEF BackfillMark, feed, tick, registry, history
<1>5. CASE Deliver
  BY <1>5 DEF Deliver, IsLatest, feed, tables, registry, history
<1>6. CASE AppendRecord
  BY <1>6 DEF AppendRecord, feed, tick, registry, history
<1>7. CASE SetWatermark
  BY <1>7 DEF SetWatermark, feed, tick, registry, history
<1>8. CASE SinkFails
  BY <1>8 DEF SinkFails, CallFails, Fault, feed, tables, tick, registry
<1>9. CASE BeginTick
  BY <1>9 DEF BeginTick, tables, registry, history
<1>10. ASSUME NEW a \in SUBSET Models, FeedUpdate(a)
      PROVE  RefInv'
  BY <1>10 DEF FeedUpdate, Register, feed, tables, history
<1>11. ASSUME NEW a \in SUBSET Models, NoConfigs(a)
      PROVE  RefInv'
  BY <1>11 DEF NoConfigs, CallFails, Fault, Register, EndTick, feed, tables
<1>12. CASE SaveInput
  <2> DEFINE i == [at |-> now, window |-> window]
  <2>1. i \in inputs' /\ i.at = now /\ inputs \subseteq inputs'
    BY <1>12 DEF SaveInput
  <2>2. \A p \in predictions : p.model \in models /\ \E j \in inputs' : j.at = p.at
    BY <2>1
  <2> HIDE DEF i
  <2> QED BY <1>12, <2>1, <2>2 DEF SaveInput, ingested, tick, registry
<1>13. ASSUME NEW a \in SUBSET Models, NEW c \in Configs, CallModels(c, a)
      PROVE  RefInv'
  BY <1>13 DEF CallModels, InTurn, Register, BatchOf, feed, tables
<1>14. CASE TickRaises
  BY <1>14 DEF TickRaises, Fault, AbortTick, EndTick, feed, tables, registry
<1>15. CASE EndConfigs
  BY <1>15 DEF EndConfigs, EndTick, feed, tables, tick, registry, history
<1>16. ASSUME NEW m \in Models, FlushModel(m)
      PROVE  RefInv'
  BY <1>16 DEF FlushModel, feed, ingested, tick, history
<1>17. CASE FlushFails
  BY <1>17 DEF FlushFails, CallFails, Fault, feed, tables, tick, registry
<1>18. CASE FlushDone
  BY <1>18 DEF FlushDone, feed, tables, tick, registry, history
<1>19. ASSUME NEW p \in batch, SavePrediction(p)
      PROVE  RefInv'
  BY <1>19 DEF SavePrediction, SavedNext, EndTick, feed, ingested, registry, history
<1>20. CASE SaveFails
  BY <1>20 DEF SaveFails, CallFails, Fault, AbortTick, EndTick, feed, tables,
     registry
<1>21. CASE Prune
  BY <1>21 DEF Prune, RetentionRuns, feed, tick, registry, history
<1>22. CASE PruneFails
  BY <1>22 DEF PruneFails, RetentionRuns, CallFails, Fault, feed, tables,
     tick, registry
<1>23. CASE Crash
  BY <1>23 DEF Crash, Fault, feed, tables
<1>24. CASE UNCHANGED vars
  BY <1>24 DEF vars, feed, ingested, tables, tick, registry, history
<1> QED BY <1>1, <1>2, <1>3, <1>4, <1>5, <1>6, <1>7, <1>8, <1>9, <1>10, <1>11,
           <1>12, <1>13, <1>14, <1>15, <1>16, <1>17, <1>18, <1>19, <1>20, <1>21,
           <1>22, <1>23, <1>24 DEF Next

-----------------------------------------------------------------------------
(* Calls *)

(* A step that leaves the runs, the rows and the batch alone and does not  *)
(* end a tick.                                                             *)
LEMMA RunQuiet ==
  ASSUME RunInv, UNCHANGED <<runs, torn, predictions, now, batch>>,
         pc \in Ticking => pc' \in Ticking
  PROVE  RunInv'
BY DEF RunInv, Answers

(* A call puts a prediction of every model known after it into the batch.  *)
LEMMA CalledInHand ==
  ASSUME TypeOK, NEW a \in SUBSET Models, NEW c \in Configs, CallModels(c, a)
  PROVE  \A m \in known' : \E p \in batch' :
            Answers(p, [config |-> c, at |-> now, models |-> known'], m)
<1> DEFINE r == [config |-> c, at |-> now, models |-> known']
<1>1. ASSUME NEW m \in known'
      PROVE  \E p \in batch' : Answers(p, r, m)
  <2> DEFINE p == [model |-> m, config |-> c, at |-> now, answered |-> m \in a]
  <2>1. m \in known \cup a
    BY <1>1 DEF CallModels, Register
  <2>2. p \in batch'
    BY <2>1 DEF CallModels, BatchOf
  <2> QED BY <2>2 DEF Answers
<1> QED BY <1>1

LEMMA RunStep ==
  ASSUME TypeOK, RefInv, RunInv, [Next]_vars
  PROVE  RunInv'
<1>1. CASE Publish
  BY <1>1, RunQuiet DEF Publish, Ticking, tables, tick, registry, history
<1>2. CASE Start
  BY <1>2, RunQuiet DEF Start, Ticking, tables, tick, registry
<1>3. CASE Backfill
  BY <1>3, RunQuiet DEF Backfill, BackfillStart, Earliest, IsLatest, Ticking,
     feed, registry, history
<1>4. CASE BackfillMark
  BY <1>4, RunQuiet DEF BackfillMark, Ticking, feed, tick, registry, history
<1>5. CASE Deliver
  BY <1>5, RunQuiet DEF Deliver, IsLatest, Ticking, feed, tables, registry, history
<1>6. CASE AppendRecord
  BY <1>6, RunQuiet DEF AppendRecord, Ticking, feed, tick, registry, history
<1>7. CASE SetWatermark
  BY <1>7, RunQuiet DEF SetWatermark, Ticking, feed, tick, registry, history
<1>8. CASE SinkFails
  BY <1>8, RunQuiet DEF SinkFails, CallFails, Fault, Ticking, feed, tables,
     tick, registry
<1>9. CASE BeginTick
  BY <1>9 DEF BeginTick, RunInv, RefInv, Answers, Ticking, tables, registry, history
<1>10. ASSUME NEW a \in SUBSET Models, FeedUpdate(a)
      PROVE  RunInv'
  BY <1>10, RunQuiet DEF FeedUpdate, Register, Ticking, feed, tables, history
<1>11. ASSUME NEW a \in SUBSET Models, NoConfigs(a)
      PROVE  RunInv'
  BY <1>11 DEF NoConfigs, CallFails, Fault, Register, EndTick, RunInv, RefInv,
     Answers, Ticking, feed, tables
<1>12. CASE SaveInput
  BY <1>12, RunQuiet DEF SaveInput, Ticking, feed, ingested, tick, registry, history
<1>13. ASSUME NEW a \in SUBSET Models, NEW c \in Configs, CallModels(c, a)
      PROVE  RunInv'
  <2> DEFINE r == [config |-> c, at |-> now, models |-> known']
  <2>1. runs' = runs \cup {r} /\ batch \subseteq batch' /\ UNCHANGED <<torn, predictions, now>>
    BY <1>13 DEF CallModels, BatchOf, tables
  <2>2. pc \in Ticking /\ pc' \in Ticking
    BY <1>13 DEF CallModels, Ticking
  <2>3. \A m \in r.models : \E p \in batch' : Answers(p, r, m)
    BY <1>13, CalledInHand
  <2>4. r.at = now
    OBVIOUS
  <2> HIDE DEF r
  <2> QED BY <2>1, <2>2, <2>3, <2>4 DEF RunInv, Answers
<1>14. CASE TickRaises
  BY <1>14 DEF TickRaises, Fault, AbortTick, EndTick, RunInv, RefInv, Answers,
     Ticking, feed, tables, registry
<1>15. CASE EndConfigs
  BY <1>15 DEF EndConfigs, EndTick, RunInv, RefInv, Answers, Ticking, feed,
     tables, tick, registry, history
<1>16. ASSUME NEW m \in Models, FlushModel(m)
      PROVE  RunInv'
  BY <1>16, RunQuiet DEF FlushModel, Ticking, feed, ingested, tick, history
<1>17. CASE FlushFails
  BY <1>17, RunQuiet DEF FlushFails, CallFails, Fault, Ticking, feed, tables,
     tick, registry
<1>18. CASE FlushDone
  BY <1>18, RunQuiet DEF FlushDone, Ticking, feed, tables, tick, registry, history
<1>19. ASSUME NEW p \in batch, SavePrediction(p)
      PROVE  RunInv'
  BY <1>19 DEF SavePrediction, SavedNext, EndTick, RunInv, RefInv, Answers,
     Ticking, feed, ingested, registry, history
<1>20. CASE SaveFails
  BY <1>20 DEF SaveFails, CallFails, Fault, AbortTick, EndTick, RunInv,
     RefInv, Answers, Ticking, feed, tables, registry
<1>21. CASE Prune
  BY <1>21, RunQuiet DEF Prune, RetentionRuns, Ticking, feed, tick, registry,
     history
<1>22. CASE PruneFails
  BY <1>22, RunQuiet DEF PruneFails, RetentionRuns, CallFails, Fault, Ticking,
     feed, tables, tick, registry
<1>23. CASE Crash
  BY <1>23 DEF Crash, Fault, RunInv, RefInv, Answers, Ticking, feed, tables
<1>24. CASE UNCHANGED vars
  BY <1>24, RunQuiet DEF vars, tables, tick, history
<1> QED BY <1>1, <1>2, <1>3, <1>4, <1>5, <1>6, <1>7, <1>8, <1>9, <1>10, <1>11,
           <1>12, <1>13, <1>14, <1>15, <1>16, <1>17, <1>18, <1>19, <1>20, <1>21,
           <1>22, <1>23, <1>24 DEF Next
LEMMA SchedStep ==
  ASSUME TypeOK, SchedInv, [Next]_vars
  PROVE  SchedInv'
<1> USE PredictWorkerAssumption DEF TypeOK, SchedInv, ScheduleKept, Run, Ticking, PCs
<1>1. CASE Publish
  BY <1>1 DEF Publish, tables, tick, registry, history
<1>2. CASE Start
  BY <1>2 DEF Start, tables, tick, registry
<1>3. CASE Backfill
  BY <1>3 DEF Backfill, BackfillStart, Earliest, IsLatest, feed, registry, history
<1>4. CASE BackfillMark
  BY <1>4 DEF BackfillMark, feed, tick, registry, history
<1>5. CASE Deliver
  BY <1>5 DEF Deliver, IsLatest, feed, tables, registry, history
<1>6. CASE AppendRecord
  BY <1>6 DEF AppendRecord, feed, tick, registry, history
<1>7. CASE SetWatermark
  BY <1>7 DEF SetWatermark, feed, tick, registry, history
<1>8. CASE SinkFails
  BY <1>8 DEF SinkFails, CallFails, Fault, feed, tables, tick, registry
<1>9. CASE BeginTick
  BY <1>9 DEF BeginTick, tables, registry, history
<1>10. ASSUME NEW a \in SUBSET Models, FeedUpdate(a)
      PROVE  SchedInv'
  BY <1>10 DEF FeedUpdate, Register, feed, tables, history
<1>11. ASSUME NEW a \in SUBSET Models, NoConfigs(a)
      PROVE  SchedInv'
  BY <1>11 DEF NoConfigs, CallFails, Fault, Register, EndTick, feed, tables
<1>12. CASE SaveInput
  BY <1>12 DEF SaveInput, feed, ingested, tick, registry, history
<1>13. ASSUME NEW a \in SUBSET Models, NEW c \in Configs, CallModels(c, a)
      PROVE  SchedInv'
  <2> DEFINE r == [config |-> c, at |-> now, models |-> known']
             I == PredictInterval[c]
  <2>1. /\ runs' = runs \cup {r} /\ r.at = now /\ r.config = c
        /\ todo' = todo \ {c} /\ c \in todo
        /\ pc \in Ticking /\ pc' \in Ticking /\ pc' # "down"
        /\ UNCHANGED <<clock, now, starts>>
    BY <1>13 DEF CallModels, InTurn, feed
  <2>2. /\ nextRun' = [nextRun EXCEPT ![c] = now + I]
        /\ nextRun'[c] = now + I
        /\ \A d \in Configs : d # c => nextRun'[d] = nextRun[d]
    BY <1>13 DEF CallModels
  <2>3. I \in Nat \ {0} /\ now \in Nat /\ nextRun[c] \in Nat /\ nextRun[c] <= now
    BY <2>1
  <2>4. \A q \in runs : q.at \in Nat /\ q.config \in Configs /\ q.at <= now
    BY <2>1
  <2> HIDE DEF r, I
  <2>5. \A d \in todo' : nextRun'[d] <= now
    BY <2>1, <2>2
  <2>6. ASSUME NEW q \in runs, q.config = c, ~\E s \in starts : q.at < s
        PROVE  q.at + I <= now
    BY <2>1, <2>3, <2>4, <2>6 DEF I
  <2>7. ASSUME NEW q \in runs'
        PROVE  \/ \E s \in starts : q.at < s
               \/ q.at + PredictInterval[q.config] <= nextRun'[q.config]
    <3>1. CASE q.config = c
      BY <3>1, <2>1, <2>2, <2>3, <2>4, <2>7 DEF I
    <3>2. CASE q.config # c
      BY <3>2, <2>1, <2>2, <2>4, <2>7
    <3> QED BY <3>1, <3>2
  <2>8. ScheduleKept'
    <3>1. \A q \in runs : \/ q.config # c \/ q.at >= now
                           \/ now >= q.at + PredictInterval[q.config]
                           \/ \E s \in starts : q.at < s /\ s < now
      BY <2>1, <2>4, <2>6 DEF I
    <3>2. \A q \in runs : now >= q.at
      BY <2>3, <2>4
    <3> QED BY <2>1, <2>3, <3>1, <3>2
  <2> QED BY <2>1, <2>4, <2>5, <2>7, <2>8
<1>14. CASE TickRaises
  BY <1>14 DEF TickRaises, Fault, AbortTick, EndTick, feed, tables, registry
<1>15. CASE EndConfigs
  BY <1>15 DEF EndConfigs, EndTick, feed, tables, tick, registry, history
<1>16. ASSUME NEW m \in Models, FlushModel(m)
      PROVE  SchedInv'
  BY <1>16 DEF FlushModel, feed, ingested, tick, history
<1>17. CASE FlushFails
  BY <1>17 DEF FlushFails, CallFails, Fault, feed, tables, tick, registry
<1>18. CASE FlushDone
  BY <1>18 DEF FlushDone, feed, tables, tick, registry, history
<1>19. ASSUME NEW p \in batch, SavePrediction(p)
      PROVE  SchedInv'
  BY <1>19 DEF SavePrediction, SavedNext, EndTick, feed, ingested, registry, history
<1>20. CASE SaveFails
  BY <1>20 DEF SaveFails, CallFails, Fault, AbortTick, EndTick, feed, tables,
     registry
<1>21. CASE Prune
  BY <1>21 DEF Prune, RetentionRuns, feed, tick, registry, history
<1>22. CASE PruneFails
  BY <1>22 DEF PruneFails, RetentionRuns, CallFails, Fault, feed, tables,
     tick, registry
<1>23. CASE Crash
  BY <1>23 DEF Crash, Fault, feed, tables
<1>24. CASE UNCHANGED vars
  BY <1>24 DEF vars, feed, ingested, tables, tick, registry, history
<1> QED BY <1>1, <1>2, <1>3, <1>4, <1>5, <1>6, <1>7, <1>8, <1>9, <1>10, <1>11,
           <1>12, <1>13, <1>14, <1>15, <1>16, <1>17, <1>18, <1>19, <1>20, <1>21,
           <1>22, <1>23, <1>24 DEF Next

-----------------------------------------------------------------------------
(* Inputs *)

LEMMA InputStep ==
  ASSUME TypeOK, InputInv, [Next]_vars
  PROVE  InputInv'
<1> USE PredictWorkerAssumption DEF TypeOK, InputInv, InputsStored, Recorded, Input, PCs, Ticking
<1>1. CASE Publish
  BY <1>1 DEF Publish, tables, tick, registry, history
<1>2. CASE Start
  <2>1. \A k \in DOMAIN window' : window'[k] \in stored
    BY <1>2 DEF Start, Earliest
  <2>2. clock' = clock + 1 /\ pc' = "backfill" /\ UNCHANGED <<stored, watermark, inputs>>
    BY <1>2 DEF Start, tables
  <2>3. \A t \in Nat : Recorded(t) => Recorded(t)'
    BY <2>2
  <2> QED BY <2>1, <2>2, <2>3
<1>3. CASE Backfill
  BY <1>3 DEF Backfill, BackfillStart, Earliest, IsLatest, feed, registry, history
<1>4. CASE BackfillMark
  BY <1>4 DEF BackfillMark, feed, tick, registry, history
<1>5. CASE Deliver
  BY <1>5 DEF Deliver, IsLatest, feed, tables, registry, history
<1>6. CASE AppendRecord
  BY <1>6 DEF AppendRecord, feed, tick, registry, history
<1>7. CASE SetWatermark
  BY <1>7 DEF SetWatermark, feed, tick, registry, history
<1>8. CASE SinkFails
  BY <1>8 DEF SinkFails, CallFails, Fault, feed, tables, tick, registry
<1>9. CASE BeginTick
  <2>1. clock' = clock + 1 /\ pc' = "update" /\ UNCHANGED <<stored, watermark, inputs, session>>
    BY <1>9 DEF BeginTick, tables
  <2>2. \A t \in Nat : Recorded(t) => Recorded(t)'
    BY <2>1
  <2>3. ASSUME session = "ok"
        PROVE  (\A k \in DOMAIN window : Recorded(window[k]))'
    <3>1. \A k \in DOMAIN window' : \/ window'[k] = record
                                    \/ \E j \in DOMAIN window : window'[k] = window[j]
      BY <1>9, AppendedIs DEF BeginTick
    <3>2. Recorded(record) /\ \A k \in DOMAIN window : Recorded(window[k]) /\ window[k] \in Nat
      BY <1>9, <2>3 DEF BeginTick
    <3>3. \A k \in DOMAIN window' : window'[k] \in Nat /\ Recorded(window'[k])
      BY <3>1, <3>2
    <3> QED BY <3>3, <2>1
  <2> QED BY <2>1, <2>2, <2>3
<1>10. ASSUME NEW a \in SUBSET Models, FeedUpdate(a)
      PROVE  InputInv'
  BY <1>10 DEF FeedUpdate, Register, feed, tables, history
<1>11. ASSUME NEW a \in SUBSET Models, NoConfigs(a)
      PROVE  InputInv'
  BY <1>11 DEF NoConfigs, CallFails, Fault, Register, EndTick, feed, tables
<1>12. CASE SaveInput
  BY <1>12 DEF SaveInput, feed, ingested, tick, registry, history
<1>13. ASSUME NEW a \in SUBSET Models, NEW c \in Configs, CallModels(c, a)
      PROVE  InputInv'
  BY <1>13 DEF CallModels, InTurn, Register, BatchOf, feed, tables
<1>14. CASE TickRaises
  BY <1>14 DEF TickRaises, Fault, AbortTick, EndTick, feed, tables, registry
<1>15. CASE EndConfigs
  BY <1>15 DEF EndConfigs, EndTick, feed, tables, tick, registry, history
<1>16. ASSUME NEW m \in Models, FlushModel(m)
      PROVE  InputInv'
  BY <1>16 DEF FlushModel, feed, ingested, tick, history
<1>17. CASE FlushFails
  BY <1>17 DEF FlushFails, CallFails, Fault, feed, tables, tick, registry
<1>18. CASE FlushDone
  BY <1>18 DEF FlushDone, feed, tables, tick, registry, history
<1>19. ASSUME NEW p \in batch, SavePrediction(p)
      PROVE  InputInv'
  BY <1>19 DEF SavePrediction, SavedNext, EndTick, feed, ingested, registry, history
<1>20. CASE SaveFails
  BY <1>20 DEF SaveFails, CallFails, Fault, AbortTick, EndTick, feed, tables,
     registry
<1>21. CASE Prune
  BY <1>21 DEF Prune, RetentionRuns, feed, tick, registry, history
<1>22. CASE PruneFails
  BY <1>22 DEF PruneFails, RetentionRuns, CallFails, Fault, feed, tables,
     tick, registry
<1>23. CASE Crash
  BY <1>23 DEF Crash, Fault, feed, tables
<1>24. CASE UNCHANGED vars
  BY <1>24 DEF vars, feed, ingested, tables, tick, registry, history
<1> QED BY <1>1, <1>2, <1>3, <1>4, <1>5, <1>6, <1>7, <1>8, <1>9, <1>10, <1>11,
           <1>12, <1>13, <1>14, <1>15, <1>16, <1>17, <1>18, <1>19, <1>20, <1>21,
           <1>22, <1>23, <1>24 DEF Next

-----------------------------------------------------------------------------
(* Theorems *)

LEMMA InitHolds ==
  ASSUME Init
  PROVE  TypeOK /\ FinInv /\ RefInv /\ RunInv /\ SchedInv /\ InputInv
<1> USE PredictWorkerAssumption DEF Init
<1>1. TypeOK
  BY DEF TypeOK, PCs, Ticking
<1>2. FinInv
  BY FS_EmptySet DEF FinInv
<1>3. RefInv
  BY DEF RefInv, RefsExist, Ticking
<1>4. RunInv /\ SchedInv
  BY DEF RunInv, SchedInv, ScheduleKept, Ticking
<1>5. InputInv
  BY DEF InputInv, InputsStored
<1> QED BY <1>1, <1>2, <1>3, <1>4, <1>5

(* Every state of the worker and its tables has the declared shape: in     *)
(* particular the window never grows past its size.                        *)
THEOREM TypeCorrect == Spec => [](TypeOK /\ FinInv)
<1>1. Init => TypeOK /\ FinInv
  BY InitHolds
<1>2. TypeOK /\ FinInv /\ [Next]_vars => (TypeOK /\ FinInv)'
  BY TypeStep, FinStep
<1> QED BY <1>1, <1>2, PTL DEF Spec

(* A saved prediction's model and input have their rows (predict.py:139):   *)
(* saving the batch cannot meet a missing one.                             *)
THEOREM ReferencesExist == Spec => []RefsExist
<1>1. Init => RefInv
  BY InitHolds
<1>2. TypeOK /\ RefInv /\ [Next]_vars => RefInv'
  BY RefStep
<1>3. RefInv => RefsExist
  BY DEF RefInv
<1> QED BY <1>1, <1>2, <1>3, TypeCorrect, PTL DEF Spec

(* A tick that nothing cut short has saved a prediction, or an absence, of  *)
(* every model that was known when it called.                              *)
THEOREM CallsAreSaved == Spec => []RunsSaved
<1>1. Init => RefInv /\ RunInv
  BY InitHolds
<1>2. TypeOK /\ RefInv /\ RunInv /\ [Next]_vars => (RefInv /\ RunInv)'
  BY RefStep, RunStep
<1>3. RunInv => RunsSaved
  BY DEF RunInv, RunsSaved, Answers
<1> QED BY <1>1, <1>2, <1>3, TypeCorrect, PTL DEF Spec

(* Between two calls for a configuration lies its interval, or a start of   *)
(* the process.                                                            *)
THEOREM IntervalsKept == Spec => []ScheduleKept
<1>1. Init => SchedInv
  BY InitHolds
<1>2. TypeOK /\ SchedInv /\ [Next]_vars => SchedInv'
  BY SchedStep
<1>3. SchedInv => ScheduleKept
  BY DEF SchedInv
<1> QED BY <1>1, <1>2, <1>3, TypeCorrect, PTL DEF Spec

(* Every record of a saved input is stored, until retention may remove it:  *)
(* a failure of the sink that stores records fails the tick too.            *)
THEOREM InputsReadable == Spec => []InputsStored
<1>1. Init => InputInv
  BY InitHolds
<1>2. TypeOK /\ InputInv /\ [Next]_vars => InputInv'
  BY InputStep
<1>3. InputInv => InputsStored
  BY DEF InputInv
<1> QED BY <1>1, <1>2, <1>3, TypeCorrect, PTL DEF Spec

=============================================================================
