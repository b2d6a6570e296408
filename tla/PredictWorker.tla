--------------------------- MODULE PredictWorker ---------------------------
(***************************************************************************)
(* The combined feed-predict worker for one subject.  At start it loads a   *)
(* window of records and fetches what it missed; then every new record goes *)
(* to two sinks in turn: one stores it and moves the watermark, the other   *)
(* adds it to the window and runs a tick: the models get the data, each     *)
(* configuration that is due gets the predictions of every known model, and *)
(* all of them are saved at the end.                                       *)
(*                                                                         *)
(* One session serves the whole process, and nothing rolls it back: after   *)
(* a failed commit each later call raises until the process starts again.   *)
(* The retention task runs between ticks and while models are awaited.      *)
(*                                                                         *)
(* A record is its time.  Every tick reads a time of its own, as ids with   *)
(* milliseconds do; and the configurations differ in scope_key, the only    *)
(* part of a prediction's id that tells them apart.                        *)
(***************************************************************************)
EXTENDS Integers, Sequences, FiniteSets

CONSTANTS
  Models,
  Configs,          \* active configurations, numbers in their order
  PredictInterval,  \* [Configs -> prediction_interval_seconds]
  WindowSize,       \* max_size of the window
  BackfillLimit,    \* limit of the start-up fetch
  BackfillSpan,     \* backfill_minutes
  Ttl,              \* ttl_days
  MaxClock,         \* bound: time
  MaxFaults         \* bound: failed calls and crashes

ASSUME PredictWorkerAssumption ==
  /\ Configs \subseteq Nat
  /\ PredictInterval \in [Configs -> Nat \ {0}]
  /\ WindowSize \in Nat \ {0}
  /\ BackfillLimit \in Nat \ {0}
  /\ BackfillSpan \in Nat
  /\ Ttl \in Nat
  /\ MaxClock \in Nat
  /\ MaxFaults \in Nat

VARIABLES
  clock,
  published,    \* records the provider has
  \* tables
  stored,       \* feed_records
  watermark,    \* feed_ingestion_state, 0 when there is no row
  models,       \* ids of the models table
  inputs,       \* rows: [at, window]
  predictions,  \* rows: [model, config, at, answered]
  \* memory of the process
  pc,
  session,      \* "ok", or "failed" when it waits for a rollback
  window,       \* FeedWindow: records, the latest last
  seen,         \* the listener's watermark, 0 before the first record
  record,       \* the record being handled
  now,          \* the tick's reading of the clock
  todo,         \* configurations of this tick that are due
  batch,        \* predictions of this tick that are not saved
  known,        \* known_models
  dirty,        \* models whose metadata is not saved
  nextRun,      \* [Configs -> time], 0 when the process has not called it
  \* history
  runs,         \* [config, at, models]: calls that made predictions, and of whom
  torn,         \* ticks cut short
  starts,       \* times at which the process started
  faults

feed == <<clock, published>>
ingested == <<stored, watermark>>
tables == <<stored, watermark, models, inputs, predictions>>
tick == <<record, now, todo, batch>>
registry == <<known, dirty>>
history == <<runs, torn, starts, faults>>
vars == <<feed, tables, pc, session, window, seen, tick, registry, nextRun, history>>

Input      == [at : Nat, window : Seq(Nat)]
Prediction == [model : Models, config : Configs, at : Nat, answered : BOOLEAN]
Run        == [config : Configs, at : Nat, models : SUBSET Models]

Ticking == {"update", "configs", "call", "flush", "save"}
PCs == {"down", "backfill", "mark", "listen", "append", "advance", "begin"} \cup Ticking

TypeOK ==
  /\ clock \in Nat
  /\ published \subseteq Nat
  /\ stored \subseteq Nat
  /\ watermark \in Nat
  /\ models \subseteq Models
  /\ inputs \subseteq Input
  /\ predictions \subseteq Prediction
  /\ pc \in PCs
  /\ session \in {"ok", "failed"}
  /\ window \in Seq(Nat) /\ Len(window) <= WindowSize
  /\ seen \in Nat /\ record \in Nat /\ now \in Nat
  /\ todo \subseteq Configs
  /\ batch \subseteq Prediction
  /\ known \subseteq Models
  /\ dirty \subseteq known
  /\ nextRun \in [Configs -> Nat]
  /\ runs \subseteq Run
  /\ torn \subseteq Nat
  /\ starts \subseteq Nat
  /\ faults \in Nat

Init ==
  /\ clock = 1
  /\ published = {}
  /\ stored = {} /\ watermark = 0
  /\ models = {} /\ inputs = {} /\ predictions = {}
  /\ pc = "down"
  /\ session = "ok"
  /\ window = <<>>
  /\ seen = 0 /\ record = 0 /\ now = 0
  /\ todo = {} /\ batch = {}
  /\ known = {} /\ dirty = {}
  /\ nextRun = [c \in Configs |-> 0]
  /\ runs = {} /\ torn = {} /\ starts = {} /\ faults = 0

-----------------------------------------------------------------------------
(* Helpers *)

Fault == faults < MaxFaults /\ faults' = faults + 1

(* A commit that raises, or any call on a session in which one did. *)
CallFails ==
  /\ session' = "failed"
  /\ \/ session = "failed" /\ UNCHANGED faults
     \/ session = "ok" /\ Fault

Earliest(times, n) == {t \in times : Cardinality({u \in times : u <= t}) <= n}
IsLatest(t, times) == t \in times /\ \A u \in times : u <= t

(* deque(maxlen=WindowSize).append *)
Appended(w, t) ==
  IF Len(w) < WindowSize THEN Append(w, t) ELSE Append(Tail(w), t)

(* What the tick still has in hand is gone. *)
EndTick ==
  /\ pc' = "listen"
  /\ todo' = {} /\ batch' = {}
  /\ UNCHANGED <<record, now>>

(* PredictSink logs what process_tick raises; the listener goes on. *)
AbortTick ==
  /\ EndTick
  /\ torn' = torn \cup {now}
  /\ UNCHANGED <<feed, tables, window, seen, registry, nextRun, runs, starts>>

-----------------------------------------------------------------------------
(* The provider, and start-up *)

Publish ==
  /\ clock < MaxClock
  /\ published' = published \cup {clock}
  /\ clock' = clock + 1
  /\ UNCHANGED <<tables, pc, session, window, seen, tick, registry, nextRun, history>>

(* main: a new session, and the window from the earliest records stored. *)
Start ==
  LET loaded == Earliest(stored, WindowSize)
  IN  /\ pc = "down"
      /\ clock < MaxClock
      /\ pc' = "backfill"
      /\ \E w \in [1..Cardinality(loaded) -> loaded] :
           /\ \A i, j \in DOMAIN w : i < j => w[i] < w[j]
           /\ window' = w
      /\ clock' = clock + 1
      /\ starts' = starts \cup {clock}
      /\ UNCHANGED <<published, tables, session, seen, tick, registry, nextRun,
                     runs, torn, faults>>

BackfillStart == IF watermark # 0 THEN watermark ELSE clock - BackfillSpan

(* One page from the watermark on, in one commit.  A provider that cannot   *)
(* answer gives no records.                                                *)
Backfill ==
  /\ pc = "backfill" /\ session = "ok"
  /\ LET page == Earliest({r \in published : BackfillStart <= r}, BackfillLimit)
     IN  \/ /\ pc' = "listen"
            /\ UNCHANGED <<stored, record>>
         \/ \E r \in page :
              /\ IsLatest(r, page)
              /\ record' = r
              /\ stored' = stored \cup page
              /\ pc' = "mark"
  /\ UNCHANGED <<feed, watermark, models, inputs, predictions, session, window, seen,
                 now, todo, batch, registry, nextRun, history>>

BackfillMark ==
  /\ pc = "mark"
  /\ watermark' = record
  /\ pc' = "listen"
  /\ UNCHANGED <<feed, stored, models, inputs, predictions, session, window, seen,
                 tick, registry, nextRun, history>>

-----------------------------------------------------------------------------
(* A record: the repository's sink *)

(* The latest record, if the listener has not seen it. *)
Deliver ==
  /\ pc = "listen"
  /\ \E r \in published :
       /\ IsLatest(r, published)
       /\ r > seen
       /\ seen' = r
       /\ record' = r
  /\ pc' = "append"
  /\ UNCHANGED <<feed, tables, session, window, now, todo, batch, registry, nextRun,
                 history>>

AppendRecord ==
  /\ pc = "append" /\ session = "ok"
  /\ stored' = stored \cup {record}
  /\ pc' = "advance"
  /\ UNCHANGED <<feed, watermark, models, inputs, predictions, session, window, seen,
                 tick, registry, nextRun, history>>

SetWatermark ==
  /\ pc = "advance"
  /\ watermark' = record
  /\ pc' = "begin"
  /\ UNCHANGED <<feed, stored, models, inputs, predictions, session, window, seen,
                 tick, registry, nextRun, history>>

(* Variant with an error: the sink rolls its session back and goes on, so   *)
(* that the tick uses a record that is not stored.                         *)
SinkRecovers ==
  /\ pc \in {"append", "advance"}
  /\ Fault
  /\ pc' = "begin"
  /\ UNCHANGED <<feed, tables, session, window, seen, tick, registry, nextRun,
                 runs, torn, starts>>

(* The composite sink logs the failure and calls the next sink. *)
SinkFails ==
  /\ pc \in {"append", "advance"}
  /\ CallFails
  /\ pc' = "begin"
  /\ UNCHANGED <<feed, tables, window, seen, tick, registry, nextRun,
                 runs, torn, starts>>

-----------------------------------------------------------------------------
(* A record: the tick *)

(* The window moves, the tick reads the clock and waits for feed_update. *)
BeginTick ==
  /\ pc = "begin"
  /\ clock < MaxClock
  /\ window' = Appended(window, record)
  /\ now' = clock
  /\ clock' = clock + 1
  /\ pc' = "update"
  /\ UNCHANGED <<published, tables, session, seen, record, todo, batch, registry,
                 nextRun, history>>

Register(answering) ==
  /\ known' = known \cup answering
  /\ dirty' = dirty \cup (answering \ known)

(* feed_update's answers, and the configurations that are due. *)
FeedUpdate(answering) ==
  /\ pc = "update" /\ session = "ok"
  /\ Register(answering)
  /\ todo' = {c \in Configs : nextRun[c] <= now}
  /\ pc' = "configs"
  /\ UNCHANGED <<feed, tables, session, window, seen, record, now, batch, nextRun,
                 history>>

(* With a session that waits for a rollback the configurations cannot be   *)
(* read; the models have got the data all the same.                        *)
NoConfigs(answering) ==
  /\ pc = "update"
  /\ CallFails
  /\ Register(answering)
  /\ EndTick
  /\ torn' = torn \cup {now}
  /\ UNCHANGED <<feed, tables, window, seen, nextRun, runs, starts>>

SaveInput ==
  /\ pc = "configs" /\ session = "ok"
  /\ todo # {}
  /\ inputs' = inputs \cup {[at |-> now, window |-> window]}
  /\ pc' = "call"
  /\ UNCHANGED <<feed, ingested, models, predictions, session, window, seen, tick,
                 registry, nextRun, history>>

InTurn(c) == c \in todo /\ \A d \in todo : c <= d

(* Variant with an error: who does not answer has no prediction. *)
BatchOfAnswered(c, answering) ==
  {[model |-> m, config |-> c, at |-> now, answered |-> TRUE] : m \in answering}

BatchOf(c, answering) ==
  {[model |-> m, config |-> c, at |-> now, answered |-> m \in answering] :
     m \in known \cup answering}

(* Variant with an error: who answers is taken to be registered by the     *)
(* feed_update before.                                                     *)
CallModelsUnregistered(c, answering) ==
  /\ pc = "call" /\ InTurn(c)
  /\ batch' = batch \cup BatchOf(c, answering)
  /\ runs' = runs \cup {[config |-> c, at |-> now, models |-> known \cup answering]}
  /\ nextRun' = [nextRun EXCEPT ![c] = now + PredictInterval[c]]
  /\ todo' = todo \ {c}
  /\ pc' = "configs"
  /\ UNCHANGED <<feed, tables, session, window, seen, record, now, registry, torn,
                 starts, faults>>

(* Variant with an error: the next run is counted from the record's time. *)
CallModelsOfRecord(c, answering) ==
  /\ pc = "call" /\ InTurn(c)
  /\ Register(answering)
  /\ batch' = batch \cup BatchOf(c, answering)
  /\ runs' = runs \cup {[config |-> c, at |-> now, models |-> known']}
  /\ nextRun' = [nextRun EXCEPT ![c] = record + PredictInterval[c]]
  /\ todo' = todo \ {c}
  /\ pc' = "configs"
  /\ UNCHANGED <<feed, tables, session, window, seen, record, now, torn, starts, faults>>

(* The models called for the next configuration in order: one prediction   *)
(* per model that answers, an absent one per other known model.            *)
CallModels(c, answering) ==
  /\ pc = "call" /\ InTurn(c)
  /\ Register(answering)
  /\ batch' = batch \cup BatchOf(c, answering)
  /\ runs' = runs \cup {[config |-> c, at |-> now, models |-> known']}
  /\ nextRun' = [nextRun EXCEPT ![c] = now + PredictInterval[c]]
  /\ todo' = todo \ {c}
  /\ pc' = "configs"
  /\ UNCHANGED <<feed, tables, session, window, seen, record, now, torn, starts, faults>>

(* The runner raises, or the hook on the finished batch does. *)
TickRaises ==
  /\ \/ pc \in {"update", "call"}
     \/ pc = "configs" /\ todo = {}
  /\ Fault
  /\ AbortTick
  /\ UNCHANGED session

EndConfigs ==
  /\ pc = "configs" /\ todo = {}
  /\ IF batch = {} THEN EndTick ELSE pc' = "flush" /\ UNCHANGED tick
  /\ UNCHANGED <<feed, tables, session, window, seen, registry, nextRun, history>>

-----------------------------------------------------------------------------
(* Saving: flush_non_critical and save_all, one commit per row *)

FlushModel(m) ==
  /\ pc = "flush" /\ session = "ok"
  /\ m \in dirty
  /\ models' = models \cup {m}
  /\ dirty' = dirty \ {m}
  /\ UNCHANGED <<feed, ingested, inputs, predictions, pc, session, window, seen, tick,
                 known, nextRun, history>>

(* A failure is logged; the session it leaves fails the other models too.  *)
FlushFails ==
  /\ pc = "flush" /\ dirty # {}
  /\ session = "ok" /\ CallFails
  /\ UNCHANGED <<feed, tables, pc, window, seen, tick, registry, nextRun,
                 runs, torn, starts>>

FlushDone ==
  /\ pc = "flush"
  /\ dirty = {} \/ session = "failed"
  /\ pc' = "save"
  /\ UNCHANGED <<feed, tables, session, window, seen, tick, registry, nextRun, history>>

(* In the order of the batch: by configuration, those who answered first.  *)
SavedNext(p) ==
  /\ p \in batch
  /\ \A q \in batch : \/ p.config < q.config
                      \/ p.config = q.config /\ (q.answered => p.answered)

SavePrediction(p) ==
  /\ pc = "save" /\ session = "ok"
  /\ SavedNext(p)
  /\ predictions' = predictions \cup {p}
  /\ IF batch = {p} THEN EndTick
                    ELSE batch' = batch \ {p} /\ UNCHANGED <<pc, record, now, todo>>
  /\ UNCHANGED <<feed, ingested, models, inputs, session, window, seen, registry,
                 nextRun, history>>

(* A save that raises ends the tick. *)
SaveFails ==
  /\ \/ pc = "save"
     \/ pc = "configs" /\ todo # {}
  /\ CallFails
  /\ AbortTick

-----------------------------------------------------------------------------
(* Retention, and the end of the process *)

RetentionRuns == pc \in {"listen", "update", "call"}

Prune ==
  /\ RetentionRuns /\ session = "ok"
  /\ \E r \in stored : r < clock - Ttl
  /\ stored' = {r \in stored : r >= clock - Ttl}
  /\ UNCHANGED <<feed, watermark, models, inputs, predictions, pc, session, window,
                 seen, tick, registry, nextRun, history>>

PruneFails ==
  /\ RetentionRuns /\ session = "ok"
  /\ \E r \in stored : r < clock - Ttl
  /\ CallFails
  /\ UNCHANGED <<feed, tables, pc, window, seen, tick, registry, nextRun,
                 runs, torn, starts>>

(* The process dies, or a call of the start-up raises: what it had in      *)
(* memory is gone.                                                         *)
Crash ==
  /\ pc # "down"
  /\ Fault
  /\ pc' = "down"
  /\ session' = "ok"
  /\ window' = <<>>
  /\ seen' = 0 /\ record' = 0 /\ now' = 0
  /\ todo' = {} /\ batch' = {}
  /\ known' = {} /\ dirty' = {}
  /\ nextRun' = [c \in Configs |-> 0]
  /\ torn' = IF pc \in Ticking THEN torn \cup {now} ELSE torn
  /\ UNCHANGED <<feed, tables, runs, starts>>

-----------------------------------------------------------------------------
Next ==
  \/ Publish
  \/ Start \/ Backfill \/ BackfillMark
  \/ Deliver \/ AppendRecord \/ SetWatermark \/ SinkFails
  \/ BeginTick
  \/ \E answering \in SUBSET Models :
       FeedUpdate(answering) \/ NoConfigs(answering)
  \/ SaveInput
  \/ \E answering \in SUBSET Models : \E c \in Configs : CallModels(c, answering)
  \/ TickRaises \/ EndConfigs
  \/ (\E m \in Models : FlushModel(m)) \/ FlushFails \/ FlushDone
  \/ \E p \in batch : SavePrediction(p)
  \/ SaveFails
  \/ Prune \/ PruneFails
  \/ Crash

Spec == Init /\ [][Next]_vars

-----------------------------------------------------------------------------
(* Properties *)

(* The rows a saved prediction refers to exist, however models come and go  *)
(* between two calls and whatever fails while they are registered: the      *)
(* database would refuse the row, and the tick would be lost.               *)
RefsExist ==
  \A p \in predictions : p.model \in models /\ \E i \in inputs : i.at = p.at

(* Whoever was known when a configuration was called has a prediction or an *)
(* absence for it, as soon as the tick is over, unless the tick was cut.    *)
RunsSaved ==
  \A r \in runs : \/ r.at \in torn
                  \/ pc \in Ticking /\ now = r.at
                  \/ \A m \in r.models : \E p \in predictions :
                       p.model = m /\ p.config = r.config /\ p.at = r.at

(* Two calls for one configuration are an interval apart, also after ticks  *)
(* that saved nothing, unless the process started in between.               *)
ScheduleKept ==
  \A q, r \in runs :
    \/ q.config # r.config
    \/ q.at >= r.at
    \/ r.at >= q.at + PredictInterval[q.config]
    \/ \E s \in starts : q.at < s /\ s < r.at

Recorded(t) == t \in stored \/ t < clock - Ttl

(* What a prediction was made from can be read when it is scored: every    *)
(* record of an input is stored.  The two sinks are independent, so it is   *)
(* the session that keeps the second one from using what the first one      *)
(* failed to store.  The watermark is that of a stored record.              *)
InputsStored ==
  /\ \A i \in inputs : \A k \in DOMAIN i.window : Recorded(i.window[k])
  /\ watermark # 0 => Recorded(watermark)
=============================================================================
