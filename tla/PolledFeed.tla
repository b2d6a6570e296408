----------------------------- MODULE PolledFeed -----------------------------
(***************************************************************************)
(* Feeds that are polled, Binance and Pyth, from the provider to the ground *)
(* truth of a prediction.  At start the feed service asks, subject by       *)
(* subject, for what follows the watermark; then a task polls for the       *)
(* latest record of each subject and hands those it has not seen to the     *)
(* repository's sink.  The score-worker's FeedReader reads the records of a *)
(* prediction's window, and asks the provider itself when there are none.   *)
(*                                                                         *)
(* A record is its subject and time.  One session serves the feed service   *)
(* and nothing rolls it back; the reader opens one for each call.           *)
(***************************************************************************)
EXTENDS Integers, FiniteSets, FiniteSetsExt

CONSTANTS
  Subjects,      \* numbers, in the order they are asked for; the reader's is 1
  Providers,     \* of {"candles", "now", "pyth"}: Binance's candles, its
                 \* ticks, depth and funding, and Pyth
  FetchLimit,    \* limit of a fetch
  Span,          \* backfill_minutes
  Bucket,        \* length of a Pyth candle
  Ttl,           \* ttl_days
  MaxConsecutiveErrors,
  Windows,       \* of the predictions: [start, end]
  Margin,        \* the reader asks for so much more at both ends
  Staleness,     \* max_ground_truth_staleness_fraction, in percent
  InLoop,        \* may the reader be called within a running event loop?
  MaxClock,      \* bound: time
  MaxFaults      \* bound: [Providers -> failed calls and crashes]

(* The reader's subject is one of those that are fed. *)
ASSUME FeedAssumption ==
  /\ Subjects \subseteq Nat /\ 1 \in Subjects
  /\ Providers \subseteq {"candles", "now", "pyth"}
  /\ FetchLimit \in Nat \ {0} /\ Bucket \in Nat \ {0}
  /\ Span \in Nat /\ Ttl \in Nat /\ Margin \in Nat
  /\ Windows \subseteq [start : Nat, end : Nat]

VARIABLES
  clock, provider, published,   \* [Subjects -> times the provider has]
  stored,        \* feed_records
  watermark,     \* [Subjects -> feed_ingestion_state], 0 without a row
  pc,            \* the feed service
  session,       \* "ok", or "failed" when it waits for a rollback
  hand,          \* [subject, at]: still to fetch up to a time, or still to
                 \* hand on; the first subject's is the next
  seen,          \* [Subjects -> the listener's watermark], 0 without one
  errors,        \* consecutive_errors
  inLoop,        \* the reader's caller runs an event loop
  scored,        \* windows whose predictions have their truth
  \* history
  looked,        \* [Subjects -> time up to which the provider was asked]
  passed,        \* records a fetch left out, or kept their time
  faults

outside == <<clock, provider, published>>
reader  == <<inLoop, scored>>
vars == <<outside, stored, watermark, pc, session, hand, seen, errors, reader,
          looked, passed, faults>>

Nothing == [s \in Subjects |-> 0]
Record(s, T) == {[subject |-> s, at |-> t] : t \in T}

(* Time 0 stands for none: no candle starts there. *)
Init ==
  /\ clock = Bucket - 1
  /\ provider \in Providers
  /\ published = [s \in Subjects |-> {}]
  /\ stored = {} /\ watermark = Nothing
  /\ pc = "down" /\ session = "ok" /\ hand = {} /\ seen = Nothing /\ errors = 0
  /\ inLoop \in InLoop
  /\ scored = {}
  /\ looked = Nothing /\ passed = {} /\ faults = 0

Fault == faults < MaxFaults[provider] /\ faults' = faults + 1

-----------------------------------------------------------------------------
(* The providers *)

(* Time passes; subjects trade, or have a new price. *)
Publish(S) ==
  /\ clock < MaxClock /\ S # {}
  /\ clock' = clock + 1
  /\ published' = [s \in Subjects |->
                     published[s] \cup (IF s \in S THEN {clock + 1} ELSE {})]
  /\ UNCHANGED <<provider, stored, watermark, pc, session, hand, seen, errors, reader,
                 looked, passed, faults>>

Earliest(T) == {t \in T : Cardinality({u \in T : u <= t}) <= FetchLimit}
Latest(T)   == {t \in T : \A u \in T : u <= t}
Within(T, from, until) == {t \in T : from <= t /\ t <= until}

_bucket_ts(t) == t - (t % Bucket)

(* A price is taken by its publish_time, and stamped with its candle's.     *)
Stamp(t) == IF provider = "pyth" THEN _bucket_ts(t) ELSE t

_fetch_candles(s, from, until) == Earliest(Within(published[s], from, until))

(* Ticks, depth and funding have the time of the call, not of the request.  *)
_fetch_now(s) == IF published[s] = {} THEN {} ELSE {clock}

PythPrices(s, from, until) ==
  {_bucket_ts(t) : t \in Within(Latest(published[s]), from, until)}

Fetch(s, from, until) ==
  CASE provider = "candles" -> _fetch_candles(s, from, until)
    [] provider = "now"     -> _fetch_now(s)
    [] provider = "pyth"    -> PythPrices(s, from, until)

(* A poll asks for one record and no start: the latest. *)
Polled(s) ==
  IF provider = "candles" THEN Latest(published[s]) ELSE Fetch(s, 0, clock)

-----------------------------------------------------------------------------
(* Start-up *)

IsFirst(r) == r \in hand /\ \A q \in hand : r.subject <= q.subject

(* All subjects are asked up to one time. *)
Start ==
  /\ pc = "down"
  /\ pc' = "backfill"
  /\ session' = "ok" /\ seen' = Nothing /\ errors' = 0
  /\ hand' = UNION {Record(s, {clock}) : s \in Subjects}
  /\ UNCHANGED <<outside, stored, watermark, reader, looked, passed, faults>>

BackfillStart(s, now) == IF watermark[s] # 0 THEN watermark[s] ELSE now - Span

(* After the last subject the listener starts. *)
NextSubject(r) ==
  /\ hand' = hand \ {r}
  /\ pc' = IF hand' = {} THEN "poll" ELSE "backfill"

(* What an answer leaves out: candles past a full page, all other prices    *)
(* than the latest, and at first what is older than the span.               *)
LeftOut(s, now, page) ==
  {t \in {Stamp(u) : u \in published[s]} \ page :
     \/ watermark[s] = 0 /\ t < now - Span
     \/ provider = "candles" /\ Cardinality(page) = FetchLimit /\ \A u \in page : u < t
     \/ provider # "candles"}

AskedUpTo(now) == IF provider = "now" THEN clock ELSE now

(* Variant with an error: the end of what was asked for. *)
end_ts(now, page) == now

latest_ts(now, page) == Max(page)

Backfill(r) ==
  /\ pc = "backfill" /\ IsFirst(r)
  /\ LET s    == r.subject
         page == Fetch(s, BackfillStart(s, r.at), r.at)
     IN  /\ stored' = stored \cup Record(s, page)
         /\ passed' = passed \cup Record(s, LeftOut(s, r.at, page))
         /\ looked' = [looked EXCEPT ![s] = AskedUpTo(r.at)]
         /\ IF page = {}
            THEN NextSubject(r)
            ELSE /\ hand' = (hand \ {r}) \cup Record(s, {latest_ts(r.at, page)})
                 /\ pc' = "mark"
  /\ UNCHANGED <<outside, watermark, session, seen, errors, reader, faults>>

BackfillMark(r) ==
  /\ pc = "mark" /\ IsFirst(r)
  /\ watermark' = [watermark EXCEPT ![r.subject] = r.at]
  /\ NextSubject(r)
  /\ UNCHANGED <<outside, stored, session, seen, errors, reader, looked, passed, faults>>

(* Binance logs the error of a subject and gives the records of the others. *)
SubjectFails(r) ==
  /\ pc = "backfill" /\ IsFirst(r) /\ provider # "pyth" /\ Fault
  /\ LET s == r.subject
     IN  /\ passed' = passed \cup Record(s, LeftOut(s, r.at, {}))
                             \cup Record(s, Within(published[s], BackfillStart(s, r.at), r.at))
         /\ looked' = [looked EXCEPT ![s] = AskedUpTo(r.at)]
  /\ NextSubject(r)
  /\ UNCHANGED <<outside, stored, watermark, session, seen, errors, reader>>

(* The container starts the worker again: also what start-up raises ends it. *)
Crash ==
  /\ pc # "down" /\ Fault
  /\ pc' = "down" /\ hand' = {}
  /\ UNCHANGED <<outside, stored, watermark, session, seen, errors, reader, looked, passed>>

-----------------------------------------------------------------------------
(* The listener *)

IsNew(r) == r.at > seen[r.subject]

EndIfDone == pc' = IF hand' = {} THEN "poll" ELSE "sink"

(* A subject whose call fails, or of which Pyth says nothing, is left out.  *)
NewRecords(S) == {r \in UNION {Record(s, Polled(s)) : s \in S} : IsNew(r)}

(* Published after the call before, and no longer the latest. *)
Overtaken(s) == {u \in published[s] : looked[s] < u /\ \E t \in Polled(s) : Stamp(u) < t}

Poll(S) ==
  /\ pc = "poll"
  /\ IF S = Subjects THEN UNCHANGED faults ELSE Fault
  /\ hand' = NewRecords(S)
  /\ EndIfDone
  /\ passed' = passed \cup UNION {Record(s, {Stamp(u) : u \in Overtaken(s)}) : s \in S}
  /\ looked' = [s \in Subjects |-> IF s \in S THEN clock ELSE looked[s]]
  /\ errors' = 0
  /\ UNCHANGED <<outside, stored, watermark, session, seen, reader>>

(* Ten errors in a row end the task.  Nobody awaits it: the service stays.  *)
PollRaises ==
  /\ pc = "poll" /\ provider = "pyth" /\ Fault
  /\ errors' = errors + 1
  /\ pc' = IF errors' >= MaxConsecutiveErrors THEN "dead" ELSE "poll"
  /\ UNCHANGED <<outside, stored, watermark, session, hand, seen, reader, looked, passed>>

AppendRecord(r) ==
  /\ pc = "sink" /\ IsFirst(r) /\ session = "ok"
  /\ seen' = [seen EXCEPT ![r.subject] = r.at]
  /\ stored' = stored \cup {r}
  /\ pc' = "advance"
  /\ UNCHANGED <<outside, watermark, session, hand, errors, reader, looked, passed, faults>>

Advance(r) ==
  /\ pc = "advance" /\ IsFirst(r)
  /\ watermark' = [watermark EXCEPT ![r.subject] = r.at]
  /\ hand' = hand \ {r}
  /\ EndIfDone
  /\ UNCHANGED <<outside, stored, session, seen, errors, reader, looked, passed, faults>>

(* Variant with an error: the sink rolls back and goes on. *)
SinkRecovers(r) ==
  /\ pc \in {"sink", "advance"} /\ IsFirst(r) /\ Fault
  /\ seen' = [seen EXCEPT ![r.subject] = r.at]
  /\ hand' = hand \ {r}
  /\ EndIfDone
  /\ UNCHANGED <<outside, stored, watermark, session, errors, reader, looked, passed>>

(* The composite sink logs what the sink raises, and it raises from now on. *)
SinkFails(r) ==
  /\ pc \in {"sink", "advance"} /\ IsFirst(r)
  /\ IF session = "failed" THEN UNCHANGED faults ELSE Fault
  /\ session' = "failed"
  /\ seen' = [seen EXCEPT ![r.subject] = r.at]
  /\ hand' = hand \ {r}
  /\ EndIfDone
  /\ UNCHANGED <<outside, stored, watermark, errors, reader, looked, passed>>

(* The retention loop runs between two polls, or two records of one.  It    *)
(* shares the sink's session: a failed deletion fails the saves after it.   *)
prune_before(cutoff) ==
  /\ pc \in {"poll", "sink", "dead"} /\ session = "ok"
  /\ \E r \in stored : r.at < cutoff
  /\ stored' = {r \in stored : r.at >= cutoff}
  /\ passed' = passed \cup {r \in stored : r.at < clock - Ttl}
  /\ UNCHANGED <<outside, watermark, pc, session, hand, seen, errors, reader, looked,
                 faults>>

PruneFails ==
  /\ pc \in {"poll", "sink", "dead"} /\ session = "ok" /\ Fault
  /\ session' = "failed"
  /\ UNCHANGED <<outside, stored, watermark, pc, hand, seen, errors, reader, looked,
                 passed>>

(* GET /reports/feeds: a row for each feed that has records. *)
list_indexed_feeds ==
  {LET times == {r.at : r \in {q \in stored : q.subject = s}}
   IN  [subject |-> s, record_count |-> Cardinality(times), oldest |-> Min(times),
        newest |-> Max(times), watermark |-> watermark[s]] :
     s \in {r.subject : r \in stored}}

-----------------------------------------------------------------------------
(* FeedReader, for a prediction that is due *)

InWindow(w, T) == Within(T, w.start, w.end)
StoredIn(w) == InWindow(w, {r.at : r \in {r \in stored : r.subject = 1}})

(* Not too long before the horizon. *)
Fresh(w, T) ==
  \E t \in T : 100 * (w.end - t) <= Staleness * (w.end - w.start)

(* Variant with an error: it gives up always. *)
run_async_never(records) == {}

(* _run_async gives up within a running loop: the coroutine is closed.      *)
_run_async(records) == IF inLoop THEN {} ELSE records

Recovered(w) == _run_async(Fetch(1, w.start - Margin, w.end + Margin))

fetch_window(w) ==
  /\ w.end <= clock /\ w \notin scored
  /\ stored' = stored \cup (IF StoredIn(w) = {} THEN Record(1, Recovered(w)) ELSE {})
  /\ scored' = scored \cup (IF Fresh(w, StoredIn(w)') THEN {w} ELSE {})
  /\ UNCHANGED <<outside, watermark, pc, session, hand, seen, errors, inLoop, looked,
                 passed, faults>>

-----------------------------------------------------------------------------
Feeding ==
  \/ Start \/ Poll(Subjects)
  \/ \E r \in hand : \/ Backfill(r) \/ BackfillMark(r) \/ AppendRecord(r) \/ Advance(r)
                     \/ session = "failed" /\ SinkFails(r)

Failing ==
  \/ PollRaises \/ PruneFails \/ Crash
  \/ \E r \in hand : SubjectFails(r) \/ SinkFails(r)
  \/ \E S \in SUBSET Subjects : Poll(S)

Scoring == \E w \in Windows : fetch_window(w)

Next == \/ \E S \in SUBSET Subjects : Publish(S)
        \/ Feeding \/ prune_before(clock - Ttl) \/ Failing \/ Scoring

(* The container restarts, the loops go on; errors and news need not come.  *)
Fairness == WF_vars(Feeding) /\ WF_vars(Scoring)

Spec == Init /\ [][Next]_vars /\ Fairness
-----------------------------------------------------------------------------
(* Properties *)

(* feed_data.py:124: a restart goes on from the watermark.  Whatever calls  *)
(* fail and whenever the service crashes, a record before the watermark is  *)
(* missing only if a fetch that was answered could not contain it: it was   *)
(* overtaken between two polls, cut off by the page, or its subject failed  *)
(* at start-up; or if its time in the store is over.  A failed save leaves  *)
(* no hole: it stops all saves, and the restart begins at the last one.     *)
HolesExplained ==
  \A s \in Subjects :
    Record(s, {t \in {Stamp(u) : u \in published[s]} : t < watermark[s]})
      \subseteq stored \cup passed

(* No feed is shown with a watermark past its newest record, but one whose  *)
(* retention is over.                                                       *)
FeedsShown ==
  \A row \in list_indexed_feeds :
    row.watermark <= row.newest \/ row.watermark < clock - Ttl

(* What a watermark tells of its feed: nothing before it is missing without *)
(* a reason, and it is not past what is stored.                             *)
WatermarksTell == HolesExplained /\ FeedsShown

(* The latest record of every subject is stored, if it is not past its      *)
(* retention, unless the listener has ended or its session has failed.      *)
NewestStored ==
  \/ pc = "dead" \/ session = "failed"
  \/ \A s \in Subjects :
       Record(s, {t \in Polled(s) : clock - Ttl <= t}) \subseteq stored

(* A prediction that is due has its truth if the provider still has candles *)
(* for it, unless the store has some of its window but none close to its    *)
(* end, or the reader cannot ask.                                           *)
Awaited(w) ==
  /\ w.end <= clock /\ w \notin scored /\ StoredIn(w) = {}
  /\ provider = "candles" /\ Fresh(w, InWindow(w, published[1]))

TruthFound == \A w \in Windows : Awaited(w) => inLoop

(* feed_reader.py:21, "Reads feed data from DB, backfills from feed         *)
(* provider if needed": no prediction goes on waiting for candles the       *)
(* provider has, whoever the reader's caller is.                            *)
RecoversIfNeeded == <>[](\A w \in Windows : ~Awaited(w))
=============================================================================
