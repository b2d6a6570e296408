------------------------------ MODULE Backtest ------------------------------
(***************************************************************************)
(* backtest.py, the cruncher's replay: the day files a coordinator serves   *)
(* are pulled into a cache, and a run feeds them to the model as the node   *)
(* would, asks it for predictions and scores them against later records.    *)
(*                                                                         *)
(* A record is the time it is of; the coordinator's files grow while the    *)
(* cruncher pulls.  A day's file that was pulled once stays as it is.       *)
(***************************************************************************)
EXTENDS Integers, FiniteSetsExt, SequencesExt

CONSTANTS
  Feed,           \* the times of the records there will be
  Price,          \* [time -> close]
  DayLength,
  WindowSize,     \* window_size, of one record at least
  StepSeconds,    \* prediction_interval_seconds
  Horizon,        \* resolve_horizon_seconds
  Outputs,        \* outputs of the model: a number, or Raises
  Raises,
  Hours,          \* lengths of the metrics' windows
  MaxCalls,       \* bound: pulls and runs
  MaxFailures     \* bound: failed or torn downloads

ASSUME BacktestAssumption ==
  /\ Feed \subseteq Nat
  /\ {DayLength, WindowSize} \subseteq Nat \ {0}
  /\ {StepSeconds, Horizon} \subseteq Nat
  /\ Hours \subseteq Nat
  /\ {MaxCalls, MaxFailures} \subseteq Nat

VARIABLES
  server,   \* times of the records in the coordinator's files
  cache,    \* [day -> times, or Torn], a partial function
  call,     \* the pull or run under way, or NoCall
  result,   \* what the last run returned, or NoResult
  calls, failures

backtestVars == <<server, cache, call, result, calls, failures>>

Day(t)   == t \div DayLength
Days     == {Day(t) : t \in Feed}
Torn     == {-1}   \* a file that cannot be read
NoCall   == [kind |-> "none"]
NoResult == [data |-> <<>>]
NoActual == -1

-----------------------------------------------------------------------------
BacktestInit ==
  /\ server = {}
  /\ cache = <<>>
  /\ call = NoCall
  /\ result = NoResult
  /\ calls = 0
  /\ failures = 0

(* A backfill job writes a page. *)
Backfilled ==
  /\ \E t \in Feed \ server : server' = server \cup {u \in Feed : u <= t}
  /\ UNCHANGED <<cache, call, result, calls, failures>>

Listed(start, end) == {d \in start..end : \E t \in server : Day(t) = d}

(* pull: the index first, then the files it lists for the period. *)
StartPull(start, end, refresh) ==
  call' = [kind |-> "pull", start |-> start, end |-> end, refresh |-> refresh,
           left |-> Listed(start, end), had |-> server]

Pull ==
  /\ call = NoCall
  /\ calls < MaxCalls
  /\ calls' = calls + 1
  /\ \E start, end \in Days, refresh \in BOOLEAN : StartPull(start, end, refresh)
  /\ UNCHANGED <<server, cache, result, failures>>

(* run pulls its period, but only when it finds no file at all. *)
Run ==
  /\ call = NoCall
  /\ calls < MaxCalls
  /\ calls' = calls + 1
  /\ \E start, end \in Days, output \in Outputs :
       call' = [kind |-> "run", start |-> start, end |-> end, refresh |-> FALSE,
                left |-> IF DOMAIN cache = {} THEN Listed(start, end) ELSE {},
                had |-> IF DOMAIN cache = {} THEN server ELSE {}, output |-> output]
  /\ UNCHANGED <<server, cache, result, failures>>

Downloading == call # NoCall /\ call.left # {}

(* The cache once a day's file was written. *)
Written(day, file) ==
  [d \in DOMAIN cache \cup {day} |-> IF d = day THEN file ELSE cache[d]]

Download ==
  /\ Downloading
  /\ LET d == Min(call.left)
     IN  /\ cache' = IF d \in DOMAIN cache /\ ~call.refresh THEN cache
                     ELSE Written(d, {t \in server : Day(t) = d})
         /\ call' = [call EXCEPT !.left = @ \ {d}]
  /\ UNCHANGED <<server, result, calls, failures>>

(* A request fails, or a write is cut short, or the file was being          *)
(* rewritten: the call raises, and what was written stays in the cache.     *)
DownloadFails ==
  /\ Downloading
  /\ failures < MaxFailures
  /\ failures' = failures + 1
  /\ \/ UNCHANGED cache
     \/ /\ Min(call.left) \notin DOMAIN cache \/ call.refresh
        /\ cache' = Written(Min(call.left), Torn)
  /\ call' = NoCall
  /\ UNCHANGED <<server, result, calls>>

EndPull ==
  /\ call.kind = "pull"
  /\ call.left = {}
  /\ call' = NoCall
  /\ UNCHANGED <<server, cache, result, calls, failures>>

-----------------------------------------------------------------------------
(* The replay of records in the order of their times *)

(* The elements of a set of numbers, from the least. *)
InOrder(S) ==
  [k \in 1..Cardinality(S) |-> CHOOSE t \in S : Cardinality({u \in S : u <= t}) = k]

Records(days) == InOrder(UNION {cache[d] : d \in days})

(* The last position predicted at, up to each position: the first full      *)
(* window is passed over, and then at least StepSeconds lie between two.    *)
LastPredicted(data) ==
  LET f[i \in 1..Len(data)] ==
        IF i <= WindowSize THEN 0
        ELSE LET last == f[i - 1]
             IN  IF last = 0 \/ data[i] - data[last] >= StepSeconds THEN i ELSE last
  IN  f

Predicted(data) == {i \in DOMAIN data : LastPredicted(data)[i] = i}

(* Variant with an error: the window goes one record too far. *)
WindowPastNow(data, i) == SubSeq(data, i - WindowSize + 2, Min({i + 1, Len(data)}))

Window(data, i) == SubSeq(data, i - WindowSize + 1, i)

(* The first record at or after the horizon, however long after it. *)
_find_actual(data, i) ==
  LET later == {j \in i..Len(data) : data[j] >= data[i] + Horizon}
  IN  IF later = {} THEN NoActual ELSE data[Min(later)]

(* An output that is an exception counts as the default output, 0. *)
_coerce_output(output) == IF output = Raises THEN 0 ELSE output

_basic_score(value, entry, resolved) ==
  LET profit == Price[resolved] - Price[entry]
  IN  IF value * profit > 0 \/ value = 0 THEN 1 ELSE -1

Prediction(data, i, output) ==
  LET actual == _find_actual(data, i)
  IN  [ts |-> data[i], window |-> Window(data, i), actual |-> actual,
       score |-> IF actual = NoActual THEN 0
                 ELSE _basic_score(_coerce_output(output), data[i], actual)]

Predictions(data, output) ==
  LET at == InOrder(Predicted(data))
  IN  [k \in DOMAIN at |-> Prediction(data, at[k], output)]

Scored(predictions) == {i \in DOMAIN predictions : predictions[i].actual # NoActual}

SumOfScores(predictions, S) == MapThenSumSet(LAMBDA i : predictions[i].score, S)

(* The average over the scored predictions in a window that ends with the   *)
(* last of them, as <<sum, number>>.                                        *)
_compute_metrics(predictions) ==
  [h \in Hours |->
     IF Scored(predictions) = {} THEN <<0, 0>>
     ELSE LET now == predictions[Max(Scored(predictions))].ts
              S   == {i \in Scored(predictions) : predictions[i].ts >= now - h}
          IN  <<SumOfScores(predictions, S), Cardinality(S)>>]

(* The files of the period, when there are any and all can be read. *)
Replay ==
  LET days == {d \in DOMAIN cache : d \in call.start..call.end}
  IN  IF days = {} \/ \E d \in days : cache[d] = Torn THEN NoResult
      ELSE LET data == Records(days)
               predictions == Predictions(data, call.output)
           IN  [data |-> data, predictions |-> predictions, had |-> call.had,
                start |-> call.start, end |-> call.end,
                metrics |-> _compute_metrics(predictions)]

EndRun ==
  /\ call.kind = "run"
  /\ call.left = {}
  /\ result' = Replay
  /\ call' = NoCall
  /\ UNCHANGED <<server, cache, calls, failures>>

BacktestNext ==
  \/ Backfilled \/ Pull \/ Run \/ Download \/ DownloadFails \/ EndPull \/ EndRun

BacktestSpec == BacktestInit /\ [][BacktestNext]_backtestVars
-----------------------------------------------------------------------------
(* Properties *)

(* No prediction of a run sees a record later than itself or is asked for   *)
(* without a full window of the records just before it; two are at least an *)
(* interval apart; each is scored against the first record its horizon away *)
(* or later; and the metrics of a longer window are over no fewer of them.  *)
(* A run that pulled replays all the coordinator had when it began.         *)
ReplayIsSound ==
  result # NoResult =>
    LET p == result.predictions
        d == ToSet(result.data)
    IN  /\ \A k \in DOMAIN p :
             /\ ToSet(p[k].window) \subseteq {t \in d : t <= p[k].ts}
             /\ Cardinality(ToSet(p[k].window)) = WindowSize
             /\ \A t \in d : t <= p[k].ts /\ t > Min(ToSet(p[k].window)) => t \in ToSet(p[k].window)
             /\ \A j \in DOMAIN p : j < k => p[k].ts - p[j].ts >= StepSeconds
             /\ \A t \in d : t >= p[k].ts + Horizon =>
                  p[k].actual \in (p[k].ts + Horizon)..t
        /\ \A g, h \in Hours : g <= h => result.metrics[g][2] <= result.metrics[h][2]
        /\ {t \in result.had : Day(t) \in result.start..result.end} \subseteq d
=============================================================================
