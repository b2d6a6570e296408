----------------------------- MODULE Tournament -----------------------------
(***************************************************************************)
(* Rounds of a tournament.  The API of the report-worker has one service:   *)
(* an inference request asks every model for a prediction of each sample    *)
(* and saves them; a scoring request matches the pending predictions of a   *)
(* round with its ground truth, by position, scores them and writes a       *)
(* snapshot for each model.  Requests are coroutines of one loop, and leave *)
(* it only while the model runner is awaited.  The score-worker is another  *)
(* process: tournament predictions have no time to resolve at, the table    *)
(* stores the time they were made for it, so it finds them due at once and  *)
(* takes the round's input for the ground truth.                            *)
(*                                                                         *)
(* One session serves the service and nothing rolls it back.  The sync of   *)
(* the models' own rows is in PredictWorker and the leaderboard in Ranking. *)
(***************************************************************************)
EXTENDS Integers, FiniteSets, Sequences

CONSTANTS
  Models,
  Rounds,
  Matches,      \* [Rounds -> SUBSET Rounds]: rounds LIKE this one's pattern
  Outcomes,     \* [Models -> SUBSET {"PENDING", "FAILED", "missing"}]
  Samples,      \* features in an inference request
  MaxRequests,  \* bound: inference requests
  Limits        \* bounds of a behaviour: [requests, scorings, cycles (of the
                \*   score-worker), faults (failed commits, errors, restarts)]

ASSUME TournamentAssumption ==
  /\ Matches \in [Rounds -> SUBSET Rounds] /\ \A r \in Rounds : r \in Matches[r]
  /\ Outcomes \in [Models -> SUBSET {"PENDING", "FAILED", "missing"}]
  /\ Samples \in Nat \ {0}
  /\ MaxRequests \in Nat
  /\ Limits \subseteq [requests : 0..MaxRequests, scorings : Nat, cycles : Nat, faults : Nat]

(* A prediction's id names its request, sample and model; the request number *)
(* stands for the time at which it began.                                   *)
Id == (1..MaxRequests) \X (1..Samples) \X Models

VARIABLES
  \* tables
  rows,         \* [Id -> status]
  scores,       \* [Id -> truth it was scored against]
  counted,      \* [Id -> number of snapshots that count it]
  latest,       \* [Models -> predictions of the model's latest snapshot]
  \* the report-worker
  requests,     \* inference requests: [round, step, own (the runner it found),
                \*   sample, answers, todo]
  scoring,      \* the scoring request: [todo, done]
  session,      \* "ok", or "failed" until the process starts again
  known,        \* known_models
  runner,       \* [service, kernel, initialized, created, ready, tasks]
  worker,       \* the score-worker's cycle: [todo, done]
  \* history
  shared,       \* predictions both processes had in hand
  lost,         \* scored, and their process was cut short before the snapshot,
                \*   or the snapshot was replaced
  taken,        \* found by the score-worker
  broken,       \* found by a scoring that left some of its model's pending
  mixed,        \* found by a scoring with its model's of another request
  crossed,      \* a first request overlapped another, or the runner failed
  left          \* what the bounds still allow

tables  == <<rows, scores, counted, latest>>
report  == <<requests, scoring, session, known, runner>>
history == <<shared, lost, taken, broken, mixed, crossed, left>>
vars    == <<tables, report, worker, history>>

Idle     == [todo |-> {}, done |-> {}]
NoRunner == 0
NoTruth  == <<"none", 0>>
InputAsTruth == <<"input", 0>>
FreshRunner ==
  [service |-> NoRunner, kernel |-> NoRunner, initialized |-> FALSE,
   created |-> 0, ready |-> {}, tasks |-> 0]

Init ==
  /\ rows = [p \in Id |-> "none"]
  /\ scores = [p \in Id |-> NoTruth]
  /\ counted = [p \in Id |-> 0]
  /\ latest = [m \in Models |-> {}]
  /\ requests = <<>> /\ scoring = Idle
  /\ session = "ok" /\ known = {} /\ runner = FreshRunner
  /\ worker = Idle
  /\ shared = {} /\ lost = {} /\ taken = {} /\ broken = {} /\ mixed = {}
  /\ crossed = FALSE
  /\ left \in Limits

-----------------------------------------------------------------------------
Allowed(kind) == left[kind] > 0 /\ left' = [left EXCEPT ![kind] = @ - 1]
Fault == Allowed("faults")

(* What a request held is gone with it. *)
Over(request, step) ==
  [round |-> request.round, step |-> step, own |-> NoRunner, sample |-> 1,
   answers |-> {}, todo |-> {}]

RoundOf(p) == requests[p[1]].round
InHand(h)  == {a[1] : a \in h.todo}

(* What is saved or scored in one go keeps the loop. *)
LoopIsFree ==
  /\ scoring = Idle
  /\ \A q \in DOMAIN requests : requests[q].step # "save"

(* find: by performed_at, the samples of a request a microsecond apart. *)
FoundBefore(p, q) == p[1] < q[1] \/ (p[1] = q[1] /\ p[2] < q[2])

-----------------------------------------------------------------------------
(* run_inference *)

(* init_runner of the service: a runner of the kernel that is not the       *)
(* service's is replaced by the service's, and None then by a new one.      *)
Aligned(k) ==
  IF k.service = k.kernel THEN k
  ELSE [k EXCEPT !.kernel = k.service, !.initialized = FALSE]

(* Variant with an error: each request has a runner of its own. *)
ProvidedAnew(k) == [k EXCEPT !.kernel = k.created + 1, !.created = k.created + 1]

Provided(k) ==
  IF k.kernel # NoRunner THEN k
  ELSE [k EXCEPT !.kernel = k.created + 1, !.created = k.created + 1]

StartInference ==
  /\ LoopIsFree
  /\ Allowed("requests")
  /\ LET k == Provided(Aligned(runner))
     IN  /\ \E r \in Rounds :
              requests' = Append(requests,
                [round |-> r, step |-> IF k.initialized THEN "call" ELSE "init",
                 own |-> k.kernel, sample |-> 1, answers |-> {}, todo |-> {}])
         /\ runner' = [k EXCEPT !.service = IF k.initialized THEN k.kernel ELSE @]
  /\ crossed' = (crossed \/ \E q \in DOMAIN requests : requests[q].step = "init")
  /\ UNCHANGED <<tables, scoring, session, known, worker, shared, lost, taken,
                 broken, mixed>>

(* init() has returned; the sync task is for the runner there is now, which *)
(* another request may have put there.                                      *)
EndInit(q) ==
  /\ LoopIsFree
  /\ requests[q].step = "init"
  /\ requests' = [requests EXCEPT ![q].step = "call"]
  /\ runner' = [runner EXCEPT !.initialized = TRUE, !.tasks = @ + 1,
                  !.service = runner.kernel, !.ready = @ \cup {requests[q].own}]
  /\ UNCHANGED <<tables, scoring, session, known, worker, history>>

InitFails(q) ==
  /\ LoopIsFree /\ Fault
  /\ requests[q].step = "init"
  /\ requests' = [requests EXCEPT ![q] = Over(@, "failed")]
  /\ crossed' = TRUE
  /\ UNCHANGED <<tables, scoring, session, known, runner, worker, shared, lost,
                 taken, broken, mixed>>

Answers(q, outcome) ==
  {<<<<q, requests[q].sample, m>>, outcome[m]>> :
     m \in {n \in Models : outcome[n] # "missing"}}

(* Known models that answered no sample are absent from all of them. *)
Absent(q, answers) ==
  {<<<<q, s, m>>, "ABSENT">> :
     s \in 1..Samples, m \in known \ {a[1][3] : a \in answers}}

(* The input's row is committed before the first call.  Each call is an      *)
(* await: every model that is connected answers the sample or fails; a      *)
(* runner whose init() has not returned may have none.                      *)
CallModels(q) ==
  /\ LoopIsFree
  /\ requests[q].step = "call"
  /\ requests[q].sample = 1 => session = "ok"
  /\ \E outcome \in [Models -> {"PENDING", "FAILED", "missing"}] :
       /\ \A m \in Models :
            outcome[m] \in Outcomes[m] \cup
              (IF runner.service \in runner.ready THEN {} ELSE {"missing"})
       /\ LET x       == requests[q]
              answers == x.answers \cup Answers(q, outcome)
          IN  /\ requests' = [requests EXCEPT ![q] =
                   IF x.sample = Samples
                   THEN [x EXCEPT !.step = "save", !.answers = {},
                                  !.todo = answers \cup Absent(q, answers)]
                   ELSE [x EXCEPT !.sample = @ + 1, !.answers = answers]]
              /\ known' = known \cup {a[1][3] : a \in Answers(q, outcome)}
  /\ UNCHANGED <<tables, scoring, session, runner, worker, history>>

(* save_all: one commit for each, absences last. *)
SavePrediction(q) ==
  /\ requests[q].step = "save"
  /\ session = "ok"
  /\ requests[q].todo # {}
  /\ \E a \in requests[q].todo :
       /\ \A b \in requests[q].todo :
            /\ b[2] # "ABSENT" => a[2] # "ABSENT"
            /\ (b[2] = "ABSENT") = (a[2] = "ABSENT") => a[1][2] <= b[1][2]
       /\ rows' = [rows EXCEPT ![a[1]] = a[2]]
       /\ requests' = [requests EXCEPT ![q].todo = @ \ {a}]
  /\ UNCHANGED <<scores, counted, latest, scoring, session, known, runner, worker, history>>

EndInference(q) ==
  /\ requests[q].step = "save"
  /\ requests[q].todo = {}
  /\ requests' = [requests EXCEPT ![q] = Over(@, "done")]
  /\ UNCHANGED <<tables, scoring, session, known, runner, worker, history>>

(* A commit that raises, or the first call on a session that waits for a    *)
(* rollback: the request ends and what it holds is gone.                    *)
InferenceFails(q) ==
  /\ \/ requests[q].step = "save"
     \/ requests[q].step = "call" /\ requests[q].sample = 1 /\ LoopIsFree
  /\ \/ session = "failed" /\ UNCHANGED left
     \/ session = "ok" /\ Fault
  /\ session' = "failed"
  /\ requests' = [requests EXCEPT ![q] = Over(@, "failed")]
  /\ UNCHANGED <<tables, scoring, known, runner, worker, shared, lost, taken,
                 broken, mixed, crossed>>

-----------------------------------------------------------------------------
(* score_round *)

PendingOf(r) ==
  {p \in Id : rows[p] = "PENDING" /\ RoundOf(p) \in Matches[r]}

(* Where p stands among T: by feature_index, those of one index as found.   *)
Position(p, T) ==
  Cardinality({q \in T : q[2] < p[2] \/ (q[2] = p[2] /\ ~FoundBefore(p, q))})

OfModel(S, m) == {p \in S : p[3] = m}

(* Variant with an error: the models' predictions are not told apart. *)
PairedTogether(S, r, n) ==
  {<<p, <<r, Position(p, S)>>>> : p \in {q \in S : Position(q, S) <= n}}

(* Each model's predictions with the items of the ground truth at their      *)
(* positions; what has no item is left out.                                 *)
Paired(S, r, n) ==
  {<<p, <<r, Position(p, OfModel(S, p[3]))>>>> :
     p \in {q \in S : Position(q, OfModel(S, q[3])) <= n}}

(* The ground truth has n items. *)
StartScoring ==
  /\ LoopIsFree /\ session = "ok"
  /\ Allowed("scorings")
  /\ \E r \in {requests[q].round : q \in DOMAIN requests}, n \in 1..(Samples + 1) :
       LET S == PendingOf(r)
       IN  /\ S # {}
           /\ scoring' = [Idle EXCEPT !.todo = Paired(S, r, n)]
           /\ broken' = broken \cup
                {p \in S : \E q \in S : q[3] = p[3] /\ q \notin InHand(scoring')}
           /\ shared' = shared \cup (S \cap InHand(worker))
           /\ mixed' = mixed \cup {p \in S : \E q \in S : q[3] = p[3] /\ q[1] # p[1]}
  /\ UNCHANGED <<tables, requests, session, known, runner, worker, lost, taken, crossed>>

(* One commit for the score, the next for the status: here and in the       *)
(* score-worker the steps of the process h with an entry a of its list.     *)
SavedScore(a)  == scores' = [scores EXCEPT ![a[1]] = a[2]]
SavedStatus(a) == rows' = [rows EXCEPT ![a[1]] = "SCORED"]
Taken(h, a)  == [h EXCEPT !.done = @ \cup {a[1]}]
Passed(h, a) == [h EXCEPT !.todo = @ \ {a}]

(* One model after the other, each by position. *)
Begun(m) == \E p \in scoring.done : p[3] = m
IsNext(a) ==
  \A b \in scoring.todo :
    /\ Begun(b[1][3]) => Begun(a[1][3])
    /\ b[1][3] = a[1][3] => a[2][2] <= b[2][2]

ScoreNext ==
  /\ session = "ok"
  /\ \E a \in scoring.todo :
       /\ IsNext(a)
       /\ IF a[1] \in scoring.done
          THEN SavedStatus(a) /\ scoring' = Passed(scoring, a) /\ UNCHANGED scores
          ELSE SavedScore(a) /\ scoring' = Taken(scoring, a) /\ UNCHANGED rows
  /\ UNCHANGED <<counted, latest, requests, session, known, runner, worker, history>>

(* Variant with an error: the snapshot counts every scored prediction of    *)
(* the model.                                                               *)
CountedAll(h, m) == {p \in Id : rows[p] = "SCORED" /\ p[3] = m}

CountedBy(h, m) == {p \in h.done : p[3] = m}

(* A snapshot for each model scored, one commit each, in a second session.  *)
(* Its id has the second of its time: one of the same second is replaced,   *)
(* the latest of the model.  To replace an older one a process would have   *)
(* to save, later than another, a snapshot of an earlier second.            *)
WriteSnapshot(h, m) ==
  LET new == CountedBy(h, m)
      Added(p) == IF p \in new THEN 1 ELSE 0
  IN  /\ latest' = [latest EXCEPT ![m] = new]
      /\ \/ /\ counted' = [p \in Id |-> counted[p] + Added(p)]
            /\ UNCHANGED lost
         \/ /\ latest[m] # {}
            /\ counted' = [p \in Id |->
                 counted[p] + Added(p) - (IF p \in latest[m] THEN 1 ELSE 0)]
            /\ lost' = lost \cup (latest[m] \ new)
Without(h, m) == [h EXCEPT !.done = {p \in @ : p[3] # m}]

BuildSnapshot ==
  /\ scoring.todo = {} /\ scoring.done # {}
  /\ \E m \in {p[3] : p \in scoring.done} :
       WriteSnapshot(scoring, m) /\ scoring' = Without(scoring, m)
  /\ UNCHANGED <<rows, scores, requests, session, known, runner, worker, shared,
                 taken, broken, mixed, crossed, left>>

(* Predictions that are done with, and those whose status was not saved.    *)
Unfinished(h) == InHand(h) \cap h.done

(* An output that does not fit its type, a commit that raises.              *)
ScoringFails ==
  /\ scoring # Idle /\ Fault
  /\ session' \in {"ok", "failed"}
  /\ scoring' = Idle
  /\ lost' = lost \cup (scoring.done \ Unfinished(scoring))
  /\ broken' = broken \cup scoring.done \cup InHand(scoring)
  /\ UNCHANGED <<tables, requests, known, runner, worker, shared, taken, mixed,
                 crossed>>

-----------------------------------------------------------------------------
(* The score-worker's cycle over the same table. *)
WorkerFinds ==
  /\ worker = Idle
  /\ Allowed("cycles")
  /\ LET S == {p \in Id : rows[p] = "PENDING"}
     IN  /\ S # {}
         /\ worker' = [Idle EXCEPT !.todo = {<<p, InputAsTruth>> : p \in S}]
         /\ taken' = taken \cup S
         /\ shared' = shared \cup (S \cap (InHand(scoring) \cup scoring.done))
  /\ UNCHANGED <<tables, report, lost, broken, mixed, crossed>>

WorkerScores ==
  /\ \E a \in worker.todo :
       /\ \A b \in worker.todo :
            ~FoundBefore(b[1], a[1]) /\ (b[1] \in worker.done => b = a)
       /\ IF a[1] \in worker.done
          THEN SavedStatus(a) /\ worker' = Passed(worker, a) /\ UNCHANGED scores
          ELSE SavedScore(a) /\ worker' = Taken(worker, a) /\ UNCHANGED rows
  /\ UNCHANGED <<counted, latest, report, history>>

WorkerSnapshots ==
  /\ worker.todo = {} /\ worker.done # {}
  /\ \E m \in {p[3] : p \in worker.done} :
       WriteSnapshot(worker, m) /\ worker' = Without(worker, m)
  /\ UNCHANGED <<rows, scores, report, shared, taken, broken, mixed, crossed, left>>

(* A scoring function that cannot read an input, a commit that raises, or a *)
(* restart: the cycle ends where it is.                                     *)
WorkerFails ==
  /\ worker # Idle /\ Fault
  /\ worker' = Idle
  /\ lost' = lost \cup (worker.done \ Unfinished(worker))
  /\ UNCHANGED <<tables, report, shared, taken, broken, mixed, crossed>>

-----------------------------------------------------------------------------
(* The report-worker starts again. *)
Restart ==
  /\ requests # <<>> /\ Fault
  /\ requests' = [q \in DOMAIN requests |->
       IF requests[q].step = "done" THEN requests[q] ELSE Over(requests[q], "failed")]
  /\ scoring' = Idle /\ session' = "ok" /\ known' = {} /\ runner' = FreshRunner
  /\ lost' = lost \cup (scoring.done \ Unfinished(scoring))
  /\ broken' = broken \cup scoring.done \cup InHand(scoring)
  /\ crossed' = FALSE
  /\ UNCHANGED <<tables, worker, shared, taken, mixed>>

Inference(q) ==
  \/ EndInit(q) \/ InitFails(q) \/ CallModels(q)
  \/ SavePrediction(q) \/ EndInference(q) \/ InferenceFails(q)

Next ==
  \/ StartInference \/ \E q \in DOMAIN requests : Inference(q)
  \/ StartScoring \/ ScoreNext \/ BuildSnapshot \/ ScoringFails
  \/ WorkerFinds \/ WorkerScores \/ WorkerSnapshots \/ WorkerFails
  \/ Restart

Spec == Init /\ [][Next]_vars

-----------------------------------------------------------------------------
(* Properties *)

Siblings(p) == {q \in Id : q[1] = p[1] /\ q[3] = p[3]}

(* The model answered every sample of the request, the score-worker found   *)
(* none of them, and no scoring left some of them pending.                  *)
Undisturbed(p) ==
  /\ \A q \in Siblings(p) : rows[q] \in {"PENDING", "SCORED"}
  /\ Siblings(p) \cap (taken \cup broken) = {}

(* The truth is of a round whose pattern finds the prediction's, and no item *)
(* after the prediction's own; its own if nothing disturbed the model.      *)
Fits(p, truth) ==
  /\ RoundOf(p) \in Matches[truth[1]]
  /\ truth[2] <= p[2]
  /\ Undisturbed(p) => truth[2] = p[2]

(* tournament_predict.py:200: a model's predictions "are sorted by          *)
(* feature_index and scored 1:1 against the corresponding ground truth      *)
(* item".  So they are, however many requests are under way, wherever the   *)
(* score-worker and the failures cut in, unless a scoring finds those of    *)
(* two requests together: a round asked for twice, or found by the other's   *)
(* pattern, before the first is scored.  A model that missed samples, or    *)
(* lost some to the score-worker or to a scoring cut short, has the others   *)
(* moved forward, never back; only what the score-worker found may have the  *)
(* round's input for its truth.                                             *)
OwnTruth ==
  \A p \in Id :
    /\ scores[p] = InputAsTruth => p \in taken
    /\ p \notin mixed /\ scores[p] \notin {NoTruth, InputAsTruth} => Fits(p, scores[p])

(* tournament.py:257: a prediction that is scored has its score, and counts *)
(* in one snapshot once its process is done with it, unless that process    *)
(* was cut short or another snapshot of the same second replaced it; it     *)
(* counts twice only if both processes had it in hand.                      *)
CountedOnce ==
  \A p \in Id :
    /\ rows[p] = "SCORED" => scores[p] # NoTruth
    /\ p \notin shared => counted[p] <= 1
    /\ rows[p] = "SCORED" /\ p \notin scoring.done \cup worker.done \cup shared \cup lost
       => counted[p] = 1

(* predict.py:165: service and kernel agree on the runner once a request    *)
(* has one, and unless first requests overlap or the runner fails to start, *)
(* there is one, it was ready before it was used, and one task syncs it.    *)
OneRunner ==
  /\ runner.service # NoRunner => runner.service = runner.kernel /\ runner.initialized
  /\ ~crossed =>
       /\ runner.created <= 1 /\ runner.tasks <= 1
       /\ runner.initialized => runner.service \in runner.ready
=============================================================================
