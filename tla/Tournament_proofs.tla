------------------------- MODULE Tournament_proofs -------------------------
(***************************************************************************)
(* Theorems of Tournament: for any models and rounds, however their names   *)
(* match, any number of samples and requests, and any bounds.               *)
(***************************************************************************)
EXTENDS Tournament, FiniteSetTheorems, SequenceTheorems, TLAPS

-----------------------------------------------------------------------------
(* Types *)

Status  == {"none", "PENDING", "FAILED", "ABSENT", "SCORED"}
Answer  == Id \X {"PENDING", "FAILED", "ABSENT"}
Truth   == {NoTruth, InputAsTruth} \cup (Rounds \X Nat)
Process == [todo : SUBSET (Id \X Truth), done : SUBSET Id]
Request ==
  [round : Rounds, step : {"init", "call", "save", "done", "failed"}, own : Nat,
   sample : 1..Samples, answers : SUBSET Answer, todo : SUBSET Answer]
Runner  ==
  [service : Nat, kernel : Nat, initialized : BOOLEAN, created : Nat,
   ready : SUBSET Nat, tasks : Nat]
Bounds  == [requests : 0..MaxRequests, scorings : Nat, cycles : Nat, faults : Nat]

TablesOK ==
  /\ rows \in [Id -> Status]
  /\ scores \in [Id -> Truth]
  /\ counted \in [Id -> Int]
  /\ latest \in [Models -> SUBSET Id]

ReportOK ==
  /\ requests \in Seq(Request)
  /\ scoring \in Process
  /\ session \in {"ok", "failed"}
  /\ known \subseteq Models
  /\ runner \in Runner

HistoryOK ==
  /\ shared \subseteq Id /\ lost \subseteq Id /\ taken \subseteq Id /\ broken \subseteq Id
  /\ crossed \in BOOLEAN
  /\ left \in Bounds
  /\ Len(requests) + left.requests <= MaxRequests

TypeOK == TablesOK /\ ReportOK /\ worker \in Process /\ HistoryOK

-----------------------------------------------------------------------------
(* The inductive invariants *)

InInit(q) == requests[q].step = "init"

(* The service has a runner exactly when it is initialized, and then it is  *)
(* the kernel's.  Unless first requests overlap, one runner was made, the   *)
(* only request that awaits its start found it, and it has no task yet.     *)
RunnerInv ==
  /\ runner.initialized <=> runner.service # NoRunner
  /\ runner.initialized => runner.service = runner.kernel
  /\ \A q \in DOMAIN requests : InInit(q) => runner.kernel # NoRunner
  /\ ~crossed =>
       /\ runner.created <= 1
       /\ runner.initialized => runner.tasks <= 1 /\ runner.service \in runner.ready
       /\ ~runner.initialized => runner.tasks = 0
       /\ \A q \in DOMAIN requests :
            InInit(q) => ~runner.initialized /\ requests[q].own = runner.kernel
       /\ \A q, t \in DOMAIN requests : InInit(q) /\ InInit(t) => q = t
       /\ ~runner.initialized /\ (\A q \in DOMAIN requests : ~InInit(q))
          => runner.created = 0 /\ runner.kernel = NoRunner

OneEach(A) == \A a, b \in A : a[1] = b[1] => a = b

IsOver(q) == q \in DOMAIN requests /\ requests[q].step \in {"done", "failed"}

(* A request asks for each sample once, so what it saves has no row yet,    *)
(* and only a request that has called its models has rows.                  *)
RequestInv ==
  /\ \A q \in DOMAIN requests :
       /\ InInit(q) => requests[q].answers = {}
       /\ requests[q].step = "call" =>
            /\ OneEach(requests[q].answers)
            /\ \A a \in requests[q].answers :
                 a[1][1] = q /\ a[1][2] < requests[q].sample
       /\ requests[q].step = "save" =>
            /\ OneEach(requests[q].todo)
            /\ \A a \in requests[q].todo : a[1][1] = q /\ rows[a[1]] = "none"
  /\ \A p \in Id : rows[p] # "none" =>
       p[1] \in DOMAIN requests /\ requests[p[1]].step \in {"save", "done", "failed"}

Held(h) == InHand(h) \cup h.done

(* What a process h holds is pending until it has saved its status, unless  *)
(* both processes hold it, and no snapshot counts it.                       *)
HandOK(h, rw, sc, ct, sh) ==
  /\ OneEach(h.todo)
  /\ \A a \in h.todo : a[2] # NoTruth
  /\ \A p \in Held(h) : rw[p] \in {"PENDING", "SCORED"}
  /\ \A p \in h.done : sc[p] # NoTruth
  /\ \A p \in InHand(h) \ sh : rw[p] = "PENDING"
  /\ \A p \in h.done \ InHand(h) : rw[p] = "SCORED"
  /\ \A p \in h.done \ sh : ct[p] = 0

(* Of two processes, given the tables and what was shared and lost.  What    *)
(* is counted has been scored for good, and the latest snapshots count what  *)
(* they hold.                                                               *)
CountsOK(h, g, rw, sc, ct, la, sh, lo) ==
  /\ HandOK(h, rw, sc, ct, sh) /\ HandOK(g, rw, sc, ct, sh)
  /\ Held(h) \cap Held(g) \subseteq sh
  /\ \A p \in Id : ct[p] >= 0 /\ (ct[p] > 0 => rw[p] = "SCORED")
  /\ \A m \in Models : \A p \in la[m] : p[3] = m /\ ct[p] > 0
  /\ \A p \in Id :
       /\ rw[p] = "SCORED" => sc[p] # NoTruth
       /\ p \notin sh => ct[p] <= 1
       /\ rw[p] = "SCORED" /\ p \notin h.done \cup g.done \cup sh \cup lo => ct[p] = 1

CountInv == CountsOK(scoring, worker, rows, scores, counted, latest, shared, lost)

(* OwnTruth's second part for one prediction. *)
FitsOwn(p) ==
  p \notin mixed /\ scores[p] \notin {NoTruth, InputAsTruth} => Fits(p, scores[p])

(* What a scoring holds it found with all of the model's pending for that   *)
(* request, which had ended; what it left is broken.                        *)
Together(q, S) ==
  \/ q \in taken \cup broken
  \/ \A p \in Siblings(q) : rows[p] = "PENDING" => p \in S \cup taken \cup broken

Asked(p) == p[1] \in DOMAIN requests /\ (p \in taken \/ IsOver(p[1]))

TruthInv ==
  /\ \A p \in Id : scores[p] # NoTruth => Asked(p)
  /\ \A a \in worker.todo : a[1] \in taken /\ a[2] = InputAsTruth
  /\ \A a \in scoring.todo :
       /\ IsOver(a[1][1]) /\ a[2] # InputAsTruth
       /\ a[1] \notin mixed => Fits(a[1], a[2])
  /\ \A q \in InHand(scoring) : Together(q, InHand(scoring))
  /\ \A q \in Id : rows[q] = "SCORED" => Together(q, InHand(scoring))
  /\ OwnTruth

-----------------------------------------------------------------------------
(* Predictions and requests *)

(* An id is a triple of its parts. *)
LEMMA IdParts ==
  /\ \A p \in Id : /\ p[1] \in 1..MaxRequests /\ p[2] \in 1..Samples /\ p[3] \in Models
                   /\ p = <<p[1], p[2], p[3]>>
  /\ \A q \in 1..MaxRequests, s \in 1..Samples, m \in Models :
       /\ <<q, s, m>> \in Id
       /\ <<q, s, m>>[1] = q /\ <<q, s, m>>[2] = s /\ <<q, s, m>>[3] = m
BY DEF Id

(* Requests are numbered from 1. *)
LEMMA RequestsNumbered ==
  TypeOK => /\ Len(requests) \in Nat /\ DOMAIN requests = 1..Len(requests)
            /\ DOMAIN requests \subseteq 1..MaxRequests
            /\ \A q \in DOMAIN requests : requests[q] \in Request
<1> SUFFICES ASSUME TypeOK
             PROVE  /\ Len(requests) \in Nat /\ DOMAIN requests = 1..Len(requests)
                    /\ DOMAIN requests \subseteq 1..MaxRequests
                    /\ \A q \in DOMAIN requests : requests[q] \in Request
  OBVIOUS
<1>1. requests \in Seq(Request)
  BY DEF TypeOK, ReportOK
<1>2. Len(requests) \in Nat /\ DOMAIN requests = 1..Len(requests)
  BY <1>1, LenProperties
<1>3. \A q \in DOMAIN requests : requests[q] \in Request
  BY <1>1, <1>2, ElementOfSeq
<1>4. MaxRequests \in Nat /\ left.requests \in 0..MaxRequests /\ Len(requests) + left.requests <= MaxRequests
  BY TournamentAssumption DEF TypeOK, HistoryOK, Bounds
<1>5. Len(requests) <= MaxRequests
  BY <1>2, <1>4
<1> QED
  BY <1>2, <1>3, <1>4, <1>5

(* A step of one request leaves the others and their numbers. *)
LEMMA OneRequestChanges ==
  ASSUME TypeOK, NEW q \in DOMAIN requests, NEW e \in Request,
         requests' = [requests EXCEPT ![q] = e]
  PROVE  /\ requests' \in Seq(Request) /\ Len(requests') = Len(requests)
         /\ DOMAIN requests' = DOMAIN requests
         /\ requests'[q] = e
         /\ \A t \in DOMAIN requests : t # q => requests'[t] = requests[t]
<1>1. requests \in Seq(Request)
  BY DEF TypeOK, ReportOK
<1>2. DOMAIN requests = 1..Len(requests)
  BY <1>1, LenProperties
<1>3. /\ requests' \in Seq(Request) /\ Len(requests') = Len(requests)
      /\ \A j \in 1..Len(requests) : requests'[j] = IF j = q THEN e ELSE requests[j]
  BY <1>1, <1>2, ExceptSeq
<1> QED
  BY <1>2, <1>3, LenProperties

(* A new request is the last. *)
LEMMA OneRequestMore ==
  ASSUME TypeOK, NEW e \in Request, requests' = Append(requests, e)
  PROVE  /\ requests' \in Seq(Request) /\ Len(requests') = Len(requests) + 1
         /\ DOMAIN requests' = DOMAIN requests \cup {Len(requests) + 1}
         /\ Len(requests) + 1 \notin DOMAIN requests
         /\ requests'[Len(requests) + 1] = e
         /\ \A t \in DOMAIN requests : requests'[t] = requests[t]
<1>1. requests \in Seq(Request)
  BY DEF TypeOK, ReportOK
<1>2. DOMAIN requests = 1..Len(requests) /\ Len(requests) \in Nat
  BY <1>1, LenProperties
<1>3. /\ requests' \in Seq(Request) /\ Len(requests') = Len(requests) + 1
      /\ requests'[Len(requests) + 1] = e
      /\ \A i \in 1..Len(requests) : requests'[i] = requests[i]
  BY <1>1, AppendProperties
<1>4. DOMAIN requests' = 1..(Len(requests) + 1)
  BY <1>3, LenProperties
<1> QED
  BY <1>2, <1>3, <1>4

-----------------------------------------------------------------------------
(* Types *)

(* What a call of the models answers, and what is saved for who is absent.  *)
LEMMA AnswersTyped ==
  ASSUME TypeOK, NEW q \in DOMAIN requests,
         NEW outcome \in [Models -> {"PENDING", "FAILED", "missing"}]
  PROVE  /\ Answers(q, outcome) \subseteq Answer
         /\ \A a \in Answers(q, outcome) : a[1][3] \in Models
         /\ \A A \in SUBSET Answer : Absent(q, A) \subseteq Answer
<1>1. q \in 1..MaxRequests /\ requests[q].sample \in 1..Samples
  BY RequestsNumbered DEF Request
<1>2. \A m \in Models : /\ <<q, requests[q].sample, m>> \in Id
                        /\ <<q, requests[q].sample, m>>[3] = m
  BY <1>1, IdParts
<1>3. \A m \in Models : outcome[m] # "missing" => outcome[m] \in {"PENDING", "FAILED"}
  OBVIOUS
<1>4. Answers(q, outcome) \subseteq Answer
  BY <1>2, <1>3 DEF Answers, Answer
<1>5. \A a \in Answers(q, outcome) : a[1][3] \in Models
  BY <1>2 DEF Answers
<1>6. known \subseteq Models
  BY DEF TypeOK, ReportOK
<1>7. \A s \in 1..Samples, m \in known : <<q, s, m>> \in Id
  BY <1>1, <1>6, IdParts
<1>8. \A A \in SUBSET Answer : Absent(q, A) \subseteq Answer
  BY <1>7 DEF Absent, Answer
<1> QED
  BY <1>4, <1>5, <1>8

(* The call of a request's models changes that request and known_models.    *)
LEMMA CallTyped ==
  ASSUME TypeOK, NEW q \in DOMAIN requests, CallModels(q)
  PROVE  \E e \in Request :
           /\ requests' = [requests EXCEPT ![q] = e] /\ e.round = requests[q].round
           /\ known' \subseteq Models
<1>1. PICK outcome \in [Models -> {"PENDING", "FAILED", "missing"}] :
        LET x       == requests[q]
            answers == x.answers \cup Answers(q, outcome)
        IN  /\ requests' = [requests EXCEPT ![q] =
                 IF x.sample = Samples
                 THEN [x EXCEPT !.step = "save", !.answers = {},
                                !.todo = answers \cup Absent(q, answers)]
                 ELSE [x EXCEPT !.sample = @ + 1, !.answers = answers]]
            /\ known' = known \cup {a[1][3] : a \in Answers(q, outcome)}
  BY DEF CallModels
<1> DEFINE answers == requests[q].answers \cup Answers(q, outcome)
           saving  == [requests[q] EXCEPT !.step = "save", !.answers = {},
                                          !.todo = answers \cup Absent(q, answers)]
           calling == [requests[q] EXCEPT !.sample = @ + 1, !.answers = answers]
<1>2. requests[q] \in Request
  BY RequestsNumbered
<1>3. answers \subseteq Answer
  BY <1>2, AnswersTyped DEF Request
<1>4. Absent(q, answers) \subseteq Answer
  BY <1>3, AnswersTyped
<1>5. saving \in Request /\ saving.round = requests[q].round
  BY <1>2, <1>3, <1>4 DEF Request
<1>6. ASSUME requests[q].sample # Samples
      PROVE  calling \in Request /\ calling.round = requests[q].round
  <2>1. requests[q].sample + 1 \in 1..Samples
    BY <1>2, <1>6, TournamentAssumption DEF Request
  <2> QED
    BY <1>2, <1>3, <2>1 DEF Request
<1>7. known' \subseteq Models
  BY <1>1, AnswersTyped DEF TypeOK, ReportOK
<1>8. CASE requests[q].sample = Samples
  <2>1. requests' = [requests EXCEPT ![q] = saving]
    BY <1>1, <1>8
  <2> QED
    BY <1>5, <1>7, <2>1
<1>9. CASE requests[q].sample # Samples
  <2>1. requests' = [requests EXCEPT ![q] = calling]
    BY <1>1, <1>9
  <2> QED
    BY <1>6, <1>7, <1>9, <2>1
<1> QED
  BY <1>8, <1>9

(* So does every step of a request: it leaves the round and, but for the    *)
(* first call, known_models.                                               *)
LEMMA InferenceTyped ==
  ASSUME TypeOK, NEW q \in DOMAIN requests, Inference(q)
  PROVE  \E e \in Request :
           requests' = [requests EXCEPT ![q] = e] /\ e.round = requests[q].round
<1>1. requests[q] \in Request /\ 1 \in 1..Samples
  BY RequestsNumbered, TournamentAssumption
<1>2. \A step \in {"done", "failed"} :
        Over(requests[q], step) \in Request /\ Over(requests[q], step).round = requests[q].round
  BY <1>1 DEF Over, Request, NoRunner
<1>3. CASE EndInit(q)
  <2> DEFINE e == [requests[q] EXCEPT !.step = "call"]
  <2>1. e \in Request /\ e.round = requests[q].round
    BY <1>1 DEF Request
  <2>2. requests' = [requests EXCEPT ![q] = e]
    BY <1>3 DEF EndInit
  <2> QED
    BY <2>1, <2>2
<1>4. CASE InitFails(q)
  <2>1. requests' = [requests EXCEPT ![q] = Over(requests[q], "failed")]
    BY <1>4 DEF InitFails
  <2> QED
    BY <1>2, <2>1
<1>5. CASE CallModels(q)
  BY <1>5, CallTyped
<1>6. CASE SavePrediction(q)
  <2>1. PICK a \in requests[q].todo : requests' = [requests EXCEPT ![q].todo = @ \ {a}]
    BY <1>6 DEF SavePrediction
  <2> DEFINE e == [requests[q] EXCEPT !.todo = @ \ {a}]
  <2>2. e \in Request /\ e.round = requests[q].round
    BY <1>1 DEF Request
  <2>3. requests' = [requests EXCEPT ![q] = e]
    BY <2>1
  <2> QED
    BY <2>2, <2>3
<1>7. CASE EndInference(q)
  <2>1. requests' = [requests EXCEPT ![q] = Over(requests[q], "done")]
    BY <1>7 DEF EndInference
  <2> QED
    BY <1>2, <2>1
<1>8. CASE InferenceFails(q)
  <2>1. requests' = [requests EXCEPT ![q] = Over(requests[q], "failed")]
    BY <1>8 DEF InferenceFails
  <2> QED
    BY <1>2, <2>1
<1> QED
  BY <1>3, <1>4, <1>5, <1>6, <1>7, <1>8 DEF Inference

(* A request that starts is one more. *)
LEMMA StartTyped ==
  ASSUME TypeOK, StartInference
  PROVE  /\ \E e \in Request : requests' = Append(requests, e)
         /\ runner' \in Runner
         /\ left' \in Bounds /\ left'.requests = left.requests - 1
<1> DEFINE k == Provided(Aligned(runner))
<1>1. runner \in Runner
  BY DEF TypeOK, ReportOK
<1>2. Aligned(runner) \in Runner
  BY <1>1 DEF Aligned, Runner
<1> HIDE DEF k
<1>3. k \in Runner
  <2>1. k = Aligned(runner) \/ k = ProvidedAnew(Aligned(runner))
    BY DEF k, Provided, ProvidedAnew
  <2>2. ASSUME NEW j \in Runner PROVE ProvidedAnew(j) \in Runner
    <3>1. j.created + 1 \in Nat
      BY DEF Runner
    <3>2. \A c \in Nat : [j EXCEPT !.kernel = c, !.created = c] \in Runner
      BY DEF Runner
    <3> QED
      BY <3>1, <3>2 DEF ProvidedAnew
  <2> QED
    BY <1>2, <2>1, <2>2
<1>4. PICK r \in Rounds :
        requests' = Append(requests,
          [round |-> r, step |-> IF k.initialized THEN "call" ELSE "init",
           own |-> k.kernel, sample |-> 1, answers |-> {}, todo |-> {}])
  BY DEF StartInference, k
<1>5. runner' = [k EXCEPT !.service = IF k.initialized THEN k.kernel ELSE @]
  BY DEF StartInference, k
<1>6. runner' \in Runner
  BY <1>3, <1>5 DEF Runner
<1>7. [round |-> r, step |-> IF k.initialized THEN "call" ELSE "init",
       own |-> k.kernel, sample |-> 1, answers |-> {}, todo |-> {}] \in Request
  BY <1>3, TournamentAssumption DEF Request, Runner
<1>8. left \in Bounds /\ left.requests > 0 /\ left' = [left EXCEPT !.requests = @ - 1]
  BY DEF StartInference, Allowed, TypeOK, HistoryOK
<1>9. left' \in Bounds /\ left'.requests = left.requests - 1
  BY <1>8, TournamentAssumption DEF Bounds
<1> QED
  BY <1>4, <1>6, <1>7, <1>9

(* A bound that is used leaves the others. *)
LEMMA AllowedTyped ==
  ASSUME TypeOK, NEW kind \in {"scorings", "cycles", "faults"}, Allowed(kind)
  PROVE  left' \in Bounds /\ left'.requests = left.requests
<1>1. left \in Bounds /\ left[kind] > 0 /\ left' = [left EXCEPT ![kind] = @ - 1]
  BY DEF Allowed, TypeOK, HistoryOK
<1>2. CASE kind = "scorings"
  BY <1>1, <1>2 DEF Bounds
<1>3. CASE kind = "cycles"
  BY <1>1, <1>3 DEF Bounds
<1>4. CASE kind = "faults"
  BY <1>1, <1>4 DEF Bounds
<1> QED
  BY <1>2, <1>3, <1>4

(* A model has few predictions: a request each, and a sample.               *)
LEMMA FewOfAModel ==
  ASSUME NEW S \in SUBSET Id, NEW m
  PROVE  IsFiniteSet(OfModel(S, m))
<1> DEFINE f == [p \in OfModel(S, m) |-> <<p[1], p[2]>>]
           T == (1..MaxRequests) \X (1..Samples)
<1>1. IsFiniteSet(T)
  <2>1. IsFiniteSet(1..MaxRequests) /\ IsFiniteSet(1..Samples)
    BY TournamentAssumption, FS_Interval
  <2> QED
    BY <2>1, FS_Product
<1>2. \A p \in OfModel(S, m) :
        p \in Id /\ p[1] \in 1..MaxRequests /\ p[2] \in 1..Samples /\ p = <<p[1], p[2], m>>
  BY IdParts DEF OfModel
<1>3. f \in [OfModel(S, m) -> T]
  BY <1>2
<1>4. \A p, q \in OfModel(S, m) : f[p] = f[q] => p = q
  BY <1>2
<1>5. f \in Injection(OfModel(S, m), T)
  BY <1>3, <1>4 DEF Injection, IsInjective
<1> QED
  BY <1>1, <1>5, FS_Injection

(* A position is a number, and not 0. *)
LEMMA PositionCounts ==
  ASSUME NEW S \in SUBSET Id, NEW p \in S
  PROVE  Position(p, OfModel(S, p[3])) \in Nat \ {0}
<1> DEFINE T == {q \in OfModel(S, p[3]) :
                   q[2] < p[2] \/ (q[2] = p[2] /\ ~FoundBefore(p, q))}
<1>1. IsFiniteSet(T)
  BY FewOfAModel, FS_Subset
<1>2. p \in T
  BY IdParts DEF OfModel, FoundBefore
<1>3. Cardinality(T) \in Nat /\ Cardinality(T) # 0
  BY <1>1, <1>2, FS_CardinalityType, FS_EmptySet
<1> QED
  BY <1>3 DEF Position

(* What a process finds, does and forgets are predictions and truths.       *)
LEMMA ProcessTyped ==
  /\ Idle \in Process
  /\ \A S \in SUBSET Id, r \in Rounds, n \in Nat : [Idle EXCEPT !.todo = Paired(S, r, n)] \in Process
  /\ \A S \in SUBSET Id : [Idle EXCEPT !.todo = {<<p, InputAsTruth>> : p \in S}] \in Process
  /\ \A h \in Process :
       /\ InHand(h) \subseteq Id /\ h.done \subseteq Id
       /\ \A a \in h.todo : a[1] \in Id /\ a[2] \in Truth /\ Taken(h, a) \in Process
                            /\ Passed(h, a) \in Process
       /\ \A m \in Models : Without(h, m) \in Process
<1>1. Idle \in Process
  BY DEF Idle, Process
<1>2. ASSUME NEW S \in SUBSET Id, NEW r \in Rounds, NEW n \in Nat
      PROVE  [Idle EXCEPT !.todo = Paired(S, r, n)] \in Process
  <2>1. \A p \in S : <<r, Position(p, OfModel(S, p[3]))>> \in Truth
    BY PositionCounts DEF Truth
  <2>2. Paired(S, r, n) \subseteq Id \X Truth
    BY <2>1 DEF Paired
  <2> QED
    BY <2>2 DEF Idle, Process
<1>3. ASSUME NEW S \in SUBSET Id
      PROVE  [Idle EXCEPT !.todo = {<<p, InputAsTruth>> : p \in S}] \in Process
  <2>1. {<<p, InputAsTruth>> : p \in S} \subseteq Id \X Truth
    BY DEF Truth
  <2> QED
    BY <2>1 DEF Idle, Process
<1>4. ASSUME NEW h \in Process
      PROVE  /\ InHand(h) \subseteq Id /\ h.done \subseteq Id
             /\ \A a \in h.todo : a[1] \in Id /\ a[2] \in Truth /\ Taken(h, a) \in Process
                                  /\ Passed(h, a) \in Process
             /\ \A m \in Models : Without(h, m) \in Process
  <2>1. h.todo \subseteq Id \X Truth /\ h.done \subseteq Id
    BY DEF Process
  <2>2. InHand(h) \subseteq Id
    BY <2>1 DEF InHand
  <2>3. ASSUME NEW a \in h.todo
        PROVE  a[1] \in Id /\ a[2] \in Truth /\ Taken(h, a) \in Process /\ Passed(h, a) \in Process
    <3>1. a[1] \in Id /\ a[2] \in Truth
      BY <2>1
    <3>2. Taken(h, a) \in Process
      BY <3>1 DEF Taken, Process
    <3>3. Passed(h, a) \in Process
      BY DEF Passed, Process
    <3> QED
      BY <3>1, <3>2, <3>3
  <2>4. \A m \in Models : Without(h, m) \in Process
    BY DEF Without, Process
  <2> QED
    BY <2>1, <2>2, <2>3, <2>4
<1> QED
  BY <1>1, <1>2, <1>3, <1>4

(* What a snapshot of a process counts is numbered. *)
LEMMA SnapshotTyped ==
  ASSUME TypeOK, NEW h \in Process, NEW m \in Models, WriteSnapshot(h, m)
  PROVE  latest' \in [Models -> SUBSET Id] /\ counted' \in [Id -> Int] /\ lost' \subseteq Id
<1> DEFINE new == CountedBy(h, m)
           Added(p) == IF p \in new THEN 1 ELSE 0
<1>1. new \subseteq Id
  BY DEF CountedBy, Process
<1>2. latest \in [Models -> SUBSET Id] /\ counted \in [Id -> Int] /\ lost \subseteq Id
  BY DEF TypeOK, TablesOK, HistoryOK
<1>3. latest' = [latest EXCEPT ![m] = new]
  BY DEF WriteSnapshot
<1>4. latest' \in [Models -> SUBSET Id]
  BY <1>1, <1>2, <1>3
<1>5. \A p \in Id : Added(p) \in Int /\ counted[p] \in Int
                    /\ (IF p \in latest[m] THEN 1 ELSE 0) \in Int
  BY <1>2
<1>6. \/ counted' = [p \in Id |-> counted[p] + Added(p)] /\ lost' = lost
      \/ /\ counted' = [p \in Id |->
              counted[p] + Added(p) - (IF p \in latest[m] THEN 1 ELSE 0)]
         /\ lost' = lost \cup (latest[m] \ new)
  BY DEF WriteSnapshot
<1>7. counted' \in [Id -> Int]
  BY <1>5, <1>6
<1>8. lost' \subseteq Id
  BY <1>2, <1>6
<1> QED
  BY <1>4, <1>7, <1>8

(* The report-worker that starts again has the requests it had, all ended.  *)
LEMMA RestartTyped ==
  ASSUME TypeOK, Restart
  PROVE  /\ requests' \in Seq(Request) /\ Len(requests') = Len(requests)
         /\ DOMAIN requests' = DOMAIN requests
         /\ \A q \in DOMAIN requests : /\ requests'[q].round = requests[q].round
                                       /\ requests'[q].step \in {"done", "failed"}
<1>1. Len(requests) \in Nat /\ DOMAIN requests = 1..Len(requests)
  BY RequestsNumbered
<1>2. ASSUME NEW q \in DOMAIN requests
      PROVE  /\ requests[q] \in Request
             /\ Over(requests[q], "failed") \in Request
             /\ Over(requests[q], "failed").round = requests[q].round
             /\ Over(requests[q], "failed").step = "failed"
  <2>1. requests[q] \in Request
    BY RequestsNumbered
  <2> QED
    BY <2>1, TournamentAssumption DEF Over, Request, NoRunner
<1>3. requests' = [q \in DOMAIN requests |->
        IF requests[q].step = "done" THEN requests[q] ELSE Over(requests[q], "failed")]
  BY DEF Restart
<1>4. requests' \in [1..Len(requests) -> Request]
  BY <1>1, <1>2, <1>3
<1>5. requests' \in Seq(Request)
  BY <1>1, <1>4, SeqDef
<1>6. DOMAIN requests' = DOMAIN requests
  BY <1>3
<1>7. Len(requests') = Len(requests)
  BY <1>1, <1>5, <1>6, LenProperties
<1> QED
  BY <1>2, <1>3, <1>5, <1>6, <1>7

LEMMA TypeStarts == Init => TypeOK
<1> SUFFICES ASSUME Init PROVE TypeOK
  OBVIOUS
<1>1. TablesOK
  BY DEF Init, TablesOK, Status, Truth
<1>2. requests = <<>> /\ requests \in Seq(Request) /\ Len(requests) = 0
  BY EmptySeq DEF Init
<1>3. FreshRunner \in Runner
  BY DEF FreshRunner, Runner, NoRunner
<1>4. ReportOK
  BY <1>2, <1>3, ProcessTyped DEF Init, ReportOK
<1>5. left \in Bounds
  BY TournamentAssumption DEF Init, Bounds
<1>6. Len(requests) + left.requests <= MaxRequests
  BY <1>2, <1>5, TournamentAssumption DEF Bounds
<1>7. HistoryOK
  BY <1>5, <1>6 DEF Init, HistoryOK
<1> QED
  BY <1>1, <1>4, <1>7, ProcessTyped DEF Init, TypeOK

(* A step of a request. *)
LEMMA TypeKeptByInference ==
  ASSUME TypeOK, NEW q \in DOMAIN requests, Inference(q)
  PROVE  TypeOK'
<1>1. requests' \in Seq(Request) /\ Len(requests') = Len(requests)
  BY InferenceTyped, OneRequestChanges
<1>2. requests[q] \in Request
  BY RequestsNumbered
<1> USE DEF TypeOK, TablesOK, ReportOK, HistoryOK, tables, history, report
<1>3. CASE EndInit(q)
  <2>1. runner' \in Runner
    <3>1. runner' = [runner EXCEPT !.initialized = TRUE, !.tasks = @ + 1,
                       !.service = runner.kernel, !.ready = @ \cup {requests[q].own}]
      BY <1>3 DEF EndInit
    <3>2. runner.tasks + 1 \in Nat /\ runner.kernel \in Nat
      BY DEF Runner
    <3>3. runner.ready \cup {requests[q].own} \in SUBSET Nat
      BY <1>2 DEF Runner, Request
    <3>4. \A t, k \in Nat, S \in SUBSET Nat :
            [runner EXCEPT !.initialized = TRUE, !.tasks = t, !.service = k, !.ready = S] \in Runner
      BY DEF Runner
    <3> QED
      BY <3>1, <3>2, <3>3, <3>4
  <2> QED
    BY <1>1, <1>3, <2>1 DEF EndInit
<1>4. CASE InitFails(q)
  <2>1. left' \in Bounds /\ left'.requests = left.requests
    BY <1>4, AllowedTyped DEF InitFails, Fault
  <2> QED
    BY <1>1, <1>4, <2>1 DEF InitFails
<1>5. CASE CallModels(q)
  <2>1. known' \subseteq Models
    BY <1>5, CallTyped
  <2> QED
    BY <1>1, <1>5, <2>1 DEF CallModels
<1>6. CASE SavePrediction(q)
  <2>1. PICK a \in requests[q].todo : rows' = [rows EXCEPT ![a[1]] = a[2]]
    BY <1>6 DEF SavePrediction
  <2>2. a[2] \in Status
    BY <1>2 DEF Request, Answer, Status
  <2>3. rows' \in [Id -> Status]
    BY <2>1, <2>2
  <2> QED
    BY <1>1, <1>6, <2>3 DEF SavePrediction
<1>7. CASE EndInference(q)
  BY <1>1, <1>7 DEF EndInference
<1>8. CASE InferenceFails(q)
  <2>1. left' \in Bounds /\ left'.requests = left.requests
    BY <1>8, AllowedTyped DEF InferenceFails, Fault
  <2> QED
    BY <1>1, <1>8, <2>1 DEF InferenceFails
<1> QED
  BY <1>3, <1>4, <1>5, <1>6, <1>7, <1>8 DEF Inference

(* A step of a process with a prediction in its hands. *)
LEMMA EntrySavedTyped ==
  ASSUME TypeOK, NEW h \in Process, NEW a \in h.todo
  PROVE  /\ SavedStatus(a) => rows' \in [Id -> Status]
         /\ SavedScore(a) => scores' \in [Id -> Truth]
<1>1. a[1] \in Id /\ a[2] \in Truth
  BY ProcessTyped
<1> QED
  BY <1>1 DEF SavedStatus, SavedScore, TypeOK, TablesOK, Status

LEMMA TypeKept == TypeOK /\ [Next]_vars => TypeOK'
<1> SUFFICES ASSUME TypeOK, [Next]_vars PROVE TypeOK'
  OBVIOUS
<1>0. scoring \in Process /\ worker \in Process
  BY DEF TypeOK, ReportOK
<1>1. CASE StartInference
  <2>1. /\ requests' \in Seq(Request) /\ Len(requests') = Len(requests) + 1
        /\ runner' \in Runner /\ left' \in Bounds /\ left'.requests = left.requests - 1
    BY <1>1, StartTyped, OneRequestMore
  <2>2. Len(requests) \in Nat /\ left.requests \in Nat
    BY RequestsNumbered DEF TypeOK, HistoryOK, Bounds
  <2> QED
    BY <1>1, <2>1, <2>2, TournamentAssumption
    DEF StartInference, TypeOK, TablesOK, ReportOK, HistoryOK, tables
<1>2. CASE \E q \in DOMAIN requests : Inference(q)
  BY <1>2, TypeKeptByInference
<1>3. CASE StartScoring
  <2>1. left' \in Bounds /\ left'.requests = left.requests
    BY <1>3, AllowedTyped DEF StartScoring
  <2>2. PICK t \in DOMAIN requests, n \in 1..(Samples + 1) :
          LET r == requests[t].round
              S == PendingOf(r)
          IN  /\ scoring' = [Idle EXCEPT !.todo = Paired(S, r, n)]
              /\ broken' = broken \cup
                   {p \in S : \E q \in S : q[3] = p[3] /\ q \notin InHand(scoring')}
              /\ shared' = shared \cup (S \cap InHand(worker))
    BY <1>3 DEF StartScoring
  <2>3. requests[t].round \in Rounds /\ n \in Nat
    BY RequestsNumbered, TournamentAssumption DEF Request
  <2>4. PendingOf(requests[t].round) \subseteq Id
    BY DEF PendingOf
  <2>5. scoring' \in Process
    BY <2>2, <2>3, <2>4, ProcessTyped
  <2>6. broken' \subseteq Id /\ shared' \subseteq Id
    BY <2>2, <2>4 DEF TypeOK, HistoryOK
  <2> QED
    BY <1>3, <2>1, <2>5, <2>6 DEF StartScoring, TypeOK, TablesOK, ReportOK, HistoryOK, tables
<1>4. CASE ScoreNext
  <2>1. PICK a \in scoring.todo :
          IF a[1] \in scoring.done
          THEN SavedStatus(a) /\ scoring' = Passed(scoring, a) /\ UNCHANGED scores
          ELSE SavedScore(a) /\ scoring' = Taken(scoring, a) /\ UNCHANGED rows
    BY <1>4 DEF ScoreNext
  <2>2. scoring' \in Process
    BY <1>0, <2>1, ProcessTyped
  <2>3. rows' \in [Id -> Status] /\ scores' \in [Id -> Truth]
    BY <1>0, <2>1, EntrySavedTyped DEF TypeOK, TablesOK
  <2> QED
    BY <1>4, <2>2, <2>3 DEF ScoreNext, TypeOK, TablesOK, ReportOK, HistoryOK, history
<1>5. CASE BuildSnapshot
  <2>1. PICK m \in {p[3] : p \in scoring.done} :
          WriteSnapshot(scoring, m) /\ scoring' = Without(scoring, m)
    BY <1>5 DEF BuildSnapshot
  <2>2. m \in Models
    BY <1>0, IdParts, ProcessTyped
  <2>3. /\ latest' \in [Models -> SUBSET Id] /\ counted' \in [Id -> Int] /\ lost' \subseteq Id
        /\ scoring' \in Process
    BY <1>0, <2>1, <2>2, SnapshotTyped, ProcessTyped
  <2> QED
    BY <1>5, <2>3 DEF BuildSnapshot, TypeOK, TablesOK, ReportOK, HistoryOK
<1>6. CASE ScoringFails
  <2>1. left' \in Bounds /\ left'.requests = left.requests
    BY <1>6, AllowedTyped DEF ScoringFails, Fault
  <2>2. scoring' \in Process /\ lost' \subseteq Id /\ broken' \subseteq Id
    BY <1>0, <1>6, ProcessTyped DEF ScoringFails, TypeOK, HistoryOK
  <2> QED
    BY <1>6, <2>1, <2>2 DEF ScoringFails, TypeOK, TablesOK, ReportOK, HistoryOK, tables
<1>7. CASE WorkerFinds
  <2>1. left' \in Bounds /\ left'.requests = left.requests
    BY <1>7, AllowedTyped DEF WorkerFinds
  <2> DEFINE S == {p \in Id : rows[p] = "PENDING"}
  <2>2. /\ worker' = [Idle EXCEPT !.todo = {<<p, InputAsTruth>> : p \in S}]
        /\ taken' = taken \cup S
        /\ shared' = shared \cup (S \cap (InHand(scoring) \cup scoring.done))
    BY <1>7 DEF WorkerFinds
  <2>3. worker' \in Process /\ taken' \subseteq Id /\ shared' \subseteq Id
    BY <2>2, ProcessTyped DEF TypeOK, HistoryOK
  <2> QED
    BY <1>7, <2>1, <2>3 DEF WorkerFinds, TypeOK, TablesOK, ReportOK, HistoryOK, tables, report
<1>8. CASE WorkerScores
  <2>1. PICK a \in worker.todo :
          IF a[1] \in worker.done
          THEN SavedStatus(a) /\ worker' = Passed(worker, a) /\ UNCHANGED scores
          ELSE SavedScore(a) /\ worker' = Taken(worker, a) /\ UNCHANGED rows
    BY <1>8 DEF WorkerScores
  <2>2. worker' \in Process
    BY <1>0, <2>1, ProcessTyped
  <2>3. rows' \in [Id -> Status] /\ scores' \in [Id -> Truth]
    BY <1>0, <2>1, EntrySavedTyped DEF TypeOK, TablesOK
  <2> QED
    BY <1>8, <2>2, <2>3 DEF WorkerScores, TypeOK, TablesOK, ReportOK, HistoryOK, history, report
<1>9. CASE WorkerSnapshots
  <2>1. PICK m \in {p[3] : p \in worker.done} :
          WriteSnapshot(worker, m) /\ worker' = Without(worker, m)
    BY <1>9 DEF WorkerSnapshots
  <2>2. m \in Models
    BY <1>0, IdParts, ProcessTyped
  <2>3. /\ latest' \in [Models -> SUBSET Id] /\ counted' \in [Id -> Int] /\ lost' \subseteq Id
        /\ worker' \in Process
    BY <1>0, <2>1, <2>2, SnapshotTyped, ProcessTyped
  <2> QED
    BY <1>9, <2>3 DEF WorkerSnapshots, TypeOK, TablesOK, ReportOK, HistoryOK, report
<1>10. CASE WorkerFails
  <2>1. left' \in Bounds /\ left'.requests = left.requests
    BY <1>10, AllowedTyped DEF WorkerFails, Fault
  <2>2. worker' \in Process /\ lost' \subseteq Id
    BY <1>0, <1>10, ProcessTyped DEF WorkerFails, TypeOK, HistoryOK
  <2> QED
    BY <1>10, <2>1, <2>2 DEF WorkerFails, TypeOK, TablesOK, ReportOK, HistoryOK, tables, report
<1>11. CASE Restart
  <2>1. left' \in Bounds /\ left'.requests = left.requests
    BY <1>11, AllowedTyped DEF Restart, Fault
  <2>2. requests' \in Seq(Request) /\ Len(requests') = Len(requests)
    BY <1>11, RestartTyped
  <2>3. scoring' \in Process /\ lost' \subseteq Id /\ broken' \subseteq Id
    BY <1>0, <1>11, ProcessTyped DEF Restart, TypeOK, HistoryOK
  <2>4. runner' \in Runner
    BY <1>11 DEF Restart, FreshRunner, Runner, NoRunner
  <2> QED
    BY <1>11, <2>1, <2>2, <2>3, <2>4
    DEF Restart, TypeOK, TablesOK, ReportOK, HistoryOK, tables
<1>12. CASE UNCHANGED vars
  BY <1>12 DEF vars, TypeOK, TablesOK, ReportOK, HistoryOK, tables, report, history
<1> QED
  BY <1>1, <1>2, <1>3, <1>4, <1>5, <1>6, <1>7, <1>8, <1>9, <1>10, <1>11, <1>12 DEF Next

LEMMA AlwaysTyped == Spec => []TypeOK
BY TypeStarts, TypeKept, PTL DEF Spec

-----------------------------------------------------------------------------
(* One runner *)

(* A request that starts finds the service's runner, or makes a new one.    *)
LEMMA RunnerFound ==
  ASSUME TypeOK, RunnerInv, StartInference
  PROVE  /\ runner.initialized => runner' = runner
         /\ ~runner.initialized =>
              /\ runner'.service = NoRunner /\ ~runner'.initialized
              /\ runner'.kernel = runner.created + 1 /\ runner'.created = runner.created + 1
              /\ runner'.tasks = runner.tasks /\ runner'.ready = runner.ready
         /\ \E r \in Rounds :
              requests' = Append(requests,
                [round |-> r, step |-> IF runner.initialized THEN "call" ELSE "init",
                 own |-> runner'.kernel, sample |-> 1, answers |-> {}, todo |-> {}])
<1>1. runner \in Runner
  BY DEF TypeOK, ReportOK
<1> DEFINE k == Provided(Aligned(runner))
<1>2. /\ runner' = [k EXCEPT !.service = IF k.initialized THEN k.kernel ELSE @]
      /\ \E r \in Rounds :
           requests' = Append(requests,
             [round |-> r, step |-> IF k.initialized THEN "call" ELSE "init",
              own |-> k.kernel, sample |-> 1, answers |-> {}, todo |-> {}])
  BY DEF StartInference
<1> HIDE DEF k
<1>3. CASE runner.initialized
  <2>1. runner.service = runner.kernel /\ runner.kernel # NoRunner
    BY <1>3 DEF RunnerInv
  <2>2. k = runner
    BY <2>1 DEF k, Provided, Aligned
  <2>3. runner' = [runner EXCEPT !.service = runner.kernel]
    BY <1>2, <1>3, <2>2
  <2>4. runner' = runner
    BY <1>1, <2>1, <2>3 DEF Runner
  <2> QED
    BY <1>2, <1>3, <2>2, <2>4
<1>4. CASE ~runner.initialized
  <2>1. runner.service = NoRunner
    BY <1>4 DEF RunnerInv
  <2>2. Aligned(runner) = [runner EXCEPT !.kernel = NoRunner, !.initialized = FALSE]
    <3>1. CASE runner.kernel = NoRunner
      <4>1. [runner EXCEPT !.kernel = NoRunner, !.initialized = FALSE] = runner
        BY <1>1, <1>4, <3>1 DEF Runner
      <4> QED
        BY <2>1, <3>1, <4>1 DEF Aligned
    <3>2. CASE runner.kernel # NoRunner
      BY <2>1, <3>2 DEF Aligned
    <3> QED
      BY <3>1, <3>2
  <2> DEFINE j == [runner EXCEPT !.kernel = NoRunner, !.initialized = FALSE]
  <2>3. /\ j \in Runner /\ j.kernel = NoRunner /\ j.created = runner.created
        /\ j.initialized = FALSE /\ j.service = NoRunner
        /\ j.tasks = runner.tasks /\ j.ready = runner.ready
    BY <1>1, <2>1 DEF Runner, NoRunner
  <2>4. k = Provided(j)
    BY <2>2 DEF k
  <2> HIDE DEF j
  <2>5. k = [j EXCEPT !.kernel = j.created + 1, !.created = j.created + 1]
    BY <2>3, <2>4 DEF Provided
  <2>6. /\ k.kernel = runner.created + 1 /\ k.created = runner.created + 1
        /\ k.initialized = FALSE /\ k.service = NoRunner
        /\ k.tasks = runner.tasks /\ k.ready = runner.ready
        /\ DOMAIN k = DOMAIN runner
    BY <1>1, <2>3, <2>5 DEF Runner
  <2>7. runner' = [k EXCEPT !.service = k.service]
    BY <1>2, <2>6
  <2>8. /\ runner'.kernel = k.kernel /\ runner'.created = k.created
        /\ runner'.initialized = k.initialized /\ runner'.service = k.service
        /\ runner'.tasks = k.tasks /\ runner'.ready = k.ready
    BY <1>1, <2>6, <2>7 DEF Runner
  <2> QED
    BY <1>2, <1>4, <2>6, <2>8
<1> QED
  BY <1>3, <1>4

LEMMA RunnerKeptByStart == TypeOK /\ RunnerInv /\ StartInference => RunnerInv'
<1> SUFFICES ASSUME TypeOK, RunnerInv, StartInference PROVE RunnerInv'
  OBVIOUS
<1>1. runner \in Runner
  BY DEF TypeOK, ReportOK
<1>2. crossed' = (crossed \/ \E q \in DOMAIN requests : InInit(q))
  BY DEF StartInference, InInit
<1>0. PICK new : new = Len(requests) + 1
  OBVIOUS
<1>3. PICK r \in Rounds :
        requests' = Append(requests,
          [round |-> r, step |-> IF runner.initialized THEN "call" ELSE "init",
           own |-> runner'.kernel, sample |-> 1, answers |-> {}, todo |-> {}])
  BY RunnerFound
<1> DEFINE e == [round |-> r, step |-> IF runner.initialized THEN "call" ELSE "init",
                 own |-> runner'.kernel, sample |-> 1, answers |-> {}, todo |-> {}]
<1>4. e \in Request
  <2>1. runner' \in Runner
    BY StartTyped
  <2> QED
    BY <2>1, TournamentAssumption DEF Request, Runner
<1>5. /\ DOMAIN requests' = DOMAIN requests \cup {new} /\ new \notin DOMAIN requests
      /\ requests'[new] = e
      /\ \A q \in DOMAIN requests : requests'[q] = requests[q]
  BY <1>0, <1>3, <1>4, OneRequestMore
<1>6. /\ \A q \in DOMAIN requests : InInit(q)' <=> InInit(q)
      /\ InInit(new)' <=> ~runner.initialized
      /\ requests'[new].own = runner'.kernel
  <2>1. runner.initialized \in BOOLEAN
    BY <1>1 DEF Runner
  <2>2. e.step = (IF runner.initialized THEN "call" ELSE "init") /\ e.own = runner'.kernel
    OBVIOUS
  <2> HIDE DEF e
  <2> QED
    BY <1>5, <2>1, <2>2 DEF InInit
<1> HIDE DEF e
<1>7. CASE runner.initialized
  <2>1. runner' = runner
    BY <1>7, RunnerFound
  <2> QED
    BY <1>2, <1>5, <1>6, <1>7, <2>1 DEF RunnerInv
<1>8. CASE ~runner.initialized
  <2>1. /\ runner'.service = NoRunner /\ ~runner'.initialized
        /\ runner'.kernel = runner.created + 1 /\ runner'.created = runner.created + 1
        /\ runner'.tasks = runner.tasks
    BY <1>8, RunnerFound
  <2>2. runner'.kernel # NoRunner
    BY <1>1, <2>1 DEF Runner, NoRunner
  <2>3. ASSUME ~crossed'
        PROVE  ~crossed /\ runner.created = 0 /\ runner.tasks = 0
               /\ \A q \in DOMAIN requests : ~InInit(q)
    BY <1>2, <1>8, <2>3 DEF RunnerInv
  <2>4. \A q \in DOMAIN requests' : InInit(q)' => runner'.kernel # NoRunner
    BY <2>2
  <2>5. ASSUME ~crossed'
        PROVE  /\ runner'.created <= 1 /\ runner'.tasks = 0
               /\ \A q \in DOMAIN requests' : InInit(q)' => q = new
               /\ new \in DOMAIN requests' /\ InInit(new)'
    BY <1>5, <1>6, <1>8, <2>1, <2>3, <2>5
  <2> QED
    BY <1>6, <2>1, <2>4, <2>5 DEF RunnerInv
<1> QED
  BY <1>7, <1>8

(* Steps that leave the runner and whoever awaits its start. *)
LEMMA RunnerFrame ==
  ASSUME RunnerInv, UNCHANGED <<runner, crossed>>, DOMAIN requests' = DOMAIN requests,
         \A q \in DOMAIN requests :
           /\ InInit(q)' <=> InInit(q)
           /\ InInit(q) => requests'[q].own = requests[q].own
  PROVE  RunnerInv'
BY DEF RunnerInv

LEMMA RunnerKeptByInference ==
  ASSUME TypeOK, RunnerInv, NEW q \in DOMAIN requests, Inference(q)
  PROVE  RunnerInv'
<1>1. runner \in Runner /\ requests[q] \in Request
  BY RequestsNumbered DEF TypeOK, ReportOK
<1>2. /\ DOMAIN requests' = DOMAIN requests
      /\ \A t \in DOMAIN requests : t # q => requests'[t] = requests[t]
  BY InferenceTyped, OneRequestChanges
<1>3. PICK e \in Request : requests' = [requests EXCEPT ![q] = e]
  BY InferenceTyped
<1>4. requests'[q] = e
  BY <1>3, OneRequestChanges
<1>5. \A step \in {"done", "failed"} : Over(requests[q], step).step # "init"
  BY DEF Over
<1>6. CASE EndInit(q)
  <2>1. InInit(q) /\ requests' = [requests EXCEPT ![q].step = "call"]
    BY <1>6 DEF EndInit, InInit
  <2>2. ~InInit(q)'
    BY <1>1, <2>1 DEF InInit, Request
  <2>3. runner' = [runner EXCEPT !.initialized = TRUE, !.tasks = @ + 1,
                     !.service = runner.kernel, !.ready = @ \cup {requests[q].own}]
    BY <1>6 DEF EndInit
  <2>4. /\ runner'.initialized = TRUE /\ runner'.tasks = runner.tasks + 1
        /\ runner'.service = runner.kernel /\ runner'.kernel = runner.kernel
        /\ runner'.ready = runner.ready \cup {requests[q].own}
        /\ runner'.created = runner.created
    BY <1>1, <2>3 DEF Runner
  <2>5. crossed' = crossed
    BY <1>6 DEF EndInit, history
  <2>6. runner.kernel # NoRunner
    BY <2>1 DEF RunnerInv
  <2>7. \A t \in DOMAIN requests : t # q => (InInit(t)' <=> InInit(t))
    BY <1>2 DEF InInit
  <2>8. ASSUME ~crossed
        PROVE  /\ runner.tasks = 0 /\ requests[q].own = runner.kernel /\ runner.created <= 1
               /\ \A t \in DOMAIN requests : ~InInit(t)'
    <3>1. /\ runner.tasks = 0 /\ requests[q].own = runner.kernel /\ runner.created <= 1
          /\ \A t \in DOMAIN requests : InInit(t) => t = q
      BY <2>1, <2>8 DEF RunnerInv
    <3> QED
      BY <2>2, <2>7, <3>1
  <2>9. ~crossed => runner'.tasks <= 1 /\ runner'.service \in runner'.ready
    BY <2>4, <2>8
  <2> QED
    BY <1>2, <2>2, <2>4, <2>5, <2>6, <2>7, <2>8, <2>9 DEF RunnerInv
<1>7. CASE InitFails(q)
  <2>1. requests' = [requests EXCEPT ![q] = Over(requests[q], "failed")]
        /\ runner' = runner /\ crossed' = TRUE
    BY <1>7 DEF InitFails
  <2>2. requests'[q] = Over(requests[q], "failed")
    BY <2>1
  <2>3. \A t \in DOMAIN requests' : InInit(t)' => InInit(t) /\ t # q
    BY <1>2, <1>5, <2>2 DEF InInit
  <2> QED
    BY <1>2, <2>1, <2>3 DEF RunnerInv
<1>8. CASE CallModels(q)
  <2>1. ~InInit(q) /\ UNCHANGED <<runner, crossed>>
    BY <1>8 DEF CallModels, InInit, history
  <2>2. ~InInit(q)'
    <3> DEFINE x == requests[q]
    <3>1. PICK A, B :
            requests' = [requests EXCEPT ![q] =
              IF x.sample = Samples
              THEN [x EXCEPT !.step = "save", !.answers = {}, !.todo = B]
              ELSE [x EXCEPT !.sample = @ + 1, !.answers = A]]
      BY <1>8 DEF CallModels
    <3>2. requests'[q].step \in {"save", x.step}
      BY <1>1, <3>1 DEF Request
    <3> QED
      BY <1>8, <3>2 DEF CallModels, InInit
  <2> QED
    BY <1>2, <2>1, <2>2, RunnerFrame DEF InInit
<1>9. CASE SavePrediction(q)
  <2>1. ~InInit(q) /\ UNCHANGED <<runner, crossed>>
    BY <1>9 DEF SavePrediction, InInit, history
  <2>2. PICK B : requests' = [requests EXCEPT ![q].todo = B]
    BY <1>9 DEF SavePrediction
  <2>3. ~InInit(q)'
    BY <1>1, <2>1, <2>2 DEF InInit, Request
  <2> QED
    BY <1>2, <2>1, <2>3, RunnerFrame DEF InInit
<1>10. CASE EndInference(q)
  <2>1. /\ ~InInit(q) /\ UNCHANGED <<runner, crossed>>
        /\ requests' = [requests EXCEPT ![q] = Over(requests[q], "done")]
    BY <1>10 DEF EndInference, InInit, history
  <2>2. ~InInit(q)'
    BY <1>5, <2>1 DEF InInit
  <2> QED
    BY <1>2, <2>1, <2>2, RunnerFrame DEF InInit
<1>11. CASE InferenceFails(q)
  <2>1. /\ ~InInit(q) /\ UNCHANGED <<runner, crossed>>
        /\ requests' = [requests EXCEPT ![q] = Over(requests[q], "failed")]
    BY <1>11 DEF InferenceFails, InInit
  <2>2. ~InInit(q)'
    BY <1>5, <2>1 DEF InInit
  <2> QED
    BY <1>2, <2>1, <2>2, RunnerFrame DEF InInit
<1> QED
  BY <1>6, <1>7, <1>8, <1>9, <1>10, <1>11 DEF Inference

LEMMA RunnerKept == TypeOK /\ RunnerInv /\ [Next]_vars => RunnerInv'
<1> SUFFICES ASSUME TypeOK, RunnerInv, [Next]_vars PROVE RunnerInv'
  OBVIOUS
<1>1. CASE StartInference
  BY <1>1, RunnerKeptByStart
<1>2. CASE \E q \in DOMAIN requests : Inference(q)
  BY <1>2, RunnerKeptByInference
<1>3. CASE Restart
  <2>1. runner' = FreshRunner /\ crossed' = FALSE
    BY <1>3 DEF Restart
  <2>2. \A q \in DOMAIN requests' : ~InInit(q)'
    BY <1>3, RestartTyped DEF InInit
  <2> QED
    BY <2>1, <2>2 DEF RunnerInv, FreshRunner, NoRunner
<1>4. CASE StartScoring
  BY <1>4, RunnerFrame DEF StartScoring, InInit
<1>5. CASE ScoreNext
  BY <1>5, RunnerFrame DEF ScoreNext, history, InInit
<1>6. CASE BuildSnapshot
  BY <1>6, RunnerFrame DEF BuildSnapshot, InInit
<1>7. CASE ScoringFails
  BY <1>7, RunnerFrame DEF ScoringFails, InInit
<1>8. CASE WorkerFinds
  BY <1>8, RunnerFrame DEF WorkerFinds, report, InInit
<1>9. CASE WorkerScores
  BY <1>9, RunnerFrame DEF WorkerScores, report, history, InInit
<1>10. CASE WorkerSnapshots
  BY <1>10, RunnerFrame DEF WorkerSnapshots, report, InInit
<1>11. CASE WorkerFails
  BY <1>11, RunnerFrame DEF WorkerFails, report, InInit
<1>12. CASE UNCHANGED vars
  BY <1>12, RunnerFrame DEF vars, report, history, InInit
<1> QED
  BY <1>1, <1>2, <1>3, <1>4, <1>5, <1>6, <1>7, <1>8, <1>9, <1>10, <1>11, <1>12 DEF Next

(* However first requests overlap, the service uses the runner the kernel   *)
(* has; and if they do not and its start does not fail, one is made, it is  *)
(* ready before it is used, and one task syncs it.                          *)
THEOREM RunnersAgree == Spec => []OneRunner
<1>1. Init => RunnerInv
  BY EmptySeq DEF Init, RunnerInv, FreshRunner, NoRunner
<1>2. RunnerInv => OneRunner
  <2> SUFFICES ASSUME RunnerInv PROVE OneRunner
    OBVIOUS
  <2>1. ~crossed => runner.tasks <= 1
    BY DEF RunnerInv
  <2> QED
    BY <2>1 DEF RunnerInv, OneRunner
<1> QED
  BY <1>1, <1>2, AlwaysTyped, RunnerKept, PTL DEF Spec

-----------------------------------------------------------------------------
(* What requests save *)

CalledOK(q, x) ==
  OneEach(x.answers) /\ \A a \in x.answers : a[1][1] = q /\ a[1][2] < x.sample
SavedOK(q, x) ==
  OneEach(x.todo) /\ \A a \in x.todo : a[1][1] = q /\ rows[a[1]] = "none"

(* The answers to one more sample are of that sample, and who is absent     *)
(* answered none.                                                          *)
LEMMA OneAnswerEach ==
  ASSUME TypeOK, NEW q \in DOMAIN requests, CalledOK(q, requests[q]),
         NEW outcome \in [Models -> {"PENDING", "FAILED", "missing"}]
  PROVE  LET answers == requests[q].answers \cup Answers(q, outcome)
         IN  /\ OneEach(answers)
             /\ \A a \in answers : a[1][1] = q /\ a[1][2] < requests[q].sample + 1
             /\ OneEach(answers \cup Absent(q, answers))
             /\ \A a \in Absent(q, answers) : a[1][1] = q
<1> DEFINE x == requests[q]
           answers == x.answers \cup Answers(q, outcome)
<1>1. x \in Request /\ q \in 1..MaxRequests
  BY RequestsNumbered
<1>2. x.sample \in 1..Samples /\ x.answers \subseteq Answer
  BY <1>1 DEF Request
<1>3. \A m \in Models : LET p == <<q, x.sample, m>>
                        IN  p \in Id /\ p[1] = q /\ p[2] = x.sample /\ p[3] = m
  BY <1>1, <1>2, IdParts
<1>4. \A a \in Answers(q, outcome) :
        \E m \in Models : a[1] = <<q, x.sample, m>> /\ a = <<a[1], outcome[m]>>
  BY DEF Answers
<1>5. \A a \in Answers(q, outcome) :
        a[1][1] = q /\ a[1][2] = x.sample /\ a = <<a[1], outcome[a[1][3]]>>
  BY <1>3, <1>4
<1>6. \A a \in x.answers : a[1][1] = q /\ a[1][2] < x.sample /\ a[1] \in Id
  BY <1>2 DEF CalledOK, Answer
<1>7. OneEach(answers)
  <2> SUFFICES ASSUME NEW a \in answers, NEW b \in answers, a[1] = b[1]
               PROVE  a = b
    BY DEF OneEach
  <2>1. CASE a \in x.answers /\ b \in x.answers
    BY <2>1 DEF CalledOK, OneEach
  <2>2. CASE a \in Answers(q, outcome) /\ b \in Answers(q, outcome)
    BY <2>2, <1>5
  <2>3. ~(a[1][2] < x.sample /\ b[1][2] = x.sample) /\ ~(b[1][2] < x.sample /\ a[1][2] = x.sample)
    BY <1>2
  <2> QED
    BY <2>1, <2>2, <2>3, <1>5, <1>6
<1>8. \A a \in answers : a[1][1] = q /\ a[1][2] < x.sample + 1 /\ a[1] \in Id
  <2>1. \A a \in x.answers : a[1][2] < x.sample + 1
    <3>1. \A a \in x.answers : a[1][2] \in Nat
      BY <1>6, IdParts
    <3> QED
      BY <3>1, <1>2, <1>6
  <2>2. \A a \in Answers(q, outcome) : a[1] \in Id
    BY <1>3, <1>4
  <2> QED
    BY <2>1, <2>2, <1>2, <1>5, <1>6
<1> HIDE DEF answers
<1>9. \A a \in Absent(q, answers) :
        /\ a[1][1] = q /\ a = <<a[1], "ABSENT">>
        /\ \A b \in answers : a[1] # b[1]
  <2> SUFFICES ASSUME NEW a \in Absent(q, answers)
               PROVE  /\ a[1][1] = q /\ a = <<a[1], "ABSENT">>
                      /\ \A b \in answers : a[1] # b[1]
    OBVIOUS
  <2>1. PICK s \in 1..Samples, m \in known \ {b[1][3] : b \in answers} :
          a = <<<<q, s, m>>, "ABSENT">>
    BY DEF Absent
  <2>2. a[1] = <<q, s, m>> /\ a[1][1] = q /\ a[1][3] = m
    BY <2>1
  <2>3. \A b \in answers : b[1][3] # m
    OBVIOUS
  <2> QED
    BY <2>1, <2>2, <2>3
<1>10. OneEach(answers \cup Absent(q, answers))
  BY <1>7, <1>9 DEF OneEach
<1> QED
  BY <1>7, <1>8, <1>9, <1>10 DEF answers

(* A step of one request to x that keeps what it saves, and leaves the rows *)
(* of others.                                                              *)
LEMMA RequestFrame ==
  ASSUME TypeOK, RequestInv, NEW q \in DOMAIN requests, NEW x \in Request,
         requests' = [requests EXCEPT ![q] = x],
         rows' = rows,
         x.step = "init" => x.answers = {},
         x.step = "call" => CalledOK(q, x),
         x.step = "save" => SavedOK(q, x),
         (\E p \in Id : p[1] = q /\ rows[p] # "none") => x.step \in {"save", "done", "failed"}
  PROVE  RequestInv'
<1>1. /\ DOMAIN requests' = DOMAIN requests /\ requests'[q] = x
      /\ \A t \in DOMAIN requests : t # q => requests'[t] = requests[t]
  BY OneRequestChanges
<1>2. \A t \in DOMAIN requests' :
        /\ InInit(t)' => requests'[t].answers = {}
        /\ requests'[t].step = "call" => CalledOK(t, requests'[t])
        /\ requests'[t].step = "save" => SavedOK(t, requests'[t])
  <2> SUFFICES ASSUME NEW t \in DOMAIN requests
               PROVE  /\ InInit(t)' => requests'[t].answers = {}
                      /\ requests'[t].step = "call" => CalledOK(t, requests'[t])
                      /\ requests'[t].step = "save" => SavedOK(t, requests'[t])
    BY <1>1
  <2>1. CASE t = q
    BY <1>1, <2>1 DEF InInit
  <2>2. CASE t # q
    BY <1>1, <2>2 DEF RequestInv, CalledOK, SavedOK, InInit
  <2> QED
    BY <2>1, <2>2
<1>3. \A p \in Id : rows'[p] # "none" =>
        p[1] \in DOMAIN requests' /\ requests'[p[1]].step \in {"save", "done", "failed"}
  BY <1>1 DEF RequestInv
<1> QED
  BY <1>2, <1>3 DEF RequestInv, CalledOK, SavedOK

LEMMA RequestKeptByStart == TypeOK /\ RequestInv /\ StartInference => RequestInv'
<1> SUFFICES ASSUME TypeOK, RequestInv, StartInference PROVE RequestInv'
  OBVIOUS
<1>0. PICK new : new = Len(requests) + 1
  OBVIOUS
<1>1. PICK e \in Request : requests' = Append(requests, e)
  BY StartTyped
<1>2. /\ DOMAIN requests' = DOMAIN requests \cup {new} /\ new \notin DOMAIN requests
      /\ requests'[new] = e
      /\ \A q \in DOMAIN requests : requests'[q] = requests[q]
  BY <1>0, <1>1, OneRequestMore
<1>3. e.answers = {} /\ e.step \in {"init", "call"}
  <2>1. PICK r \in Rounds, k \in {runner'.kernel, Provided(Aligned(runner)).kernel},
             s \in {"init", "call"} :
          requests' = Append(requests,
            [round |-> r, step |-> s, own |-> k, sample |-> 1, answers |-> {}, todo |-> {}])
    BY DEF StartInference
  <2> DEFINE f == [round |-> r, step |-> s, own |-> k, sample |-> 1, answers |-> {}, todo |-> {}]
  <2>2. runner' \in Runner
    BY StartTyped
  <2>3. requests'[Len(requests) + 1] = f /\ f.answers = {} /\ f.step = s
    <3>1. requests \in Seq(Request) /\ DOMAIN requests = 1..Len(requests) /\ Len(requests) \in Nat
      BY RequestsNumbered DEF TypeOK, ReportOK
    <3>2. requests'[Len(requests) + 1] = f
      BY <2>1, <3>1
    <3> QED
      BY <3>2
  <2> QED
    BY <1>0, <1>2, <2>3
<1>4. rows' = rows
  BY DEF StartInference, tables
<1>5. \A p \in Id : rows[p] # "none" => p[1] \in DOMAIN requests
  BY DEF RequestInv
<1> QED
  BY <1>2, <1>3, <1>4, <1>5 DEF RequestInv, OneEach, InInit

LEMMA RequestKeptByInference ==
  ASSUME TypeOK, RequestInv, NEW q \in DOMAIN requests, Inference(q)
  PROVE  RequestInv'
<1> DEFINE x == requests[q]
<1>1. x \in Request
  BY RequestsNumbered
<1>2. \A step \in {"done", "failed"} :
        Over(x, step) \in Request /\ Over(x, step).step = step
  BY <1>1, TournamentAssumption DEF Over, Request, NoRunner
<1>3. ASSUME NEW p \in Id, p[1] = q, rows[p] # "none"
      PROVE  x.step \in {"save", "done", "failed"}
  BY <1>3 DEF RequestInv
<1>4. CASE EndInit(q)
  <2> DEFINE y == [x EXCEPT !.step = "call"]
  <2>1. /\ y \in Request /\ y.step = "call" /\ y.answers = x.answers
        /\ requests' = [requests EXCEPT ![q] = y]
    BY <1>1, <1>4 DEF EndInit, Request
  <2>2. x.step = "init" /\ x.answers = {} /\ rows' = rows
    BY <1>4 DEF EndInit, RequestInv, InInit, tables
  <2>3. CalledOK(q, y)
    BY <2>1, <2>2 DEF CalledOK, OneEach
  <2>4. ~\E p \in Id : p[1] = q /\ rows[p] # "none"
    BY <1>3, <2>2
  <2> HIDE DEF y
  <2> QED
    BY <2>1, <2>2, <2>3, <2>4, RequestFrame
<1>5. CASE InitFails(q)
  <2>1. requests' = [requests EXCEPT ![q] = Over(x, "failed")] /\ rows' = rows
    BY <1>5 DEF InitFails, tables
  <2> QED
    BY <1>2, <2>1, RequestFrame
<1>6. CASE CallModels(q)
  <2>1. x.step = "call" /\ rows' = rows
    BY <1>6 DEF CallModels, tables
  <2>2. CalledOK(q, x)
    BY <2>1 DEF RequestInv, CalledOK
  <2>3. ~\E p \in Id : p[1] = q /\ rows[p] # "none"
    BY <1>3, <2>1
  <2>4. PICK outcome \in [Models -> {"PENDING", "FAILED", "missing"}] :
          LET answers == x.answers \cup Answers(q, outcome)
          IN  requests' = [requests EXCEPT ![q] =
                IF x.sample = Samples
                THEN [x EXCEPT !.step = "save", !.answers = {},
                               !.todo = answers \cup Absent(q, answers)]
                ELSE [x EXCEPT !.sample = @ + 1, !.answers = answers]]
    BY <1>6 DEF CallModels
  <2> DEFINE answers == x.answers \cup Answers(q, outcome)
             saved   == answers \cup Absent(q, answers)
             saving  == [x EXCEPT !.step = "save", !.answers = {}, !.todo = saved]
             calling == [x EXCEPT !.sample = @ + 1, !.answers = answers]
  <2>5. answers \subseteq Answer /\ Absent(q, answers) \subseteq Answer
    <3>1. answers \subseteq Answer
      BY <1>1, AnswersTyped DEF Request
    <3> QED
      BY <3>1, AnswersTyped
  <2>6. /\ OneEach(answers)
        /\ \A a \in answers : a[1][1] = q /\ a[1][2] < x.sample + 1
        /\ OneEach(saved)
        /\ \A a \in Absent(q, answers) : a[1][1] = q
    BY <2>2, OneAnswerEach
  <2>7. \A a \in saved : a[1][1] = q /\ rows[a[1]] = "none"
    BY <2>3, <2>5, <2>6 DEF Answer
  <2>8. CASE x.sample = Samples
    <3>1. requests' = [requests EXCEPT ![q] = saving]
      BY <2>4, <2>8
    <3>2. saving \in Request /\ saving.step = "save" /\ saving.todo = saved
      BY <1>1, <2>5 DEF Request
    <3>3. SavedOK(q, saving)
      BY <2>6, <2>7, <3>2 DEF SavedOK
    <3> HIDE DEF saving
    <3> QED
      BY <2>1, <2>3, <3>1, <3>2, <3>3, RequestFrame
  <2>9. CASE x.sample # Samples
    <3>1. requests' = [requests EXCEPT ![q] = calling]
      BY <2>4, <2>9
    <3>2. x.sample + 1 \in 1..Samples
      BY <1>1, <2>9, TournamentAssumption DEF Request
    <3>3. /\ calling \in Request /\ calling.step = "call"
          /\ calling.sample = x.sample + 1 /\ calling.answers = answers
      BY <1>1, <2>1, <2>5, <3>2 DEF Request
    <3>4. CalledOK(q, calling)
      BY <2>6, <3>3 DEF CalledOK
    <3> HIDE DEF calling
    <3> QED
      BY <2>1, <2>3, <3>1, <3>3, <3>4, RequestFrame
  <2> QED
    BY <2>8, <2>9
<1>7. CASE SavePrediction(q)
  <2>1. PICK a \in x.todo : /\ rows' = [rows EXCEPT ![a[1]] = a[2]]
                            /\ requests' = [requests EXCEPT ![q].todo = @ \ {a}]
    BY <1>7 DEF SavePrediction
  <2>2. x.step = "save" /\ SavedOK(q, x)
    BY <1>7 DEF SavePrediction, RequestInv, SavedOK
  <2>3. a[1] \in Id /\ a[1][1] = q /\ a[2] \in {"PENDING", "FAILED", "ABSENT"}
    BY <1>1, <2>2 DEF Request, Answer, SavedOK
  <2> DEFINE y == [x EXCEPT !.todo = @ \ {a}]
  <2>4. /\ y \in Request /\ y.step = "save" /\ y.todo = x.todo \ {a}
        /\ requests' = [requests EXCEPT ![q] = y]
    BY <1>1, <2>1, <2>2 DEF Request
  <2> HIDE DEF y
  <2>5. /\ DOMAIN requests' = DOMAIN requests /\ requests'[q] = y
        /\ \A t \in DOMAIN requests : t # q => requests'[t] = requests[t]
    BY <2>4, OneRequestChanges
  <2>6. \A p \in Id : rows'[p] = IF p = a[1] THEN a[2] ELSE rows[p]
    BY <2>1, <2>3 DEF TypeOK, TablesOK
  <2>7. \A t \in DOMAIN requests' :
          /\ InInit(t)' => requests'[t].answers = {}
          /\ requests'[t].step = "call" => CalledOK(t, requests'[t])
          /\ requests'[t].step = "save" =>
               /\ OneEach(requests'[t].todo)
               /\ \A b \in requests'[t].todo : b[1][1] = t /\ rows'[b[1]] = "none"
    <3> SUFFICES ASSUME NEW t \in DOMAIN requests
                 PROVE  /\ InInit(t)' => requests'[t].answers = {}
                        /\ requests'[t].step = "call" => CalledOK(t, requests'[t])
                        /\ requests'[t].step = "save" =>
                             /\ OneEach(requests'[t].todo)
                             /\ \A b \in requests'[t].todo : b[1][1] = t /\ rows'[b[1]] = "none"
      BY <2>5
    <3>1. CASE t = q
      <4>1. OneEach(x.todo \ {a})
        BY <2>2 DEF SavedOK, OneEach
      <4>2. \A b \in x.todo \ {a} : b[1] \in Id /\ b[1] # a[1] /\ b[1][1] = q /\ rows[b[1]] = "none"
        BY <1>1, <2>2 DEF SavedOK, OneEach, Request, Answer
      <4> QED
        BY <2>4, <2>5, <2>6, <3>1, <4>1, <4>2 DEF InInit
    <3>2. CASE t # q
      <4>1. requests'[t] = requests[t] /\ requests[t] \in Request
        BY <2>5, <3>2, RequestsNumbered
      <4>2. requests[t].step = "save" =>
              /\ OneEach(requests[t].todo)
              /\ \A b \in requests[t].todo : b[1] \in Id /\ b[1][1] = t /\ rows[b[1]] = "none"
        BY <4>1 DEF RequestInv, Request, Answer
      <4>3. requests[t].step = "save" => \A b \in requests[t].todo : rows'[b[1]] = "none"
        BY <2>3, <2>6, <3>2, <4>2
      <4> QED
        BY <4>1, <4>2, <4>3 DEF RequestInv, CalledOK, InInit
    <3> QED
      BY <3>1, <3>2
  <2>8. \A p \in Id : rows'[p] # "none" =>
          p[1] \in DOMAIN requests' /\ requests'[p[1]].step \in {"save", "done", "failed"}
    BY <2>3, <2>4, <2>5, <2>6 DEF RequestInv
  <2> QED
    BY <2>7, <2>8 DEF RequestInv, CalledOK
<1>8. CASE EndInference(q)
  <2>1. requests' = [requests EXCEPT ![q] = Over(x, "done")] /\ rows' = rows
    BY <1>8 DEF EndInference, tables
  <2> QED
    BY <1>2, <2>1, RequestFrame
<1>9. CASE InferenceFails(q)
  <2>1. requests' = [requests EXCEPT ![q] = Over(x, "failed")] /\ rows' = rows
    BY <1>9 DEF InferenceFails, tables
  <2> QED
    BY <1>2, <2>1, RequestFrame
<1> QED
  BY <1>4, <1>5, <1>6, <1>7, <1>8, <1>9 DEF Inference

LEMMA RequestKeptByRestart == TypeOK /\ RequestInv /\ Restart => RequestInv'
<1> SUFFICES ASSUME TypeOK, RequestInv, Restart PROVE RequestInv'
  OBVIOUS
<1>1. /\ DOMAIN requests' = DOMAIN requests
      /\ \A q \in DOMAIN requests : requests'[q].step \in {"done", "failed"}
  BY RestartTyped
<1>2. rows' = rows
  BY DEF Restart, tables
<1> QED
  BY <1>1, <1>2 DEF RequestInv, InInit

(* Processes score what is in the table. *)
LEMMA RequestKeptByScores ==
  ASSUME RequestInv, requests' = requests,
         \A p \in Id : rows'[p] = rows[p] \/ rows[p] # "none",
         TypeOK
  PROVE  RequestInv'
<1>1. ASSUME NEW q \in DOMAIN requests, requests[q].step = "save", NEW a \in requests[q].todo
      PROVE  rows'[a[1]] = "none"
  <2>1. a[1] \in Id /\ rows[a[1]] = "none"
    BY <1>1, RequestsNumbered DEF RequestInv, Request, Answer
  <2> QED
    BY <2>1
<1>2. \A p \in Id : rows'[p] # "none" => rows[p] # "none"
  OBVIOUS
<1> QED
  BY <1>1, <1>2 DEF RequestInv, InInit

-----------------------------------------------------------------------------
(* What snapshots count *)

TablesTyped(rw, sc, ct, la) ==
  /\ rw \in [Id -> Status] /\ sc \in [Id -> Truth]
  /\ ct \in [Id -> Int] /\ la \in [Models -> SUBSET Id]

(* Neither process is the first. *)
LEMMA CountsSymmetric ==
  ASSUME NEW h, NEW g, NEW rw, NEW sc, NEW ct, NEW la, NEW sh, NEW lo,
         CountsOK(h, g, rw, sc, ct, la, sh, lo)
  PROVE  CountsOK(g, h, rw, sc, ct, la, sh, lo)
BY DEF CountsOK

(* A score that is saved is one of a prediction that nothing counts.        *)
LEMMA CountsScore ==
  ASSUME NEW h \in Process, NEW g \in Process, NEW rw, NEW sc, NEW ct, NEW la, NEW sh, NEW lo,
         TablesTyped(rw, sc, ct, la), CountsOK(h, g, rw, sc, ct, la, sh, lo),
         NEW a \in h.todo
  PROVE  CountsOK(Taken(h, a), g, rw, [sc EXCEPT ![a[1]] = a[2]], ct, la, sh, lo)
<1> DEFINE k == Taken(h, a)
           sd == [sc EXCEPT ![a[1]] = a[2]]
<1>1. a[1] \in Id /\ a[1] \in InHand(h) /\ a[2] # NoTruth
  BY ProcessTyped DEF InHand, CountsOK, HandOK
<1>2. k.todo = h.todo /\ k.done = h.done \cup {a[1]} /\ InHand(k) = InHand(h) /\ Held(k) = Held(h)
  BY <1>1 DEF Taken, Process, InHand, Held
<1>3. \A p \in Id : sd[p] = IF p = a[1] THEN a[2] ELSE sc[p]
  BY <1>1 DEF TablesTyped
<1>4. h.done \subseteq Id /\ g.done \subseteq Id
  BY DEF Process
<1>5. a[1] \notin sh => ct[a[1]] = 0
  BY <1>1 DEF CountsOK, HandOK, TablesTyped
<1> HIDE DEF k, sd
<1>6. HandOK(k, rw, sd, ct, sh)
  BY <1>1, <1>2, <1>3, <1>4, <1>5 DEF CountsOK, HandOK
<1>7. HandOK(g, rw, sd, ct, sh)
  BY <1>1, <1>3, <1>4 DEF CountsOK, HandOK
<1>8. \A p \in Id : rw[p] = "SCORED" => sd[p] # NoTruth
  BY <1>1, <1>3 DEF CountsOK
<1>9. CountsOK(k, g, rw, sd, ct, la, sh, lo)
  BY <1>2, <1>6, <1>7, <1>8 DEF CountsOK
<1> QED
  BY <1>9 DEF k, sd

(* A status that is saved is one of a prediction in hand whose score is.    *)
LEMMA CountsStatus ==
  ASSUME NEW h \in Process, NEW g \in Process, NEW rw, NEW sc, NEW ct, NEW la, NEW sh, NEW lo,
         TablesTyped(rw, sc, ct, la), CountsOK(h, g, rw, sc, ct, la, sh, lo),
         NEW a \in h.todo, a[1] \in h.done
  PROVE  CountsOK(Passed(h, a), g, [rw EXCEPT ![a[1]] = "SCORED"], sc, ct, la, sh, lo)
<1> DEFINE k == Passed(h, a)
           rx == [rw EXCEPT ![a[1]] = "SCORED"]
<1>1. a[1] \in Id /\ a[1] \in InHand(h)
  BY ProcessTyped DEF InHand
<1>2. k.todo = h.todo \ {a} /\ k.done = h.done
  BY DEF Passed, Process
<1>3. InHand(k) = InHand(h) \ {a[1]} /\ Held(k) = Held(h)
  <2>1. OneEach(h.todo)
    BY DEF CountsOK, HandOK
  <2>2. InHand(k) = InHand(h) \ {a[1]}
    BY <1>2, <2>1 DEF InHand, OneEach
  <2> QED
    BY <1>1, <1>2, <2>2 DEF Held
<1>4. \A p \in Id : rx[p] = IF p = a[1] THEN "SCORED" ELSE rw[p]
  BY <1>1 DEF TablesTyped
<1>5. Held(h) \subseteq Id /\ Held(g) \subseteq Id
  BY ProcessTyped DEF Held
<1> HIDE DEF k, rx
<1>6. HandOK(k, rx, sc, ct, sh)
  <2>1. OneEach(k.todo) /\ \A b \in k.todo : b[2] # NoTruth
    BY <1>2 DEF CountsOK, HandOK, OneEach
  <2>2. \A p \in Held(k) : rx[p] \in {"PENDING", "SCORED"}
    BY <1>3, <1>4, <1>5 DEF CountsOK, HandOK
  <2>3. \A p \in InHand(k) \ sh : rx[p] = "PENDING"
    BY <1>3, <1>4, <1>5 DEF CountsOK, HandOK, Held
  <2>4. \A p \in k.done \ InHand(k) : rx[p] = "SCORED"
    BY <1>2, <1>3, <1>4, <1>5 DEF CountsOK, HandOK, Held
  <2> QED
    BY <1>2, <2>1, <2>2, <2>3, <2>4 DEF CountsOK, HandOK
<1>7. HandOK(g, rx, sc, ct, sh)
  <2>1. a[1] \in Held(g) => a[1] \in sh
    BY <1>1 DEF CountsOK, Held
  <2>2. \A p \in InHand(g) \ sh : rx[p] = "PENDING"
    BY <1>4, <1>5, <2>1 DEF CountsOK, HandOK, Held
  <2>3. \A p \in g.done \ InHand(g) : rx[p] = "SCORED"
    BY <1>4, <1>5 DEF CountsOK, HandOK, Held
  <2>4. \A p \in Held(g) : rx[p] \in {"PENDING", "SCORED"}
    BY <1>4, <1>5 DEF CountsOK, HandOK
  <2> QED
    BY <2>2, <2>3, <2>4 DEF CountsOK, HandOK
<1>8. \A p \in Id :
        /\ ct[p] > 0 => rx[p] = "SCORED"
        /\ rx[p] = "SCORED" => sc[p] # NoTruth
        /\ rx[p] = "SCORED" /\ p \notin k.done \cup g.done \cup sh \cup lo => ct[p] = 1
  BY <1>2, <1>4 DEF CountsOK, HandOK
<1>9. CountsOK(k, g, rx, sc, ct, la, sh, lo)
  BY <1>3, <1>6, <1>7, <1>8 DEF CountsOK
<1> QED
  BY <1>9 DEF k, rx

(* A snapshot is written when everything in hand has its status: it counts  *)
(* predictions that nothing counted before, but for shared ones.            *)
LEMMA CountsSnapshot ==
  ASSUME TypeOK, NEW h \in Process, NEW g \in Process, NEW m \in Models,
         CountsOK(h, g, rows, scores, counted, latest, shared, lost),
         h.todo = {}, WriteSnapshot(h, m)
  PROVE  CountsOK(Without(h, m), g, rows, scores, counted', latest', shared, lost')
<1> DEFINE new == CountedBy(h, m)
           k   == Without(h, m)
           Added(p)    == IF p \in new THEN 1 ELSE 0
           Replaced(p) == IF p \in latest[m] THEN 1 ELSE 0
<1>1. /\ counted \in [Id -> Int] /\ latest \in [Models -> SUBSET Id]
      /\ h.done \subseteq Id /\ g.done \subseteq Id
  BY DEF TypeOK, TablesOK, Process
<1>2. new = {p \in h.done : p[3] = m} /\ new \subseteq Id
  BY <1>1 DEF CountedBy
<1>3. k.todo = {} /\ k.done = h.done \ new
  BY <1>2 DEF Without, Process
<1>4. InHand(h) = {} /\ InHand(k) = {} /\ Held(k) = k.done /\ Held(h) = h.done
  BY <1>3 DEF InHand, Held
<1>5. \A p \in new : /\ rows[p] = "SCORED" /\ scores[p] # NoTruth
                     /\ p \notin shared => counted[p] = 0 /\ p \notin g.done
  BY <1>2, <1>4 DEF CountsOK, HandOK, Held
<1>6. \A x \in Models : latest'[x] = IF x = m THEN new ELSE latest[x]
  BY <1>1 DEF WriteSnapshot
<1>7. \A p \in Id : /\ counted[p] \in Int /\ counted[p] >= 0
                    /\ p \in latest[m] => counted[p] > 0 /\ p[3] = m
                    /\ counted[p] > 0 => rows[p] = "SCORED"
  BY <1>1 DEF CountsOK
<1>8. \/ lost' = lost /\ \A p \in Id : counted'[p] = counted[p] + Added(p)
      \/ /\ lost' = lost \cup (latest[m] \ new)
         /\ \A p \in Id : counted'[p] = counted[p] + Added(p) - Replaced(p)
  BY DEF WriteSnapshot
<1> HIDE DEF new, k
<1>9. \A p \in Id :
        /\ counted'[p] >= 0
        /\ counted'[p] > 0 => rows[p] = "SCORED"
        /\ p \in new => counted'[p] > 0
        /\ p \notin new /\ p \notin latest[m] => counted'[p] = counted[p]
        /\ p \notin new /\ p \notin lost' => counted'[p] = counted[p]
        /\ p \in new /\ p \notin shared => counted'[p] = 1
        /\ p \notin new => counted'[p] <= counted[p]
  <2> SUFFICES ASSUME NEW p \in Id
               PROVE  /\ counted'[p] >= 0
                      /\ counted'[p] > 0 => rows[p] = "SCORED"
                      /\ p \in new => counted'[p] > 0
                      /\ p \notin new /\ p \notin latest[m] => counted'[p] = counted[p]
                      /\ p \notin new /\ p \notin lost' => counted'[p] = counted[p]
                      /\ p \in new /\ p \notin shared => counted'[p] = 1
                      /\ p \notin new => counted'[p] <= counted[p]
    OBVIOUS
  <2>1. /\ counted[p] \in Int /\ counted[p] >= 0 /\ (p \in latest[m] => counted[p] > 0)
        /\ counted[p] > 0 => rows[p] = "SCORED"
        /\ p \in new => rows[p] = "SCORED"
        /\ p \in new /\ p \notin shared => counted[p] = 0
    BY <1>5, <1>7
  <2>2. CASE lost' = lost /\ counted'[p] = counted[p] + Added(p)
    BY <2>1, <2>2
  <2>3. CASE /\ lost' = lost \cup (latest[m] \ new)
             /\ counted'[p] = counted[p] + Added(p) - Replaced(p)
    BY <2>1, <2>3
  <2> QED
    BY <1>8, <2>2, <2>3
<1>10. \A x \in Models : \A p \in latest'[x] : p[3] = x /\ counted'[p] > 0
  <2> SUFFICES ASSUME NEW x \in Models, NEW p \in latest'[x]
               PROVE  p[3] = x /\ counted'[p] > 0
    OBVIOUS
  <2>1. CASE x = m
    <3>1. p \in new /\ p \in Id
      BY <1>2, <1>6, <2>1
    <3> QED
      BY <1>2, <1>9, <2>1, <3>1
  <2>2. CASE x # m
    <3>1. p \in latest[x] /\ p \in Id
      BY <1>1, <1>6, <2>2
    <3>2. p[3] = x /\ counted[p] > 0
      BY <3>1 DEF CountsOK
    <3>3. p \notin new /\ p \notin latest[m]
      BY <1>2, <1>7, <2>2, <3>1, <3>2
    <3> QED
      BY <1>9, <3>1, <3>2, <3>3
  <2> QED
    BY <2>1, <2>2
<1>11. HandOK(k, rows, scores, counted', shared)
  <2>1. \A p \in k.done \ shared : counted'[p] = 0
    <3> SUFFICES ASSUME NEW p \in k.done \ shared PROVE counted'[p] = 0
      OBVIOUS
    <3>1. p \in Id /\ p \in h.done /\ p \notin new
      BY <1>1, <1>3
    <3>2. counted[p] = 0
      BY <3>1 DEF CountsOK, HandOK
    <3>3. p \notin latest[m]
      BY <1>7, <3>1, <3>2
    <3> QED
      BY <1>9, <3>1, <3>2, <3>3
  <2> QED
    BY <1>3, <1>4, <2>1 DEF CountsOK, HandOK, OneEach
<1>12. HandOK(g, rows, scores, counted', shared)
  <2>1. \A p \in g.done \ shared : counted'[p] = 0
    <3> SUFFICES ASSUME NEW p \in g.done \ shared PROVE counted'[p] = 0
      OBVIOUS
    <3>1. p \in Id /\ p \notin new
      BY <1>1, <1>5
    <3>2. counted[p] = 0
      BY DEF CountsOK, HandOK
    <3>3. p \notin latest[m]
      BY <1>7, <3>1, <3>2
    <3> QED
      BY <1>9, <3>1, <3>2, <3>3
  <2> QED
    BY <2>1 DEF CountsOK, HandOK
<1>13. \A p \in Id :
         /\ p \notin shared => counted'[p] <= 1
         /\ rows[p] = "SCORED" /\ p \notin k.done \cup g.done \cup shared \cup lost' => counted'[p] = 1
  <2> SUFFICES ASSUME NEW p \in Id
               PROVE  /\ p \notin shared => counted'[p] <= 1
                      /\ rows[p] = "SCORED" /\ p \notin k.done \cup g.done \cup shared \cup lost'
                         => counted'[p] = 1
    OBVIOUS
  <2>1. CASE p \in new
    BY <1>9, <2>1
  <2>2. CASE p \notin new
    <3>1. p \notin shared => counted[p] <= 1
      BY DEF CountsOK
    <3>2. /\ counted[p] \in Int /\ counted'[p] <= counted[p]
          /\ p \notin latest[m] => counted'[p] = counted[p]
          /\ p \notin lost' => counted'[p] = counted[p] /\ p \notin lost
      BY <1>7, <1>8, <1>9, <2>2
    <3>3. p \in latest[m] => counted[p] > 0
      BY <1>7
    <3>4. counted'[p] = counted[p] \/ counted'[p] = counted[p] - 1
      BY <1>8, <2>2, <3>2
    <3>5. p \notin shared => counted'[p] <= 1
      BY <3>1, <3>2, <3>4
    <3>6. ASSUME rows[p] = "SCORED", p \notin k.done \cup g.done \cup shared \cup lost'
          PROVE  counted'[p] = 1
      <4>1. p \notin h.done \cup g.done \cup shared \cup lost
        BY <1>3, <2>2, <3>2, <3>6
      <4>2. counted[p] = 1
        BY <3>6, <4>1 DEF CountsOK
      <4> QED
        BY <3>2, <3>6, <4>2
    <3> QED
      BY <3>5, <3>6
  <2> QED
    BY <2>1, <2>2
<1>14. Held(k) \cap Held(g) \subseteq shared
  BY <1>3, <1>4 DEF CountsOK
<1>15. CountsOK(k, g, rows, scores, counted', latest', shared, lost')
  BY <1>9, <1>10, <1>11, <1>12, <1>13, <1>14 DEF CountsOK
<1> QED
  BY <1>15 DEF k

(* What a process cut short had scored and not counted is lost, but for one *)
(* whose status was not saved, which is still pending.                      *)
LEMMA CountsDropped ==
  ASSUME NEW h \in Process, NEW g, NEW rw, NEW sc, NEW ct, NEW la, NEW sh, NEW lo,
         CountsOK(h, g, rw, sc, ct, la, sh, lo)
  PROVE  CountsOK(Idle, g, rw, sc, ct, la, sh, lo \cup (h.done \ Unfinished(h)))
<1>1. Idle.todo = {} /\ Idle.done = {} /\ InHand(Idle) = {} /\ Held(Idle) = {}
  BY DEF Idle, InHand, Held
<1>2. HandOK(Idle, rw, sc, ct, sh)
  BY <1>1 DEF HandOK, OneEach
<1>3. ASSUME NEW p \in Id, rw[p] = "SCORED",
             p \notin g.done \cup sh \cup (lo \cup (h.done \ Unfinished(h)))
      PROVE  ct[p] = 1
  <2>1. p \notin InHand(h)
    BY <1>3 DEF CountsOK, HandOK
  <2>2. p \notin h.done
    BY <1>3, <2>1 DEF Unfinished
  <2> QED
    BY <1>3, <2>2 DEF CountsOK
<1> QED
  BY <1>1, <1>2, <1>3 DEF CountsOK

(* What a process finds is pending, and shared if the other has it in hand. *)
LEMMA CountsFound ==
  ASSUME NEW h \in Process, NEW g, NEW rw, NEW sc, NEW ct, NEW la, NEW sh, NEW lo, NEW su,
         CountsOK(Idle, g, rw, sc, ct, la, sh, lo),
         h.done = {}, OneEach(h.todo), \A a \in h.todo : a[2] # NoTruth,
         \A p \in InHand(h) : rw[p] = "PENDING",
         sh \subseteq su, InHand(h) \cap InHand(g) \subseteq su
  PROVE  CountsOK(h, g, rw, sc, ct, la, su, lo)
<1>1. Held(h) = InHand(h) /\ Idle.done = {}
  BY DEF Held, Idle
<1>2. HandOK(h, rw, sc, ct, su)
  BY <1>1 DEF HandOK
<1>3. HandOK(g, rw, sc, ct, su)
  BY DEF CountsOK, HandOK
<1>4. Held(h) \cap Held(g) \subseteq su
  BY <1>1 DEF CountsOK, HandOK, Held
<1> QED
  BY <1>1, <1>2, <1>3, <1>4 DEF CountsOK

(* What a request saves is new to the processes. *)
LEMMA CountsRow ==
  ASSUME NEW h \in Process, NEW g \in Process, NEW rw, NEW sc, NEW ct, NEW la, NEW sh, NEW lo,
         TablesTyped(rw, sc, ct, la), CountsOK(h, g, rw, sc, ct, la, sh, lo),
         NEW q \in Id, rw[q] = "none", NEW v \in {"PENDING", "FAILED", "ABSENT"}
  PROVE  CountsOK(h, g, [rw EXCEPT ![q] = v], sc, ct, la, sh, lo)
<1> DEFINE rx == [rw EXCEPT ![q] = v]
<1>1. \A p \in Id : rx[p] = IF p = q THEN v ELSE rw[p]
  BY DEF TablesTyped
<1>2. Held(h) \subseteq Id /\ Held(g) \subseteq Id
  BY ProcessTyped DEF Held
<1>3. q \notin Held(h) /\ q \notin Held(g)
  BY DEF CountsOK, HandOK
<1> HIDE DEF rx
<1>4. HandOK(h, rx, sc, ct, sh)
  BY <1>1, <1>2, <1>3 DEF CountsOK, HandOK, Held
<1>5. HandOK(g, rx, sc, ct, sh)
  BY <1>1, <1>2, <1>3 DEF CountsOK, HandOK, Held
<1>6. CountsOK(h, g, rx, sc, ct, la, sh, lo)
  BY <1>1, <1>4, <1>5 DEF CountsOK
<1> QED
  BY <1>6 DEF rx

(* What a request of a scoring finds is each prediction once, with an item  *)
(* of the ground truth.                                                     *)
LEMMA PairedOnce ==
  ASSUME NEW S \in SUBSET Id, NEW r, NEW n
  PROVE  /\ OneEach(Paired(S, r, n))
         /\ \A a \in Paired(S, r, n) :
              /\ a[1] \in S /\ a[2] # NoTruth
              /\ a[2] = <<r, Position(a[1], OfModel(S, a[1][3]))>>
<1>1. \A a \in Paired(S, r, n) :
        \E p \in S : a = <<p, <<r, Position(p, OfModel(S, p[3]))>>>>
  BY DEF Paired
<1>2. \A a \in Paired(S, r, n) :
        /\ a[1] \in S /\ a[2] = <<r, Position(a[1], OfModel(S, a[1][3]))>>
        /\ a = <<a[1], a[2]>>
  BY <1>1
<1>3. \A a \in Paired(S, r, n) : a[2] # NoTruth
  BY <1>2, PositionCounts DEF NoTruth
<1>4. OneEach(Paired(S, r, n))
  BY <1>2 DEF OneEach
<1> QED
  BY <1>2, <1>3, <1>4

LEMMA CountStarts == Init => CountInv
<1> SUFFICES ASSUME Init PROVE CountInv
  OBVIOUS
<1>1. Idle.todo = {} /\ Idle.done = {} /\ InHand(Idle) = {} /\ Held(Idle) = {}
  BY DEF Idle, InHand, Held
<1>2. HandOK(Idle, rows, scores, counted, shared)
  BY <1>1 DEF HandOK, OneEach
<1> QED
  BY <1>1, <1>2 DEF Init, CountInv, CountsOK

LEMMA CountKept == TypeOK /\ RequestInv /\ CountInv /\ [Next]_vars => CountInv'
<1> SUFFICES ASSUME TypeOK, RequestInv, CountInv, [Next]_vars PROVE CountInv'
  OBVIOUS
<1>1. /\ scoring \in Process /\ worker \in Process
      /\ TablesTyped(rows, scores, counted, latest)
      /\ CountsOK(scoring, worker, rows, scores, counted, latest, shared, lost)
      /\ CountsOK(worker, scoring, rows, scores, counted, latest, shared, lost)
  BY CountsSymmetric DEF TypeOK, ReportOK, TablesOK, TablesTyped, CountInv
<1>2. ASSUME UNCHANGED <<tables, scoring, worker, shared, lost>> PROVE CountInv'
  BY <1>2 DEF CountInv, tables
<1>3. CASE StartInference
  BY <1>2, <1>3 DEF StartInference
<1>4. ASSUME NEW q \in DOMAIN requests, Inference(q) PROVE CountInv'
  <2>1. CASE EndInit(q)
    BY <1>2, <2>1 DEF EndInit, history
  <2>2. CASE InitFails(q)
    BY <1>2, <2>2 DEF InitFails
  <2>3. CASE CallModels(q)
    BY <1>2, <2>3 DEF CallModels, history
  <2>4. CASE SavePrediction(q)
    <3>1. PICK a \in requests[q].todo : rows' = [rows EXCEPT ![a[1]] = a[2]]
      BY <2>4 DEF SavePrediction
    <3>2. /\ a[1] \in Id /\ a[2] \in {"PENDING", "FAILED", "ABSENT"}
          /\ rows[a[1]] = "none"
      BY <2>4, RequestsNumbered DEF SavePrediction, RequestInv, Request, Answer
    <3>3. UNCHANGED <<scores, counted, latest, scoring, worker, shared, lost>>
      BY <2>4 DEF SavePrediction, history
    <3>4. CountsOK(scoring, worker, rows', scores, counted, latest, shared, lost)
      BY <1>1, <3>1, <3>2, CountsRow
    <3> QED
      BY <3>3, <3>4 DEF CountInv
  <2>5. CASE EndInference(q)
    BY <1>2, <2>5 DEF EndInference, history
  <2>6. CASE InferenceFails(q)
    BY <1>2, <2>6 DEF InferenceFails
  <2> QED
    BY <1>4, <2>1, <2>2, <2>3, <2>4, <2>5, <2>6 DEF Inference
<1>5. CASE StartScoring
  <2>1. PICK r \in {requests[q].round : q \in DOMAIN requests}, n \in 1..(Samples + 1) :
          /\ scoring' = [Idle EXCEPT !.todo = Paired(PendingOf(r), r, n)]
          /\ shared' = shared \cup (PendingOf(r) \cap InHand(worker))
    BY <1>5 DEF StartScoring
  <2>2. scoring = Idle /\ UNCHANGED <<tables, worker, lost>>
    BY <1>5 DEF StartScoring, LoopIsFree
  <2>3. \A p \in PendingOf(r) : p \in Id /\ rows[p] = "PENDING"
    BY DEF PendingOf
  <2>4. scoring'.todo = Paired(PendingOf(r), r, n) /\ scoring'.done = {}
    BY <2>1 DEF Idle
  <2>5. InHand(scoring') \subseteq PendingOf(r)
    BY <2>3, <2>4, PairedOnce DEF InHand
  <2>6. OneEach(scoring'.todo) /\ \A a \in scoring'.todo : a[2] # NoTruth
    BY <2>3, <2>4, PairedOnce
  <2>7. scoring' \in Process
    BY <1>5, TypeKept DEF TypeOK, ReportOK, Next
  <2>8. CountsOK(scoring', worker, rows, scores, counted, latest, shared', lost)
    BY <1>1, <2>1, <2>2, <2>3, <2>4, <2>5, <2>6, <2>7, CountsFound
  <2> QED
    BY <2>2, <2>8 DEF CountInv, tables
<1>6. CASE ScoreNext
  <2>1. PICK a \in scoring.todo :
          IF a[1] \in scoring.done
          THEN SavedStatus(a) /\ scoring' = Passed(scoring, a) /\ UNCHANGED scores
          ELSE SavedScore(a) /\ scoring' = Taken(scoring, a) /\ UNCHANGED rows
    BY <1>6 DEF ScoreNext
  <2>2. UNCHANGED <<counted, latest, worker, shared, lost>>
    BY <1>6 DEF ScoreNext, history
  <2>3. CASE a[1] \in scoring.done
    <3>1. CountsOK(scoring', worker, rows', scores, counted, latest, shared, lost)
      BY <1>1, <2>1, <2>3, CountsStatus DEF SavedStatus
    <3> QED
      BY <2>1, <2>2, <2>3, <3>1 DEF CountInv
  <2>4. CASE a[1] \notin scoring.done
    <3>1. CountsOK(scoring', worker, rows, scores', counted, latest, shared, lost)
      BY <1>1, <2>1, <2>4, CountsScore DEF SavedScore
    <3> QED
      BY <2>1, <2>2, <2>4, <3>1 DEF CountInv
  <2> QED
    BY <2>3, <2>4
<1>7. CASE BuildSnapshot
  <2>1. PICK m \in {p[3] : p \in scoring.done} :
          WriteSnapshot(scoring, m) /\ scoring' = Without(scoring, m)
    BY <1>7 DEF BuildSnapshot
  <2>2. m \in Models
    BY <1>1, IdParts, ProcessTyped
  <2>3. scoring.todo = {} /\ UNCHANGED <<rows, scores, worker, shared>>
    BY <1>7 DEF BuildSnapshot
  <2>4. CountsOK(scoring', worker, rows, scores, counted', latest', shared, lost')
    BY <1>1, <2>1, <2>2, <2>3, CountsSnapshot
  <2> QED
    BY <2>3, <2>4 DEF CountInv
<1>8. CASE ScoringFails
  <2>1. /\ scoring' = Idle /\ lost' = lost \cup (scoring.done \ Unfinished(scoring))
        /\ UNCHANGED <<tables, worker, shared>>
    BY <1>8 DEF ScoringFails
  <2>2. CountsOK(scoring', worker, rows, scores, counted, latest, shared, lost')
    BY <1>1, <2>1, CountsDropped
  <2> QED
    BY <2>1, <2>2 DEF CountInv, tables
<1>9. CASE WorkerFinds
  <2> DEFINE S == {p \in Id : rows[p] = "PENDING"}
  <2>1. /\ worker = Idle /\ UNCHANGED <<tables, scoring, lost>>
        /\ worker' = [Idle EXCEPT !.todo = {<<p, InputAsTruth>> : p \in S}]
        /\ shared' = shared \cup (S \cap (InHand(scoring) \cup scoring.done))
    BY <1>9 DEF WorkerFinds, report
  <2>2. worker'.todo = {<<p, InputAsTruth>> : p \in S} /\ worker'.done = {}
    BY <2>1 DEF Idle
  <2> HIDE DEF S
  <2>3. InHand(worker') = S
    <3>1. \A p \in S : <<p, InputAsTruth>>[1] = p
      OBVIOUS
    <3>2. InHand(worker') = {a[1] : a \in {<<p, InputAsTruth>> : p \in S}}
      BY <2>2 DEF InHand
    <3> QED
      BY <3>1, <3>2
  <2>4. OneEach(worker'.todo) /\ \A a \in worker'.todo : a[2] # NoTruth
    BY <2>2 DEF OneEach, InputAsTruth, NoTruth
  <2>5. worker' \in Process
    BY <1>9, TypeKept DEF TypeOK, Next
  <2>6. CountsOK(worker', scoring, rows, scores, counted, latest, shared', lost)
    BY <1>1, <2>1, <2>2, <2>3, <2>4, <2>5, CountsFound DEF S
  <2> QED
    BY <2>1, <2>6, CountsSymmetric DEF CountInv, tables
<1>10. CASE WorkerScores
  <2>1. PICK a \in worker.todo :
          IF a[1] \in worker.done
          THEN SavedStatus(a) /\ worker' = Passed(worker, a) /\ UNCHANGED scores
          ELSE SavedScore(a) /\ worker' = Taken(worker, a) /\ UNCHANGED rows
    BY <1>10 DEF WorkerScores
  <2>2. UNCHANGED <<counted, latest, scoring, shared, lost>>
    BY <1>10 DEF WorkerScores, report, history
  <2>3. CASE a[1] \in worker.done
    <3>1. CountsOK(worker', scoring, rows', scores, counted, latest, shared, lost)
      BY <1>1, <2>1, <2>3, CountsStatus DEF SavedStatus
    <3> QED
      BY <2>1, <2>2, <2>3, <3>1, CountsSymmetric DEF CountInv
  <2>4. CASE a[1] \notin worker.done
    <3>1. CountsOK(worker', scoring, rows, scores', counted, latest, shared, lost)
      BY <1>1, <2>1, <2>4, CountsScore DEF SavedScore
    <3> QED
      BY <2>1, <2>2, <2>4, <3>1, CountsSymmetric DEF CountInv
  <2> QED
    BY <2>3, <2>4
<1>11. CASE WorkerSnapshots
  <2>1. PICK m \in {p[3] : p \in worker.done} :
          WriteSnapshot(worker, m) /\ worker' = Without(worker, m)
    BY <1>11 DEF WorkerSnapshots
  <2>2. m \in Models
    BY <1>1, IdParts, ProcessTyped
  <2>3. worker.todo = {} /\ UNCHANGED <<rows, scores, scoring, shared>>
    BY <1>11 DEF WorkerSnapshots, report
  <2>4. CountsOK(worker', scoring, rows, scores, counted', latest', shared, lost')
    BY <1>1, <2>1, <2>2, <2>3, CountsSnapshot
  <2> QED
    BY <2>3, <2>4, CountsSymmetric DEF CountInv
<1>12. CASE WorkerFails
  <2>1. /\ worker' = Idle /\ lost' = lost \cup (worker.done \ Unfinished(worker))
        /\ UNCHANGED <<tables, scoring, shared>>
    BY <1>12 DEF WorkerFails, report
  <2>2. CountsOK(worker', scoring, rows, scores, counted, latest, shared, lost')
    BY <1>1, <2>1, CountsDropped
  <2> QED
    BY <2>1, <2>2, CountsSymmetric DEF CountInv, tables
<1>13. CASE Restart
  <2>1. /\ scoring' = Idle /\ lost' = lost \cup (scoring.done \ Unfinished(scoring))
        /\ UNCHANGED <<tables, worker, shared>>
    BY <1>13 DEF Restart
  <2>2. CountsOK(scoring', worker, rows, scores, counted, latest, shared, lost')
    BY <1>1, <2>1, CountsDropped
  <2> QED
    BY <2>1, <2>2 DEF CountInv, tables
<1>14. CASE UNCHANGED vars
  BY <1>2, <1>14 DEF vars, report, history
<1> QED
  BY <1>3, <1>4, <1>5, <1>6, <1>7, <1>8, <1>9, <1>10, <1>11, <1>12, <1>13, <1>14 DEF Next

(* What any step does to a row: a request saves one that is new, a process  *)
(* marks one that was pending.                                             *)
LEMMA RowsMove ==
  ASSUME TypeOK, RequestInv, CountInv, [Next]_vars, NEW p \in Id
  PROVE  \/ rows'[p] = rows[p]
         \/ rows[p] \in {"PENDING", "SCORED"} /\ rows'[p] = "SCORED"
         \/ rows[p] = "none" /\ p[1] \in DOMAIN requests /\ requests[p[1]].step = "save"
<1> DEFINE Moves == \/ rows'[p] = rows[p]
                    \/ rows[p] \in {"PENDING", "SCORED"} /\ rows'[p] = "SCORED"
                    \/ /\ rows[p] = "none" /\ p[1] \in DOMAIN requests
                       /\ requests[p[1]].step = "save"
<1>1. ASSUME NEW h \in Process, NEW a \in h.todo, HandOK(h, rows, scores, counted, shared),
             SavedStatus(a)
      PROVE  Moves
  <2>1. a[1] \in Id /\ rows[a[1]] \in {"PENDING", "SCORED"}
    BY <1>1, ProcessTyped DEF HandOK, InHand, Held
  <2> QED
    BY <1>1, <2>1 DEF SavedStatus, TypeOK, TablesOK
<1> HIDE DEF Moves
<1>0. rows' = rows => Moves
  BY DEF Moves
<1>2. /\ scoring \in Process /\ worker \in Process
      /\ HandOK(scoring, rows, scores, counted, shared)
      /\ HandOK(worker, rows, scores, counted, shared)
  BY DEF TypeOK, ReportOK, CountInv, CountsOK
<1>3. CASE ScoreNext
  <2>1. PICK a \in scoring.todo : SavedStatus(a) \/ rows' = rows
    BY <1>3 DEF ScoreNext
  <2> QED
    BY <1>0, <1>1, <1>2, <2>1 DEF Moves
<1>4. CASE WorkerScores
  <2>1. PICK a \in worker.todo : SavedStatus(a) \/ rows' = rows
    BY <1>4 DEF WorkerScores
  <2> QED
    BY <1>0, <1>1, <1>2, <2>1 DEF Moves
<1>5. ASSUME NEW q \in DOMAIN requests, SavePrediction(q) PROVE Moves
  <2>1. PICK a \in requests[q].todo : rows' = [rows EXCEPT ![a[1]] = a[2]]
    BY <1>5 DEF SavePrediction
  <2>2. a[1] \in Id /\ a[1][1] = q /\ rows[a[1]] = "none" /\ requests[q].step = "save"
    BY <1>5, RequestsNumbered DEF SavePrediction, RequestInv, Request, Answer
  <2> QED
    BY <2>1, <2>2 DEF TypeOK, TablesOK, Moves
<1>6. ASSUME NEW q \in DOMAIN requests, Inference(q), ~SavePrediction(q) PROVE rows' = rows
  BY <1>6 DEF Inference, EndInit, InitFails, CallModels, EndInference, InferenceFails, tables
<1>7. \/ StartInference \/ StartScoring \/ BuildSnapshot \/ ScoringFails \/ WorkerFinds
      \/ WorkerSnapshots \/ WorkerFails \/ Restart \/ UNCHANGED vars
      => rows' = rows
  BY DEF StartInference, StartScoring, BuildSnapshot, ScoringFails, WorkerFinds,
         WorkerSnapshots, WorkerFails, Restart, vars, tables
<1> QED
  BY <1>3, <1>4, <1>5, <1>6, <1>7 DEF Next, Moves

LEMMA RequestKept == TypeOK /\ RequestInv /\ CountInv /\ [Next]_vars => RequestInv'
<1> SUFFICES ASSUME TypeOK, RequestInv, CountInv, [Next]_vars PROVE RequestInv'
  OBVIOUS
<1>1. CASE StartInference
  BY <1>1, RequestKeptByStart
<1>2. CASE \E q \in DOMAIN requests : Inference(q)
  BY <1>2, RequestKeptByInference
<1>3. CASE Restart
  BY <1>3, RequestKeptByRestart
<1>4. ASSUME requests' = requests, ScoreNext \/ WorkerScores \/ rows' = rows
      PROVE  RequestInv'
  <2>1. CASE rows' = rows
    BY <1>4, <2>1, RequestKeptByScores
  <2>2. ASSUME NEW h \in Process, NEW a \in h.todo, HandOK(h, rows, scores, counted, shared),
               SavedStatus(a)
        PROVE  RequestInv'
    <3>1. a[1] \in Id /\ rows[a[1]] # "none"
      BY <2>2, ProcessTyped DEF HandOK, InHand, Held
    <3>2. \A p \in Id : rows'[p] = rows[p] \/ rows[p] # "none"
      BY <2>2, <3>1 DEF SavedStatus, TypeOK, TablesOK
    <3> QED
      BY <1>4, <3>2, RequestKeptByScores
  <2>3. /\ scoring \in Process /\ worker \in Process
        /\ HandOK(scoring, rows, scores, counted, shared)
        /\ HandOK(worker, rows, scores, counted, shared)
    BY DEF TypeOK, ReportOK, CountInv, CountsOK
  <2>4. CASE ScoreNext
    <3>1. PICK a \in scoring.todo : SavedStatus(a) \/ rows' = rows
      BY <2>4 DEF ScoreNext
    <3> QED
      BY <2>1, <2>2, <2>3, <3>1
  <2>5. CASE WorkerScores
    <3>1. PICK a \in worker.todo : SavedStatus(a) \/ rows' = rows
      BY <2>5 DEF WorkerScores
    <3> QED
      BY <2>1, <2>2, <2>3, <3>1
  <2> QED
    BY <1>4, <2>1, <2>4, <2>5
<1>5. \/ StartScoring \/ BuildSnapshot \/ ScoringFails \/ WorkerFinds
      \/ WorkerSnapshots \/ WorkerFails \/ UNCHANGED vars
      => requests' = requests /\ rows' = rows
  BY DEF StartScoring, BuildSnapshot, ScoringFails, WorkerFinds, WorkerSnapshots,
         WorkerFails, vars, tables, report
<1>6. ScoreNext \/ WorkerScores => requests' = requests
  BY DEF ScoreNext, WorkerScores, report
<1> QED
  BY <1>1, <1>2, <1>3, <1>4, <1>5, <1>6 DEF Next

LEMMA RequestStarts == Init => RequestInv
BY EmptySeq DEF Init, RequestInv

(* The invariants of the rows, the requests and the processes together.     *)
LEMMA CountsAlwaysHold == Spec => [](TypeOK /\ RequestInv /\ CountInv)
BY TypeStarts, TypeKept, RequestStarts, RequestKept, CountStarts, CountKept, PTL DEF Spec

(* A prediction that is scored has its score, and one snapshot counts it as *)
(* soon as its process is done with it, unless both processes had it, the   *)
(* process was cut short or the snapshot was replaced.                      *)
THEOREM ScoredAreCountedOnce == Spec => []CountedOnce
<1>1. CountInv => CountedOnce
  BY DEF CountInv, CountsOK, CountedOnce
<1> QED
  BY <1>1, CountsAlwaysHold, PTL

-----------------------------------------------------------------------------
(* Whose truth a prediction is scored against *)

(* Among its siblings, a prediction stands at its own index; among some of   *)
(* them not behind it.                                                      *)
LEMMA PositionOfSibling ==
  ASSUME NEW p \in Id, NEW U, U \subseteq Siblings(p)
  PROVE  /\ Position(p, U) <= p[2]
         /\ U = Siblings(p) => Position(p, U) = p[2]
<1> DEFINE T == {q \in Siblings(p) : q[2] < p[2] \/ (q[2] = p[2] /\ ~FoundBefore(p, q))}
           f == [s \in 1..p[2] |-> <<p[1], s, p[3]>>]
<1>1. /\ p[1] \in 1..MaxRequests /\ p[2] \in 1..Samples /\ p[3] \in Models
      /\ p[2] \in Nat /\ p[1] \in Nat /\ Samples \in Nat
  BY IdParts, TournamentAssumption
<1>2. \A s \in 1..p[2] : /\ <<p[1], s, p[3]>> \in Siblings(p)
                         /\ <<p[1], s, p[3]>>[1] = p[1] /\ <<p[1], s, p[3]>>[2] = s
  <2>1. \A s \in 1..p[2] : s \in 1..Samples
    BY <1>1
  <2> QED
    BY <1>1, <2>1, IdParts DEF Siblings
<1>3. \A s \in 1..p[2] : f[s] \in T
  BY <1>1, <1>2 DEF FoundBefore
<1>4. \A q \in T : q[2] \in 1..p[2] /\ q = <<p[1], q[2], p[3]>>
  <2> SUFFICES ASSUME NEW q \in T PROVE q[2] \in 1..p[2] /\ q = <<p[1], q[2], p[3]>>
    OBVIOUS
  <2>1. q \in Id /\ q[1] = p[1] /\ q[3] = p[3] /\ (q[2] < p[2] \/ q[2] = p[2])
    BY DEF Siblings
  <2>2. q[2] \in 1..Samples /\ q = <<q[1], q[2], q[3]>>
    BY <2>1, IdParts
  <2> QED
    BY <1>1, <2>1, <2>2
<1>5. f \in Bijection(1..p[2], T)
  <2>1. f \in [1..p[2] -> T]
    BY <1>3
  <2>2. \A s, t \in 1..p[2] : f[s] = f[t] => s = t
    BY <1>2
  <2>3. \A q \in T : \E s \in 1..p[2] : f[s] = q
    BY <1>4
  <2> QED
    BY <2>1, <2>2, <2>3 DEF Bijection, Injection, Surjection, IsInjective
<1>6. IsFiniteSet(1..p[2]) /\ Cardinality(1..p[2]) = p[2]
  <2>1. \A n \in Nat \ {0} : IsFiniteSet(1..n) /\ Cardinality(1..n) = n
    BY FS_Interval
  <2> QED
    BY <1>1, <2>1
<1>7. IsFiniteSet(T) /\ Cardinality(T) = p[2]
  <2>1. ExistsBijection(1..p[2], T)
    BY <1>5 DEF ExistsBijection
  <2> HIDE DEF T
  <2> QED
    BY <1>6, <2>1, FS_Bijection
<1> DEFINE V == {q \in U : q[2] < p[2] \/ (q[2] = p[2] /\ ~FoundBefore(p, q))}
<1>8. V \subseteq T /\ (U = Siblings(p) => V = T)
  OBVIOUS
<1>9. Cardinality(V) <= Cardinality(T)
  <2> HIDE DEF T, V
  <2> QED
    BY <1>7, <1>8, FS_Subset
<1>10. Position(p, U) = Cardinality(V)
  BY DEF Position
<1> HIDE DEF T, V
<1> QED
  BY <1>7, <1>8, <1>9, <1>10

(* A request that is over stays so, and rounds and history remain.          *)
LEMMA Progress ==
  ASSUME TypeOK, [Next]_vars
  PROVE  /\ \A q \in DOMAIN requests :
              /\ q \in DOMAIN requests' /\ requests'[q].round = requests[q].round
              /\ requests[q].step \in {"done", "failed"}
                 => requests'[q].step \in {"done", "failed"}
         /\ taken \subseteq taken' /\ broken \subseteq broken' /\ mixed \subseteq mixed'
<1>1. CASE requests' = requests
  <2>1. taken \subseteq taken' /\ broken \subseteq broken' /\ mixed \subseteq mixed'
    <3>1. CASE StartScoring \/ ScoreNext \/ BuildSnapshot \/ ScoringFails
      BY <3>1 DEF StartScoring, ScoreNext, BuildSnapshot, ScoringFails, history
    <3>2. CASE WorkerFinds \/ WorkerScores \/ WorkerSnapshots \/ WorkerFails \/ Restart
      BY <3>2 DEF WorkerFinds, WorkerScores, WorkerSnapshots, WorkerFails, Restart, history
    <3>3. ASSUME NEW q \in DOMAIN requests, Inference(q)
          PROVE  UNCHANGED <<taken, broken, mixed>>
      BY <3>3 DEF Inference, EndInit, InitFails, CallModels, SavePrediction, EndInference,
                  InferenceFails, history
    <3>4. CASE StartInference \/ UNCHANGED vars
      BY <3>4 DEF StartInference, vars, history
    <3> QED
      BY <3>1, <3>2, <3>3, <3>4 DEF Next
  <2> QED
    BY <1>1, <2>1
<1>2. CASE StartInference
  <2>1. taken' = taken /\ broken' = broken /\ mixed' = mixed
    BY <1>2 DEF StartInference
  <2> QED
    BY <1>2, <2>1, StartTyped, OneRequestMore
<1>3. ASSUME NEW q \in DOMAIN requests, Inference(q)
      PROVE  /\ \A t \in DOMAIN requests :
                  /\ t \in DOMAIN requests' /\ requests'[t].round = requests[t].round
                  /\ requests[t].step \in {"done", "failed"}
                     => requests'[t].step \in {"done", "failed"}
             /\ taken \subseteq taken' /\ broken \subseteq broken' /\ mixed \subseteq mixed'
  <2>1. taken' = taken /\ broken' = broken /\ mixed' = mixed
    BY <1>3 DEF Inference, EndInit, InitFails, CallModels, SavePrediction,
                EndInference, InferenceFails, history
  <2>2. requests[q].step \notin {"done", "failed"}
    BY <1>3 DEF Inference, EndInit, InitFails, CallModels, SavePrediction,
                EndInference, InferenceFails
  <2>3. PICK e \in Request : requests' = [requests EXCEPT ![q] = e] /\ e.round = requests[q].round
    BY <1>3, InferenceTyped
  <2>4. /\ DOMAIN requests' = DOMAIN requests /\ requests'[q] = e
        /\ \A t \in DOMAIN requests : t # q => requests'[t] = requests[t]
    BY <2>3, OneRequestChanges
  <2> QED
    BY <2>1, <2>2, <2>3, <2>4
<1>4. CASE Restart
  <2>1. taken' = taken /\ broken \subseteq broken' /\ mixed' = mixed
    BY <1>4 DEF Restart
  <2> QED
    BY <1>4, <2>1, RestartTyped
<1>5. \/ StartScoring \/ ScoreNext \/ BuildSnapshot \/ ScoringFails \/ WorkerFinds
      \/ WorkerScores \/ WorkerSnapshots \/ WorkerFails \/ UNCHANGED vars
      => requests' = requests
  BY DEF StartScoring, ScoreNext, BuildSnapshot, ScoringFails, WorkerFinds, WorkerScores,
         WorkerSnapshots, WorkerFails, vars, report
<1> QED
  BY <1>1, <1>2, <1>3, <1>4, <1>5 DEF Next

(* Once its request is over, what disturbs a prediction stays. *)
LEMMA UndisturbedBefore ==
  ASSUME TypeOK, RequestInv, CountInv, [Next]_vars, NEW p \in Id, IsOver(p[1])
  PROVE  /\ IsOver(p[1])' /\ RoundOf(p)' = RoundOf(p)
         /\ Undisturbed(p)' => Undisturbed(p)
         /\ \A q \in Siblings(p) : rows'[q] = "PENDING" => rows[q] = "PENDING"
<1>1. /\ p[1] \in DOMAIN requests' /\ requests'[p[1]].round = requests[p[1]].round
      /\ requests'[p[1]].step \in {"done", "failed"}
  BY Progress DEF IsOver
<1>2. \A q \in Siblings(p) : q \in Id /\ q[1] = p[1]
  BY DEF Siblings
<1>3. requests[p[1]].step # "save"
  BY DEF IsOver
<1>4. \A q \in Siblings(p) :
        \/ rows'[q] = rows[q]
        \/ rows[q] \in {"PENDING", "SCORED"} /\ rows'[q] = "SCORED"
  <2> SUFFICES ASSUME NEW q \in Siblings(p)
               PROVE  \/ rows'[q] = rows[q]
                      \/ rows[q] \in {"PENDING", "SCORED"} /\ rows'[q] = "SCORED"
    OBVIOUS
  <2>1. q \in Id /\ q[1] = p[1]
    BY <1>2
  <2> QED
    BY <1>3, <2>1, RowsMove
<1>5. ASSUME Undisturbed(p)' PROVE Undisturbed(p)
  <2>1. \A q \in Siblings(p) : rows'[q] \in {"PENDING", "SCORED"}
    BY <1>5 DEF Undisturbed
  <2>2. \A q \in Siblings(p) : rows[q] \in {"PENDING", "SCORED"}
    BY <1>4, <2>1
  <2>3. Siblings(p) \cap (taken \cup broken) = {}
    BY <1>5, Progress DEF Undisturbed
  <2> QED
    BY <2>2, <2>3 DEF Undisturbed
<1> QED
  BY <1>1, <1>4, <1>5 DEF IsOver, RoundOf

(* What fits a prediction that was found goes on to fit it. *)
LEMMA FitsStill ==
  ASSUME TypeOK, RequestInv, CountInv, [Next]_vars, NEW p \in Id, Asked(p)
  PROVE  Asked(p)' /\ (\A truth : Fits(p, truth) => Fits(p, truth)')
<1>1. CASE IsOver(p[1])
  <2>1. /\ IsOver(p[1])' /\ RoundOf(p)' = RoundOf(p)
        /\ Undisturbed(p)' => Undisturbed(p)
    BY <1>1, UndisturbedBefore
  <2> QED
    BY <2>1 DEF Asked, Fits, IsOver
<1>2. CASE p \in taken
  <2>1. p[1] \in DOMAIN requests' /\ requests'[p[1]].round = requests[p[1]].round
        /\ p \in taken'
    BY <1>2, Progress DEF Asked
  <2>2. ~Undisturbed(p)'
    BY <2>1 DEF Undisturbed, Siblings
  <2> QED
    BY <2>1, <2>2 DEF Asked, Fits, RoundOf
<1> QED
  BY <1>1, <1>2 DEF Asked

(* Steps that find nothing anew: a scoring only does what it has in hand.   *)
LEMMA TruthFrame ==
  ASSUME TypeOK, RequestInv, CountInv, TruthInv, [Next]_vars,
         scoring'.todo \subseteq scoring.todo,
         \A p \in InHand(scoring) : \/ p \in InHand(scoring') \cup taken' \cup broken'
                                    \/ rows'[p] # "PENDING",
         \A a \in worker'.todo : a[1] \in taken' /\ a[2] = InputAsTruth,
         \A p \in Id : \/ scores'[p] = scores[p]
                       \/ Asked(p) /\ p \in taken /\ scores'[p] = InputAsTruth
                       \/ \E a \in scoring.todo : a[1] = p /\ a[2] = scores'[p],
         \A p \in Id : rows'[p] = "SCORED" =>
           rows[p] = "SCORED" \/ p \in InHand(scoring) \/ p \in taken
  PROVE  TruthInv'
<1>1. taken \subseteq taken' /\ broken \subseteq broken' /\ mixed \subseteq mixed'
  BY Progress
<1>2. scoring \in Process /\ InHand(scoring) \subseteq Id /\ \A a \in scoring.todo : a[1] \in Id
  BY ProcessTyped DEF TypeOK, ReportOK
<1>3. InHand(scoring') \subseteq InHand(scoring)
  BY DEF InHand
<1>4. \A a \in scoring.todo :
        /\ IsOver(a[1][1]) /\ a[2] # InputAsTruth
        /\ a[1] \notin mixed => Fits(a[1], a[2])
  BY DEF TruthInv
<1>5. \A p \in InHand(scoring) : p \in Id /\ IsOver(p[1])
  BY <1>2, <1>4 DEF InHand
<1>a. \A a \in scoring.todo : Asked(a[1])
  BY <1>4 DEF Asked, IsOver
<1>6. \A p \in Id : scores'[p] # NoTruth => Asked(p)'
  <2> SUFFICES ASSUME NEW p \in Id, scores'[p] # NoTruth PROVE Asked(p)
    BY FitsStill
  <2> QED
    BY <1>a DEF TruthInv
<1>7. ASSUME NEW a \in scoring'.todo
      PROVE  /\ IsOver(a[1][1])' /\ a[2] # InputAsTruth
             /\ a[1] \notin mixed' => Fits(a[1], a[2])'
  <2>1. /\ a \in scoring.todo /\ a[1] \in Id /\ IsOver(a[1][1]) /\ Asked(a[1])
        /\ a[2] # InputAsTruth
    BY <1>2, <1>4, <1>a
  <2>2. PICK p \in Id : p = a[1]
    BY <2>1
  <2>3. IsOver(p[1])' /\ (Fits(p, a[2]) => Fits(p, a[2])')
    BY <2>1, <2>2, UndisturbedBefore, FitsStill
  <2>4. p \notin mixed' => Fits(p, a[2])
    BY <1>1, <1>4, <2>1, <2>2
  <2> QED
    BY <2>1, <2>2, <2>3, <2>4
<1>8. ASSUME NEW q \in Id, IsOver(q[1]), Together(q, InHand(scoring))
      PROVE  Together(q, InHand(scoring))'
  <2>1. CASE q \in taken \cup broken
    BY <1>1, <2>1 DEF Together
  <2>2. CASE q \notin taken \cup broken
    <3>1. ASSUME NEW p \in Siblings(q), rows'[p] = "PENDING"
          PROVE  p \in InHand(scoring') \cup taken' \cup broken'
      <4>1. rows[p] = "PENDING"
        BY <1>8, <3>1, UndisturbedBefore
      <4>2. p \in InHand(scoring) \cup taken \cup broken
        BY <1>8, <2>2, <4>1 DEF Together
      <4> QED
        BY <1>1, <3>1, <4>2
    <3> QED
      BY <3>1 DEF Together
  <2> QED
    BY <2>1, <2>2
<1>9. \A q \in InHand(scoring') : Together(q, InHand(scoring))'
  BY <1>3, <1>5, <1>8 DEF TruthInv
<1>10. ASSUME NEW q \in Id, rows'[q] = "SCORED"
       PROVE  Together(q, InHand(scoring))'
  <2>1. CASE q \in taken
    BY <1>1, <2>1 DEF Together
  <2>2. CASE q \in InHand(scoring)
    BY <1>5, <1>8, <2>2 DEF TruthInv
  <2>3. CASE rows[q] = "SCORED" /\ q \notin taken
    <3>1. scores[q] # NoTruth
      BY <2>3 DEF CountInv, CountsOK
    <3>2. IsOver(q[1]) /\ Together(q, InHand(scoring))
      BY <2>3, <3>1 DEF TruthInv, Asked
    <3> QED
      BY <1>8, <3>2
  <2> QED
    BY <1>10, <2>1, <2>2, <2>3
<1>11. ASSUME NEW p \in Id
       PROVE  /\ scores'[p] = InputAsTruth => p \in taken'
              /\ FitsOwn(p)'
  <2>1. CASE scores'[p] = scores[p]
    <3>1. /\ scores[p] = InputAsTruth => p \in taken
          /\ p \notin mixed /\ scores[p] \notin {NoTruth, InputAsTruth} => Fits(p, scores[p])
          /\ scores[p] # NoTruth => Asked(p)
      BY DEF TruthInv, OwnTruth
    <3>2. PICK truth : truth = scores[p]
      OBVIOUS
    <3>3. Asked(p) => (Fits(p, truth) => Fits(p, truth)')
      BY FitsStill
    <3>4. p \notin mixed' /\ scores'[p] \notin {NoTruth, InputAsTruth} => Fits(p, truth)'
      BY <1>1, <2>1, <3>1, <3>2, <3>3
    <3>5. truth = scores'[p]
      BY <2>1, <3>2
    <3>6. FitsOwn(p)'
      BY <3>4, <3>5 DEF FitsOwn
    <3> QED
      BY <1>1, <2>1, <3>1, <3>6
  <2>2. CASE p \in taken /\ scores'[p] = InputAsTruth
    BY <1>1, <2>2 DEF FitsOwn
  <2>3. ASSUME NEW a \in scoring.todo, a[1] = p, a[2] = scores'[p]
        PROVE  /\ scores'[p] = InputAsTruth => p \in taken'
               /\ FitsOwn(p)'
    <3>1. Asked(p) /\ a[2] # InputAsTruth /\ (p \notin mixed' => Fits(p, a[2]))
      BY <1>1, <1>4, <1>a, <2>3
    <3>2. PICK truth : truth = a[2]
      OBVIOUS
    <3>3. p \notin mixed' => Fits(p, truth)'
      BY <3>1, <3>2, FitsStill
    <3>4. FitsOwn(p)'
      BY <2>3, <3>2, <3>3 DEF FitsOwn
    <3> QED
      BY <2>3, <3>1, <3>4
  <2> QED
    BY <2>1, <2>2, <2>3
<1>12. OwnTruth'
  BY <1>11, Zenon DEF OwnTruth, FitsOwn
<1> QED
  BY <1>6, <1>7, <1>9, <1>10, <1>12 DEF TruthInv

(* A scoring starts when no request is saving.  A model's predictions of a   *)
(* request are all found if nobody else touched them.                       *)
LEMMA TruthFound ==
  ASSUME TypeOK, RequestInv, CountInv, TruthInv, StartScoring
  PROVE  TruthInv'
<1>1. PICK t \in DOMAIN requests, n \in 1..(Samples + 1) :
        LET r == requests[t].round
            S == PendingOf(r)
        IN  /\ scoring' = [Idle EXCEPT !.todo = Paired(S, r, n)]
            /\ broken' = broken \cup
                 {p \in S : \E q \in S : q[3] = p[3] /\ q \notin InHand(scoring')}
            /\ mixed' = mixed \cup {p \in S : \E q \in S : q[3] = p[3] /\ q[1] # p[1]}
  BY DEF StartScoring
<1> DEFINE r == requests[t].round
           S == PendingOf(r)
<1>2. /\ scoring = Idle /\ UNCHANGED <<rows, scores, requests, worker, taken>>
      /\ \A q \in DOMAIN requests : requests[q].step # "save"
  BY DEF StartScoring, LoopIsFree, tables
<1>3. scoring'.todo = Paired(S, r, n) /\ InHand(scoring) = {}
  BY <1>1, <1>2 DEF Idle, InHand
<1>4. /\ S \in SUBSET Id
      /\ \A p \in Id : p \in S <=> rows[p] = "PENDING" /\ RoundOf(p) \in Matches[r]
  BY DEF PendingOf
<1>5. \A p \in Id : rows[p] # "none" => p[1] \in DOMAIN requests /\ IsOver(p[1])
  BY <1>2 DEF RequestInv, IsOver
<1>6. broken \subseteq broken' /\ \A p, q \in S :
        q[3] = p[3] /\ q \notin InHand(scoring') => p \in broken'
  BY <1>1
<1>m. mixed \subseteq mixed' /\ \A p, q \in S : q[3] = p[3] /\ q[1] # p[1] => p \in mixed'
  BY <1>1
<1> HIDE DEF S
<1>7. InHand(scoring') \subseteq S
  BY <1>3, <1>4, PairedOnce DEF InHand
<1>8. ASSUME NEW q \in S
      PROVE  Together(q, InHand(scoring))'
  <2>1. CASE q \in broken'
    BY <2>1 DEF Together
  <2>2. CASE q \notin broken'
    <3>1. ASSUME NEW p \in Siblings(q), rows'[p] = "PENDING"
          PROVE  p \in InHand(scoring')
      <4>1. p \in Id /\ p[1] = q[1] /\ p[3] = q[3] /\ rows[p] = "PENDING"
        BY <1>2, <3>1 DEF Siblings
      <4>2. RoundOf(p) = RoundOf(q)
        BY <4>1 DEF RoundOf
      <4>3. p \in S
        BY <1>4, <4>1, <4>2
      <4> QED
        BY <1>6, <2>2, <4>1, <4>3
    <3> QED
      BY <3>1 DEF Together
  <2> QED
    BY <2>1, <2>2
<1>9. ASSUME NEW p \in S, p \notin mixed',
             NEW truth, truth = <<r, Position(p, OfModel(S, p[3]))>>
      PROVE  Fits(p, truth)'
  <2>1. p \in Id /\ rows[p] = "PENDING" /\ RoundOf(p) \in Matches[r] /\ p[1] \in DOMAIN requests
    BY <1>4, <1>5
  <2>2. OfModel(S, p[3]) \subseteq Siblings(p)
    BY <1>4, <1>9, <1>m DEF OfModel, Siblings
  <2>3. ASSUME Undisturbed(p)' PROVE OfModel(S, p[3]) = Siblings(p)
    <3>1. \A q \in Siblings(p) :
            /\ q \in Id /\ q[1] = p[1] /\ q[3] = p[3] /\ q \notin taken \cup broken'
            /\ rows[q] \in {"PENDING", "SCORED"}
      BY <1>2, <2>3 DEF Undisturbed, Siblings
    <3>2. ASSUME NEW q \in Siblings(p) PROVE rows[q] = "PENDING"
      <4>1. SUFFICES ASSUME rows[q] = "SCORED" PROVE FALSE
        BY <3>1
      <4>2. Together(q, {}) /\ q \notin taken \cup broken
        BY <1>3, <1>6, <3>1, <4>1 DEF TruthInv
      <4>3. p \in Siblings(q) /\ p \in Siblings(p)
        BY <2>1, <3>1 DEF Siblings
      <4>4. p \notin taken \cup broken
        BY <1>6, <3>1, <4>3
      <4> QED
        BY <2>1, <4>2, <4>3, <4>4 DEF Together
    <3>3. ASSUME NEW q \in Siblings(p) PROVE q \in OfModel(S, p[3])
      <4>1. q \in Id /\ RoundOf(q) = RoundOf(p) /\ rows[q] = "PENDING"
        BY <3>1, <3>2 DEF RoundOf
      <4> QED
        BY <1>4, <2>1, <3>1, <4>1 DEF OfModel
    <3> QED
      BY <2>2, <3>3
  <2>4. /\ Position(p, OfModel(S, p[3])) <= p[2]
        /\ Undisturbed(p)' => Position(p, OfModel(S, p[3])) = p[2]
    BY <2>1, <2>2, <2>3, PositionOfSibling
  <2>5. RoundOf(p)' = RoundOf(p)
    BY <1>2 DEF RoundOf
  <2>6. truth[1] = r /\ truth[2] = Position(p, OfModel(S, p[3]))
    BY <1>9
  <2> HIDE DEF r
  <2> QED
    BY <2>1, <2>4, <2>5, <2>6 DEF Fits
<1>10. ASSUME NEW a \in scoring'.todo
       PROVE  /\ IsOver(a[1][1])' /\ a[2] # InputAsTruth
              /\ a[1] \notin mixed' => Fits(a[1], a[2])'
  <2>1. a[1] \in S /\ a[2] = <<r, Position(a[1], OfModel(S, a[1][3]))>>
    BY <1>3, <1>4, PairedOnce
  <2>2. PICK p \in S : p = a[1]
    BY <2>1
  <2>3. IsOver(p[1])'
    BY <1>2, <1>4, <1>5 DEF IsOver
  <2>4. a[2] # InputAsTruth
    BY <1>4, <2>1, PositionCounts DEF InputAsTruth
  <2>5. PICK truth : truth = a[2]
    OBVIOUS
  <2>6. p \notin mixed' => Fits(p, truth)'
    BY <1>9, <2>1, <2>2, <2>5
  <2>7. a[1] \notin mixed' => Fits(a[1], a[2])'
    BY <2>2, <2>5, <2>6
  <2> QED
    BY <2>2, <2>3, <2>4, <2>7
<1>11. ASSUME NEW p \in Id
       PROVE  /\ scores'[p] # NoTruth => Asked(p)'
              /\ scores'[p] = InputAsTruth => p \in taken'
              /\ FitsOwn(p)'
  <2>1. /\ Asked(p)' <=> Asked(p)
        /\ scores'[p] = scores[p] /\ taken' = taken
    BY <1>2 DEF IsOver, Asked
  <2>2. Undisturbed(p)' => Undisturbed(p)
    BY <1>2, <1>6 DEF Undisturbed
  <2>3. FitsOwn(p) => FitsOwn(p)'
    BY <1>2, <1>m, <2>1, <2>2 DEF FitsOwn, Fits, RoundOf
  <2>4. /\ scores[p] # NoTruth => Asked(p)
        /\ scores[p] = InputAsTruth => p \in taken
        /\ FitsOwn(p)
    BY DEF TruthInv, OwnTruth, FitsOwn
  <2> QED
    BY <1>m, <2>1, <2>3, <2>4
<1>12. ASSUME NEW q \in Id, rows'[q] = "SCORED"
       PROVE  Together(q, InHand(scoring))'
  BY <1>2, <1>3, <1>6, <1>12 DEF TruthInv, Together
<1>13. \A a \in worker'.todo : a[1] \in taken' /\ a[2] = InputAsTruth
  BY <1>2 DEF TruthInv
<1>14. OwnTruth'
  BY <1>11, Zenon DEF OwnTruth, FitsOwn
<1> QED
  BY <1>7, <1>8, <1>10, <1>11, <1>12, <1>13, <1>14 DEF TruthInv

LEMMA TruthStarts == Init => TruthInv
<1> SUFFICES ASSUME Init PROVE TruthInv
  OBVIOUS
<1>1. scoring.todo = {} /\ InHand(scoring) = {} /\ worker.todo = {}
  BY DEF Init, Idle, InHand
<1> QED
  BY <1>1 DEF Init, TruthInv, OwnTruth, NoTruth, InputAsTruth

(* A step of a process with an entry it has in hand. *)
LEMMA EntryStep ==
  ASSUME TypeOK, NEW h \in Process, NEW k, NEW a \in h.todo,
         IF a[1] \in h.done
         THEN SavedStatus(a) /\ k = Passed(h, a) /\ UNCHANGED scores
         ELSE SavedScore(a) /\ k = Taken(h, a) /\ UNCHANGED rows
  PROVE  /\ k.todo \subseteq h.todo
         /\ \A p \in InHand(h) : p \in InHand(k) \/ rows'[p] = "SCORED"
         /\ \A p \in Id : scores'[p] = scores[p] \/ (a[1] = p /\ a[2] = scores'[p])
         /\ \A p \in Id : rows'[p] = "SCORED" => rows[p] = "SCORED" \/ p = a[1]
<1>1. a[1] \in Id /\ InHand(h) \subseteq Id
  BY ProcessTyped
<1>2. rows \in [Id -> Status] /\ scores \in [Id -> Truth]
  BY DEF TypeOK, TablesOK
<1>3. CASE a[1] \in h.done
  <2>1. k.todo = h.todo \ {a} /\ scores' = scores /\ rows' = [rows EXCEPT ![a[1]] = "SCORED"]
    BY <1>3 DEF Passed, Process, SavedStatus
  <2>2. \A p \in InHand(h) : p \in InHand(k) \/ rows'[p] = "SCORED"
    BY <1>1, <1>2, <2>1 DEF InHand
  <2> QED
    BY <1>1, <1>2, <2>1, <2>2
<1>4. CASE a[1] \notin h.done
  <2>1. k.todo = h.todo /\ rows' = rows /\ scores' = [scores EXCEPT ![a[1]] = a[2]]
    BY <1>4 DEF Taken, Process, SavedScore
  <2>2. InHand(k) = InHand(h)
    BY <2>1 DEF InHand
  <2> QED
    BY <1>1, <1>2, <2>1, <2>2
<1> QED
  BY <1>3, <1>4

LEMMA TruthKept == TypeOK /\ RequestInv /\ CountInv /\ TruthInv /\ [Next]_vars => TruthInv'
<1> SUFFICES ASSUME TypeOK, RequestInv, CountInv, TruthInv, [Next]_vars PROVE TruthInv'
  OBVIOUS
<1>1. /\ scoring \in Process /\ worker \in Process
      /\ \A a \in worker.todo : a[1] \in taken /\ a[2] = InputAsTruth
  BY DEF TypeOK, ReportOK, TruthInv
<1>2. taken \subseteq taken'
  BY Progress
<1>3. CASE StartScoring
  BY <1>3, TruthFound
<1>4. CASE ScoreNext
  <2>1. PICK a \in scoring.todo :
          IF a[1] \in scoring.done
          THEN SavedStatus(a) /\ scoring' = Passed(scoring, a) /\ UNCHANGED scores
          ELSE SavedScore(a) /\ scoring' = Taken(scoring, a) /\ UNCHANGED rows
    BY <1>4 DEF ScoreNext
  <2>2. a[1] \in InHand(scoring) /\ worker' = worker
    BY <1>4 DEF ScoreNext, InHand
  <2>3. /\ scoring'.todo \subseteq scoring.todo
        /\ \A p \in InHand(scoring) : p \in InHand(scoring') \/ rows'[p] = "SCORED"
        /\ \A p \in Id : scores'[p] = scores[p] \/ (a[1] = p /\ a[2] = scores'[p])
        /\ \A p \in Id : rows'[p] = "SCORED" => rows[p] = "SCORED" \/ p = a[1]
    BY <1>1, <2>1, EntryStep
  <2> QED
    BY <1>1, <1>2, <2>2, <2>3, TruthFrame
<1>5. CASE WorkerScores
  <2>1. PICK a \in worker.todo :
          IF a[1] \in worker.done
          THEN SavedStatus(a) /\ worker' = Passed(worker, a) /\ UNCHANGED scores
          ELSE SavedScore(a) /\ worker' = Taken(worker, a) /\ UNCHANGED rows
    BY <1>5 DEF WorkerScores
  <2>2. a[1] \in taken /\ a[2] = InputAsTruth /\ scoring' = scoring
    BY <1>1, <1>5 DEF WorkerScores, report
  <2>5. Asked(a[1])
    <3>1. a[1] \in Id /\ a[1] \in InHand(worker)
      BY <1>1, ProcessTyped DEF InHand
    <3>2. rows[a[1]] # "none"
      BY <3>1 DEF CountInv, CountsOK, HandOK, Held
    <3> QED
      BY <2>2, <3>1, <3>2 DEF RequestInv, Asked
  <2>3. /\ worker'.todo \subseteq worker.todo
        /\ \A p \in Id : scores'[p] = scores[p] \/ (a[1] = p /\ a[2] = scores'[p])
        /\ \A p \in Id : rows'[p] = "SCORED" => rows[p] = "SCORED" \/ p = a[1]
    BY <1>1, <2>1, EntryStep
  <2>4. \A b \in worker'.todo : b[1] \in taken' /\ b[2] = InputAsTruth
    BY <1>1, <1>2, <2>3
  <2>6. \A p \in Id : \/ scores'[p] = scores[p]
                      \/ Asked(p) /\ p \in taken /\ scores'[p] = InputAsTruth
    BY <2>2, <2>3, <2>5
  <2> QED
    BY <2>2, <2>3, <2>4, <2>6, TruthFrame
<1>6. ASSUME scores' = scores, \A p \in Id : rows'[p] = "SCORED" => rows[p] = "SCORED",
             scoring'.todo \subseteq scoring.todo,
             InHand(scoring) \subseteq InHand(scoring') \cup broken',
             \A a \in worker'.todo : a[1] \in taken' /\ a[2] = InputAsTruth
      PROVE  TruthInv'
  BY <1>6, TruthFrame
<1>7. Idle.todo = {} /\ InHand(Idle) = {}
  BY DEF Idle, InHand
<1>8. CASE BuildSnapshot
  <2>1. /\ scoring'.todo = scoring.todo /\ scores' = scores /\ rows' = rows
        /\ worker' = worker
    BY <1>1, <1>8 DEF BuildSnapshot, Without, Process
  <2>2. InHand(scoring') = InHand(scoring)
    BY <2>1 DEF InHand
  <2> QED
    BY <1>1, <1>2, <1>6, <2>1, <2>2
<1>9. CASE ScoringFails \/ Restart
  <2>1. /\ scoring' = Idle /\ InHand(scoring) \subseteq broken' /\ scores' = scores /\ rows' = rows
        /\ worker' = worker
    BY <1>9 DEF ScoringFails, Restart, tables
  <2> QED
    BY <1>1, <1>2, <1>6, <1>7, <2>1
<1>10. CASE WorkerFinds
  <2> DEFINE S == {p \in Id : rows[p] = "PENDING"}
  <2>1. /\ scoring' = scoring /\ scores' = scores /\ rows' = rows /\ S \subseteq taken'
        /\ worker'.todo = {<<p, InputAsTruth>> : p \in S}
    BY <1>10 DEF WorkerFinds, tables, report, Idle
  <2>2. \A a \in worker'.todo : a[1] \in S /\ a[2] = InputAsTruth
    BY <2>1
  <2> QED
    BY <1>6, <2>1, <2>2
<1>11. CASE WorkerSnapshots \/ WorkerFails
  <2>1. /\ scoring' = scoring /\ scores' = scores /\ rows' = rows
        /\ worker'.todo \subseteq worker.todo
    BY <1>1, <1>7, <1>11 DEF WorkerSnapshots, WorkerFails, tables, report, Without, Process
  <2>2. \A a \in worker'.todo : a[1] \in taken' /\ a[2] = InputAsTruth
    BY <1>1, <1>2, <2>1
  <2> QED
    BY <1>6, <2>1, <2>2
<1>12. CASE StartInference \/ UNCHANGED vars
  <2>1. scoring' = scoring /\ scores' = scores /\ rows' = rows /\ worker' = worker
    BY <1>12 DEF StartInference, vars, tables, report
  <2> QED
    BY <1>1, <1>2, <1>6, <2>1
<1>13. ASSUME NEW q \in DOMAIN requests, Inference(q) PROVE TruthInv'
  <2>1. scoring' = scoring /\ scores' = scores /\ worker' = worker
    BY <1>13 DEF Inference, EndInit, InitFails, CallModels, SavePrediction, EndInference,
                 InferenceFails, tables
  <2>2. \A p \in Id : rows'[p] = "SCORED" => rows[p] = "SCORED"
    <3>1. CASE SavePrediction(q)
      <4>1. PICK a \in requests[q].todo : rows' = [rows EXCEPT ![a[1]] = a[2]]
        BY <3>1 DEF SavePrediction
      <4>2. a[2] # "SCORED"
        BY RequestsNumbered DEF Request, Answer
      <4> QED
        BY <4>1, <4>2 DEF TypeOK, TablesOK
    <3>2. CASE ~SavePrediction(q)
      <4>1. rows' = rows
        BY <1>13, <3>2 DEF Inference, EndInit, InitFails, CallModels, EndInference,
                           InferenceFails, tables
      <4> QED
        BY <4>1
    <3> QED
      BY <3>1, <3>2
  <2> QED
    BY <1>1, <1>2, <1>6, <2>1, <2>2
<1> QED
  BY <1>3, <1>4, <1>5, <1>8, <1>9, <1>10, <1>11, <1>12, <1>13 DEF Next

(* tournament_predict.py:200: however many requests are under way, whatever  *)
(* the round's patterns match and whoever fails, a prediction that was never *)
(* found together with those of another request is scored against an item of *)
(* a round that finds it, never one after its own, and against its own if   *)
(* the model answered every sample and neither the score-worker nor a       *)
(* scoring cut short came between; only what the score-worker found has the  *)
(* round's input for its truth.                                             *)
THEOREM ScoredAgainstOwnTruth == Spec => []OwnTruth
<1>1. TruthInv => OwnTruth
  BY DEF TruthInv
<1> QED
  BY <1>1, CountsAlwaysHold, TruthStarts, TruthKept, PTL DEF Spec

=============================================================================
