------------------------------ MODULE MCFeeds ------------------------------
(* Where records come from, in three parts that share no state: a behaviour *)
(* is of the one its side names.                                           *)
(*   jobs    backfill jobs: two requests at a time, three jobs over two     *)
(*           days of records, pages of two; the ranges share a day, one     *)
(*           ends with a record at its cursor, the other with an empty page *)
(*   poll    Binance's candles, its other kinds, or Pyth, for two subjects: *)
(*           a page of two, candles of two times, one prediction over two   *)
(*           times of the first                                             *)
(*   stream  MongoDB in both modes, from all documents and from a time;     *)
(*           documents of three times or none, batches of one to three      *)
EXTENDS Backfill, PolledFeed, MongoFeed

CONSTANTS Sides, c1, c2, j1, j2, j3

TwoClients == {c1, c2}
ThreeJobs  == {j1, j2, j3}
SomeFeed   == {0, 1, 2, 4, 6}
Overlapping == {[start |-> 0, end |-> 3], [start |-> 2, end |-> 8]}

OneWindow  == {[start |-> 2, end |-> 3]}
SomeFaults == [p \in Providers |-> IF p = "candles" THEN 2 ELSE 1]
NoFaults   == [p \in Providers |-> 0]

-----------------------------------------------------------------------------
VARIABLE side

(* A feed service that has ended. *)
NoPoll ==
  /\ clock = 0 /\ provider = "candles" /\ published = [s \in Subjects |-> {}]
  /\ stored = {} /\ watermark = Nothing
  /\ pc = "dead" /\ session = "ok" /\ hand = {} /\ seen = Nothing /\ errors = 0
  /\ inLoop = FALSE /\ scored = {} /\ looked = Nothing /\ passed = {} /\ faults = 0

Idle == [watermark |-> 0]

NoStream ==
  /\ mode = "none" /\ collection = <<>> /\ mongoPc = "" /\ mongoErrors = 0 /\ batch = Idle
  /\ stopEvent = FALSE /\ threads = <<>> /\ events = {} /\ queue = {}
  /\ connection = "" /\ delivered = <<>> /\ late = {} /\ lost = {} /\ mongoFaults = 0

FeedsInit ==
  /\ side \in Sides
  /\ JobsInit
  /\ IF side = "poll" THEN Init ELSE NoPoll
  /\ IF side = "stream" THEN MongoInit ELSE NoStream

FeedsNext ==
  \/ side = "jobs" /\ JobsNext /\ UNCHANGED <<side, vars, mongoVars>>
  \/ side = "poll" /\ Next /\ UNCHANGED <<side, jobVars, mongoVars>>
  \/ side = "stream" /\ MongoNext /\ UNCHANGED <<side, jobVars, vars>>

FeedsSpec ==
  /\ FeedsInit /\ [][FeedsNext]_<<side, jobVars, vars, mongoVars>>
  /\ JobsFairness /\ Fairness /\ MongoFairness

-----------------------------------------------------------------------------
(* PolledFeed and AllArrived of MongoFeed: in the end the latest records are *)
(* stored, a prediction that is due has its truth, and the documents have   *)
(* reached the sink.                                                        *)
Arrives == <>[](NewestStored /\ TruthFound /\ (side = "stream" => AllArrived))

(* Backfill and AllEnded of MongoFeed: a job whose task is alive ends, as the *)
(* pages come to an end, and a stopped handle ends with its threads.        *)
TasksEnd == <>[](NoneRuns /\ (side = "stream" => AllEnded))
=============================================================================
