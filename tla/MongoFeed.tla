----------------------------- MODULE MongoFeed -----------------------------
(***************************************************************************)
(* The MongoDB feed provider: documents inserted into a collection go to    *)
(* the sink.  In poll mode a loop asks for those at or after a watermark,   *)
(* the oldest first and a batch at a time, and remembers which of the       *)
(* watermark's own time it has seen.  In changestream mode a thread watches *)
(* the inserts and a task takes them from a queue; an error ends the thread *)
(* and both start again, without a token to resume from.                    *)
(*                                                                         *)
(* A document is its position in the collection, its value the inserted_at  *)
(* field: a time, or 0 when there is none of a usable type.                 *)
(***************************************************************************)
EXTENDS Integers, FiniteSets, Sequences

CONSTANTS
  Modes,         \* listen_mode: a subset of {"poll", "changestream"}
  Lookbacks,     \* initial watermarks: 0 for all the documents, or a time
  BaseBatch,     \* batch_limit, 100
  MaxBatch,      \* its greatest value, 10 000
  MaxSeenIds,    \* _MAX_SEEN_IDS, 50 000
  QueueSize,     \* of the thread's queue, 1000
  MaxMongoErrors, \* _MAX_CONSECUTIVE_ERRORS
  Times,         \* bound: times documents are inserted with
  MaxDocs,       \* bound: documents
  MaxMongoFaults      \* bound: errors

(* A time may be 0: none.  The greatest batch is smaller than the set of     *)
(* documents that is remembered.                                            *)
ASSUME MongoAssumption ==
  /\ Times \subseteq Nat /\ Lookbacks \subseteq Nat
  /\ BaseBatch \in Nat \ {0} /\ MaxBatch \in Nat /\ MaxSeenIds \in Nat
  /\ BaseBatch <= MaxBatch /\ MaxBatch < MaxSeenIds

VARIABLES
  mode,
  collection,   \* Seq of inserted_at
  mongoPc,      \* the listening task
  mongoErrors,  \* consecutive_errors
  batch,        \* [watermark, seen, limit, forceGt, before, docs, size, fresh],
                \* docs the documents still in hand
  stopEvent,
  threads,      \* states of the watch threads, the current one last
  events,       \* inserts the current thread's stream has for it
  queue,        \* doc_queue
  connection,   \* of the handle: "open" or "closed"
  \* history
  delivered,    \* [document -> times it was given to the sink]
  late,         \* inserted behind the watermark or behind a batch in hand
  lost,         \* inserted or in hand when the stream was not, or broke off
  mongoFaults

pollState == <<batch, late>>
stream    == <<stopEvent, threads, events, queue, lost>>
source    == <<mode, collection>>
mongoVars == <<source, mongoPc, mongoErrors, pollState, stream, connection, delivered,
               mongoFaults>>

Docs == DOMAIN collection
Alive == {"opening", "watching"}
Ended == {"stopped", "dead"}
Current == IF threads = <<>> THEN "none" ELSE threads[Len(threads)]

MongoInit ==
  /\ mode \in Modes
  /\ collection = <<>>
  /\ mongoPc = IF mode = "poll" THEN "find" ELSE "start"
  /\ mongoErrors = 0
  /\ \E start \in Lookbacks :
       batch = [watermark |-> start, seen |-> {}, limit |-> BaseBatch, forceGt |-> FALSE,
                before |-> start, docs |-> {}, size |-> 0, fresh |-> 0]
  /\ stopEvent = FALSE
  /\ threads = <<>> /\ events = {} /\ queue = {}
  /\ connection = "open"
  /\ delivered = <<>>
  /\ late = {} /\ lost = {} /\ mongoFaults = 0

-----------------------------------------------------------------------------
MongoFault == mongoFaults < MaxMongoFaults /\ mongoFaults' = mongoFaults + 1

(* Two stands for any greater number. *)
Deliver(d) == delivered' = [delivered EXCEPT ![d] = IF @ < 2 THEN @ + 1 ELSE @]

(* Documents are passed on in the order they were inserted in. *)
Oldest(d, S) == d \in S /\ \A e \in S : d <= e

(* Behind the watermark, or where the documents in hand will take it. *)
IsLate(t) == t < batch.watermark \/ \E d \in batch.docs : t < collection[d]

(* Another process inserts a document, not always in the order of time.     *)
Insert(t) ==
  /\ Len(collection) < MaxDocs
  /\ collection' = Append(collection, t)
  /\ delivered' = Append(delivered, 0)
  /\ LET d == Len(collection) + 1
     IN  IF mode = "poll"
         THEN /\ late' = IF IsLate(t) THEN late \cup {d} ELSE late
              /\ UNCHANGED <<events, lost>>
         ELSE /\ IF Current = "watching"
                 THEN events' = events \cup {d} /\ UNCHANGED lost
                 ELSE lost' = lost \cup {d} /\ UNCHANGED events
              /\ UNCHANGED late
  /\ UNCHANGED <<mode, mongoPc, mongoErrors, batch, stopEvent, threads, queue, connection,
                 mongoFaults>>

-----------------------------------------------------------------------------
(* _polling_loop *)

(* Variant with an error: $gt always. *)
FoundAfter(d) == batch.watermark = 0 \/ collection[d] > batch.watermark

(* The filter of the query: $gte of the watermark, $gt past one that cannot  *)
(* be drained; a document without a time is found by no comparison.         *)
Found(d) ==
  \/ batch.watermark = 0
  \/ IF batch.forceGt THEN collection[d] > batch.watermark
     ELSE collection[d] >= batch.watermark

Before(d, e) ==
  collection[d] < collection[e] \/ (collection[d] = collection[e] /\ d < e)

(* find(q).sort(inserted_at, 1).limit(batch_limit), equal times in the order *)
(* of their insertion.                                                      *)
Batch ==
  LET hits == {d \in Docs : Found(d)}
  IN  {d \in hits : Cardinality({e \in hits : ~Before(d, e)}) <= batch.limit}

Find ==
  /\ mongoPc = "find" /\ mode = "poll"
  /\ batch' = [batch EXCEPT !.docs = Batch, !.size = Cardinality(Batch), !.fresh = 0,
                            !.before = batch.watermark]
  /\ mongoPc' = "docs"
  /\ UNCHANGED <<source, mongoErrors, late, stream, connection, delivered, mongoFaults>>

InHand(d) == d \in batch.docs /\ \A e \in batch.docs : ~Before(e, d)

SkipSeen(d) ==
  /\ mongoPc = "docs" /\ InHand(d)
  /\ d \in batch.seen
  /\ batch' = [batch EXCEPT !.docs = @ \ {d}]
  /\ UNCHANGED <<source, mongoPc, mongoErrors, late, stream, connection, delivered,
                 mongoFaults>>

(* A later time starts a new set; without a time nothing is remembered. *)
Advanced(d) ==
  LET later == collection[d] > batch.watermark
  IN  [batch EXCEPT
         !.docs = @ \ {d}, !.fresh = @ + 1,
         !.watermark = IF later THEN collection[d] ELSE @,
         !.seen = IF collection[d] = 0 THEN @ ELSE IF later THEN {d} ELSE @ \cup {d}]

HandleDoc(d) ==
  /\ mongoPc = "docs" /\ InHand(d)
  /\ d \notin batch.seen
  /\ Deliver(d)
  /\ batch' = Advanced(d)
  /\ UNCHANGED <<source, mongoPc, mongoErrors, late, stream, connection, mongoFaults>>

(* A full batch that has not moved the watermark: its time has more         *)
(* documents than the batch takes.                                          *)
Stuck ==
  batch.size >= batch.limit /\ batch.watermark = batch.before /\ batch.watermark # 0

(* Variant with an error: the batch keeps its size. *)
AdjustedNever == [batch EXCEPT !.forceGt = FALSE]

Adjusted ==
  IF Stuck
  THEN IF Cardinality(batch.seen) >= MaxSeenIds
       THEN [batch EXCEPT !.seen = {}, !.forceGt = TRUE]
       ELSE [batch EXCEPT !.limit = IF 2 * @ < MaxBatch THEN 2 * @ ELSE MaxBatch,
                         !.forceGt = FALSE]
  ELSE [batch EXCEPT !.limit = IF batch.fresh > 0 THEN BaseBatch ELSE @,
                    !.forceGt = FALSE]

EndPoll ==
  /\ mongoPc = "docs" /\ batch.docs = {}
  /\ batch' = [Adjusted EXCEPT !.size = 0, !.fresh = 0, !.before = batch.watermark]
  /\ mongoErrors' = 0
  /\ mongoPc' = "find"
  /\ UNCHANGED <<source, late, stream, connection, delivered, mongoFaults>>

(* A transient error is retried after a pause, up to a number in a row.     *)
FindFails ==
  /\ mongoPc = "find" /\ mode = "poll" /\ MongoFault
  /\ \/ /\ mongoErrors' = mongoErrors + 1
        /\ mongoPc' = IF mongoErrors' >= MaxMongoErrors THEN "dead" ELSE "find"
     \/ mongoPc' = "dead" /\ UNCHANGED mongoErrors  \* authentication, anything unknown
  /\ UNCHANGED <<source, pollState, stream, connection, delivered>>

(* The sink raises: no error of the sink is one of MongoDB's. *)
PollSinkFails(d) ==
  /\ mongoPc = "docs" /\ InHand(d)
  /\ d \notin batch.seen
  /\ MongoFault
  /\ mongoPc' = "dead"
  /\ UNCHANGED <<source, mongoErrors, pollState, stream, connection, delivered>>

-----------------------------------------------------------------------------
(* _change_stream_loop: the thread *)

SetCurrent(state) == threads' = [threads EXCEPT ![Len(threads)] = state]

OpenWatch ==
  /\ Current = "opening"
  /\ SetCurrent("watching")
  /\ UNCHANGED <<source, mongoPc, mongoErrors, pollState, stopEvent, events, queue,
                 lost, connection, delivered, mongoFaults>>

(* try_next, and put once there is room; nothing is put when stopping. *)
Push(d) ==
  /\ Current = "watching" /\ ~stopEvent
  /\ Oldest(d, events) /\ Cardinality(queue) < QueueSize
  /\ queue' = queue \cup {d}
  /\ events' = events \ {d}
  /\ UNCHANGED <<source, mongoPc, mongoErrors, pollState, stopEvent, threads, lost,
                 connection, delivered, mongoFaults>>

ThreadExits(i) ==
  /\ threads[i] = "watching" /\ stopEvent
  /\ threads' = [threads EXCEPT ![i] = "done"]
  /\ lost' = lost \cup events /\ events' = {}
  /\ UNCHANGED <<source, mongoPc, mongoErrors, pollState, stopEvent, queue, connection,
                 delivered, mongoFaults>>

ThreadRaises ==
  /\ Current \in Alive /\ MongoFault
  /\ \E kind \in {"transient", "permanent"} : SetCurrent(kind)
  /\ lost' = lost \cup events /\ events' = {}
  /\ UNCHANGED <<source, mongoPc, mongoErrors, pollState, stopEvent, queue, connection,
                 delivered>>

-----------------------------------------------------------------------------
(* _change_stream_loop: the task *)

StartThread ==
  /\ mongoPc = "start"
  /\ threads' = Append(threads, "opening")
  /\ lost' = lost \cup queue \cup events /\ queue' = {} /\ events' = {}
  /\ mongoPc' = "consume"
  /\ UNCHANGED <<source, mongoErrors, pollState, stopEvent, connection, delivered,
                 mongoFaults>>

(* A document from the queue, or a second without one, counts as a stream   *)
(* that works and resets the errors.                                        *)
Consume(d) ==
  /\ mongoPc = "consume" /\ Current \in Alive
  /\ Oldest(d, queue)
  /\ Deliver(d)
  /\ queue' = queue \ {d}
  /\ mongoErrors' = 0
  /\ UNCHANGED <<source, mongoPc, pollState, stopEvent, threads, events, lost,
                 connection, mongoFaults>>

Empty ==
  /\ mongoPc = "consume" /\ Current \in Alive
  /\ queue = {} /\ mongoErrors # 0
  /\ mongoErrors' = 0
  /\ UNCHANGED <<source, mongoPc, pollState, stream, connection, delivered, mongoFaults>>

(* Before each get: what is still in the queue of a thread that is done     *)
(* stays there.  A transient error is retried with the event cleared again. *)
ThreadIsDone ==
  /\ mongoPc = "consume" /\ Current \notin Alive
  /\ IF Current = "transient" /\ mongoErrors + 1 < MaxMongoErrors
     THEN mongoPc' = "start" /\ mongoErrors' = mongoErrors + 1 /\ UNCHANGED stopEvent
     ELSE mongoPc' = "dead" /\ stopEvent' = TRUE /\ UNCHANGED mongoErrors
  /\ lost' = lost \cup queue /\ queue' = {}
  /\ UNCHANGED <<source, pollState, threads, events, connection, delivered,
                 mongoFaults>>

(* Variant with an error: only the task ends, the thread is not told. *)
StreamSinkFailsAlone ==
  /\ mongoPc = "consume" /\ Current \in Alive /\ queue # {} /\ MongoFault
  /\ mongoPc' = "dead"
  /\ UNCHANGED <<source, mongoErrors, pollState, stream, connection, delivered>>

StreamSinkFails ==
  /\ mongoPc = "consume" /\ Current \in Alive /\ queue # {} /\ MongoFault
  /\ mongoPc' = "dead" /\ stopEvent' = TRUE
  /\ UNCHANGED <<source, mongoErrors, pollState, threads, events, queue, lost,
                 connection, delivered>>

-----------------------------------------------------------------------------
(* _MongoFeedHandle.stop *)

(* The task of a listener that has failed raises its error again when it is  *)
(* awaited: the connection is not closed.                                   *)
Stop ==
  /\ mongoPc \notin {"stopping", "stopped"}
  /\ mongoPc' = IF mongoPc = "dead" THEN "dead" ELSE "stopping"
  /\ stopEvent' = (stopEvent \/ mode = "changestream")
  /\ UNCHANGED <<source, mongoErrors, pollState, threads, events, queue, lost,
                 connection, delivered, mongoFaults>>

(* The cancelled task waits five seconds for its thread and a watch that is *)
(* being opened may take longer; then the connection is closed.             *)
Close ==
  /\ mongoPc = "stopping"
  /\ Current # "watching"
  /\ mongoPc' = "stopped"
  /\ connection' = "closed"
  /\ UNCHANGED <<source, mongoErrors, pollState, stream, delivered, mongoFaults>>

Polling == Find \/ (\E d \in Docs : SkipSeen(d) \/ HandleDoc(d)) \/ EndPoll
Watching ==
  OpenWatch \/ (\E d \in Docs : Push(d)) \/ \E i \in DOMAIN threads : ThreadExits(i)
Consuming == StartThread \/ (\E d \in Docs : Consume(d)) \/ Empty \/ ThreadIsDone
MongoFailing ==
  FindFails \/ (\E d \in Docs : PollSinkFails(d)) \/ ThreadRaises \/ StreamSinkFails

MongoNext ==
  \/ \E t \in Times : Insert(t)
  \/ Polling \/ Watching \/ Consuming \/ MongoFailing
  \/ Stop \/ Close

(* The event loop runs the task, the executor the thread, and a handle that *)
(* is told to stop goes through with it; inserts, errors and the call of    *)
(* stop() itself need not happen.                                           *)
MongoFairness ==
  /\ WF_mongoVars(Polling) /\ WF_mongoVars(Watching) /\ WF_mongoVars(Consuming)
  /\ WF_mongoVars(Close)

MongoSpec == MongoInit /\ [][MongoNext]_mongoVars /\ MongoFairness
-----------------------------------------------------------------------------
(* Properties *)

(* mongodb.py:714: "Using $gte (not $gt) ensures we don't skip docs that    *)
(* share the same timestamp".  Behind the watermark every document has gone *)
(* to the sink, but for those inserted late, and at the watermark exactly    *)
(* those it remembers; the way past a time with $gt never opens.            *)
NothingSkipped ==
  mode = "poll" /\ batch.watermark # 0 =>
    /\ ~batch.forceGt
    /\ \A d \in Docs \ late :
         0 < collection[d] /\ collection[d] < batch.watermark => delivered[d] > 0
    /\ \A d \in Docs :
         collection[d] = batch.watermark => (delivered[d] > 0) = (d \in batch.seen)

(* A document with a time goes to the sink at most once, in either mode,    *)
(* whatever is retried; in changestream mode any document does.             *)
DeliveredOnce ==
  \A d \in Docs : (mode = "poll" => collection[d] # 0) => delivered[d] <= 1

(* In changestream mode a document that has not gone to the sink is on its *)
(* way, or was lost with a stream, and one that has is nowhere else.        *)
StreamAccounts ==
  mode = "changestream" =>
    \A d \in Docs : (delivered[d] = 0) = (d \in lost \cup events \cup queue)

(* The poll neither passes over a document nor hands one on again, and the  *)
(* stream accounts for each.                                                *)
ExactlyDelivered == NothingSkipped /\ DeliveredOnce /\ StreamAccounts

SameTime(d) == {e \in Docs : collection[e] = collection[d]}

(* As many documents of one time as the greatest batch takes, or of none    *)
(* while there is no watermark, keep the poll where it is.                  *)
Crowded(d) ==
  \E e \in Docs :
    /\ collection[e] <= collection[d]
    /\ Cardinality(SameTime(e)) >= IF collection[e] = 0 THEN BaseBatch ELSE MaxBatch

(* mongodb.py:818: "so the next poll can drain them all".  In the end every *)
(* document has reached the sink, unless it was inserted late or while no   *)
(* thread watched, or more of them crowd one time than a batch takes.       *)
Arrived(d) ==
  \/ delivered[d] > 0 \/ mongoPc \in Ended \cup {"stopping"}
  \/ d \in late \cup lost
  \/ mode = "poll" /\ (Crowded(d) \/ collection[d] = 0)

AllArrived == \A d \in Docs : Arrived(d)

(* mongodb.py:285: a handle that is told to stop comes to its end, and no   *)
(* thread of a listener that has ended goes on watching.                    *)
AllEnded ==
  /\ mongoPc # "stopping"
  /\ mongoPc \in Ended => \A i \in DOMAIN threads : threads[i] \notin Alive
=============================================================================
