---------------------------- MODULE Feeds_proofs ----------------------------
(***************************************************************************)
(* What the feeds promise: PolledFeed for any subjects, page size, candle   *)
(* length, span and retention, and any calls that fail (WatermarksTell);    *)
(* MongoFeed for any documents, batch sizes, queue and errors               *)
(* (ExactlyDelivered); and the backfill jobs for any clients, records,      *)
(* pages and faults (CompletedIsWhole, FilesKeepRecords, CursorCovers).     *)
(***************************************************************************)
EXTENDS Backfill, PolledFeed, MongoFeed, FiniteSetTheorems, WellFoundedInduction, TLAPS

-----------------------------------------------------------------------------
(* Polled feeds.                                                            *)
(*                                                                         *)
(* The argument.  Stored and passed records together only grow.  Up to the  *)
(* time a subject was asked about, every record of it is among them or in   *)
(* the hand of the service, unless the sink's session has failed, and then  *)
(* no watermark moves until the restart asks again from it.  What is        *)
(* published later has no earlier candle than a record fetched before.      *)

(* A set of numbers has a least one. *)
LEMMA LeastExists ==
  ASSUME NEW T \in SUBSET Nat, T # {}
  PROVE  \E m \in T : \A t \in T : m <= t
<1>1. PICK m \in T : \A t \in T : <<t, m>> \notin OpToRel(<, Nat)
  BY WFMin, NatLessThanWellFounded, Zenon
<1>2. \A t \in T : ~(t < m)
  BY <1>1, Zenon DEF OpToRel
<1> QED BY <1>2

(* A bounded one has a greatest. *)
LEMMA MaxOf ==
  ASSUME NEW c \in Nat, NEW T \in SUBSET (0 .. c), T # {}
  PROVE  Max(T) \in T /\ \A t \in T : t <= Max(T)
<1> DEFINE U == {u \in Nat : c - u \in T}
<1>1. PICK x \in T : TRUE
  OBVIOUS
<1>2. c - x \in U
  OBVIOUS
<1>3. PICK m \in U : \A u \in U : m <= u
  BY <1>2, LeastExists
<1>4. c - m \in T
  BY <1>3
<1>5. \A t \in T : t <= c - m
  <2> SUFFICES ASSUME NEW t \in T PROVE t <= c - m
    OBVIOUS
  <2>1. c - t \in U
    OBVIOUS
  <2>2. m <= c - t
    BY <1>3, <2>1, Zenon
  <2>3. m \in Nat /\ t \in Nat
    OBVIOUS
  <2> HIDE DEF U
  <2> QED BY <2>2, <2>3
<1>6. \E y \in T : \A t \in T : y >= t
  BY <1>4, <1>5
<1>7. Max(T) \in T /\ \A t \in T : Max(T) >= t
  BY <1>6, Zenon DEF Max
<1> QED BY <1>7

(* A candle's time is not after its prices, and later prices have no        *)
(* earlier candle.                                                          *)
LEMMA Buckets ==
  ASSUME NEW u \in Nat, NEW v \in Nat, u <= v
  PROVE  /\ _bucket_ts(u) \in Nat /\ _bucket_ts(u) <= u
         /\ _bucket_ts(u) <= _bucket_ts(v)
         /\ Bucket <= u => Bucket <= _bucket_ts(u)
<1> DEFINE i == u \div Bucket
           j == v \div Bucket
<1>0. Bucket \in Nat /\ Bucket > 0
  BY FeedAssumption
<1>1. /\ i \in Nat /\ u % Bucket \in 0 .. (Bucket - 1)
      /\ u = Bucket * i + (u % Bucket)
  BY <1>0
<1>2. /\ j \in Nat /\ v % Bucket \in 0 .. (Bucket - 1)
      /\ v = Bucket * j + (v % Bucket)
  BY <1>0
<1> HIDE DEF i, j
<1>3. Bucket * i \in Nat /\ Bucket * j \in Nat
  BY <1>0, <1>1, <1>2
<1>4. i <= j
  <2> SUFFICES ASSUME j + 1 <= i PROVE FALSE
    BY <1>1, <1>2
  <2>1. Bucket * (j + 1) <= Bucket * i
    BY <1>0, <1>1, <1>2
  <2>2. Bucket * (j + 1) = Bucket * j + Bucket
    BY <1>0, <1>2
  <2> QED BY <1>0, <1>1, <1>2, <1>3, <2>1, <2>2
<1>5. Bucket * i <= Bucket * j
  BY <1>0, <1>1, <1>2, <1>4
<1>6. _bucket_ts(u) = Bucket * i /\ _bucket_ts(v) = Bucket * j
  BY <1>0, <1>1, <1>2, <1>3 DEF _bucket_ts
<1>7. ASSUME Bucket <= u PROVE Bucket <= Bucket * i
  <2>1. i # 0
    BY <1>0, <1>1, <1>7
  <2> QED BY <1>0, <1>1, <2>1
<1> QED BY <1>0, <1>1, <1>3, <1>5, <1>6, <1>7

(* A page that leaves candles out is full, and they are later than its own. *)
LEMMA PageFull ==
  ASSUME NEW c \in Nat, NEW T \in SUBSET (0 .. c), NEW t \in T, t \notin Earliest(T)
  PROVE  Cardinality(Earliest(T)) = FetchLimit /\ \A u \in Earliest(T) : u < t
<1> DEFINE UpTo(x) == {u \in T : u <= x}
           page == Earliest(T)
<1>0. FetchLimit \in Nat /\ FetchLimit > 0
  BY FeedAssumption
<1>a. T \subseteq Nat /\ \A x \in T : x \in Nat
  OBVIOUS
<1>1. IsFiniteSet(T)
  <2>1. IsFiniteSet(0 .. c)
    BY FS_Interval
  <2>2. T \subseteq 0 .. c
    OBVIOUS
  <2> QED BY <2>1, <2>2, FS_Subset
<1>2. \A x : IsFiniteSet(UpTo(x)) /\ Cardinality(UpTo(x)) \in Nat
  BY <1>1, FS_Subset, FS_CardinalityType
<1>3. page \subseteq T /\ \A x \in T : x \in page <=> Cardinality(UpTo(x)) <= FetchLimit
  BY DEF Earliest
<1>4. \A x \in T \ page : \A u \in page : u < x
  <2> HIDE DEF page
  <2> SUFFICES ASSUME NEW x \in T \ page, NEW u \in page, x <= u PROVE FALSE
    BY <1>a, <1>3
  <2>0. x \in Nat /\ u \in Nat
    BY <1>a, <1>3
  <2>1. ASSUME NEW y \in T, y <= x PROVE y <= u
    BY <1>a, <2>0, <2>1
  <2>2. Cardinality(UpTo(x)) <= Cardinality(UpTo(u))
    <3>1. UpTo(x) \subseteq UpTo(u)
      BY <2>1, Zenon
    <3> QED BY <1>2, <3>1, FS_Subset
  <2> HIDE DEF UpTo, page
  <2> QED BY <1>0, <1>2, <1>3, <2>2
<1> HIDE DEF page
<1>5. PICK m \in T \ page : \A x \in T \ page : m <= x
  <2>1. T \ page \in SUBSET Nat /\ T \ page # {}
    BY <1>a DEF page
  <2> QED BY <2>1, LeastExists
<1>6. page = {u \in T : u < m}
  <2>0. \A y \in T : y < m \/ m <= y
    BY <1>a, <1>5
  <2>1. ASSUME NEW y \in T, y < m, y \notin page PROVE FALSE
    <3>1. m <= y
      BY <1>5, <2>1, Zenon
    <3> QED BY <1>a, <1>5, <2>1, <3>1
  <2>2. ASSUME NEW y \in page PROVE y \in T /\ y < m
    BY <1>3, <1>4, <1>5, Zenon
  <2> QED BY <2>1, <2>2, Zenon
<1>7. UpTo(m) = page \cup {m} /\ m \notin page
  <2>1. \A y \in T : y <= m <=> y < m \/ y = m
    BY <1>a, <1>5
  <2>2. ~(m < m)
    BY <1>a, <1>5
  <2> HIDE DEF page
  <2> QED BY <1>5, <1>6, <2>1, <2>2, Zenon
<1>8. IsFiniteSet(page) /\ Cardinality(page) \in Nat
  BY <1>1, <1>3, FS_Subset, FS_CardinalityType
<1>9. Cardinality(page) >= FetchLimit
  <2>1. Cardinality(UpTo(m)) = Cardinality(page) + 1
    BY <1>7, <1>8, FS_AddElement
  <2>2. Cardinality(UpTo(m)) > FetchLimit
    BY <1>0, <1>2, <1>3, <1>5
  <2> QED BY <1>0, <1>8, <2>1, <2>2
<1>10. page # {}
  BY <1>0, <1>9, FS_EmptySet
<1>11. Max(page) \in page /\ \A u \in page : u <= Max(page)
  BY <1>3, <1>10, MaxOf, page \in SUBSET (0 .. c)
<1>12. UpTo(Max(page)) = page
  <2> DEFINE M == Max(page)
  <2>0. M \in page /\ M \in T /\ M < m
    BY <1>6, <1>11, Zenon
  <2> HIDE DEF M
  <2>1. ASSUME NEW y \in T, y <= M PROVE y < m
    BY <1>a, <1>5, <2>0, <2>1
  <2>2. \A y \in page : y \in T /\ y <= M
    BY <1>3, <1>11, Zenon DEF M
  <2>3. {y \in T : y <= M} = page
    BY <1>6, <2>1, <2>2, Zenon
  <2> QED BY <2>3, Zenon DEF M
<1>13. Cardinality(page) <= FetchLimit
  BY <1>3, <1>11, <1>12
<1> QED BY <1>0, <1>4, <1>8, <1>9, <1>13 DEF page
-----------------------------------------------------------------------------
(* The invariant *)

PublishedOk == \A s \in Subjects : \A u \in published[s] : Bucket <= u /\ u <= clock

(* Every reachable state has the declared shape, and nothing is fetched,    *)
(* asked for or stored that lies ahead of the clock.                        *)
FeedTypeOK ==
  /\ clock \in Nat /\ Bucket <= clock + 1 /\ provider \in Providers
  /\ published \in [Subjects -> SUBSET Nat] /\ PublishedOk
  /\ stored \subseteq [subject : Subjects, at : Nat]
  /\ \A r \in stored \cup hand : r.at <= clock
  /\ watermark \in [Subjects -> Nat]
  /\ pc \in {"down", "backfill", "mark", "poll", "sink", "advance", "dead"}
  /\ session \in {"ok", "failed"}
  /\ hand \subseteq [subject : Subjects, at : Nat]
  /\ seen \in [Subjects -> Nat] /\ errors \in Nat /\ scored \subseteq Windows
  /\ looked \in [Subjects -> Nat] /\ \A s \in Subjects : looked[s] <= clock
  /\ passed \subseteq [subject : Subjects, at : Nat]

Of(s, t) == [subject |-> s, at |-> t]

(* No record published after a subject was asked about is before a.         *)
LookedPast(s, a) == \A u \in Nat : looked[s] < u => a <= Stamp(u)

(* All records published until a subject was asked about are among these.   *)
Known(s, among) == \A u \in published[s] : u <= looked[s] => Of(s, Stamp(u)) \in among

Covered == stored \cup passed

(* The subject whose page is stored and whose watermark is not. *)
Marked(r) == pc = "mark" /\ IsFirst(r)

Starting  == pc \in {"backfill", "mark"}
Listening == pc \in {"poll", "sink", "advance"}

HandInv ==
  /\ \A r, q \in hand : r.subject = q.subject => r = q
  /\ pc \in {"down", "poll", "dead"} => hand = {}
  /\ \A r \in hand :
       /\ Starting /\ ~Marked(r) => looked[r.subject] <= r.at
       /\ Marked(r) \/ Listening => LookedPast(r.subject, r.at)
       /\ Marked(r) \/ (pc = "advance" /\ IsFirst(r)) => r \in stored

(* The subjects that were asked about since the start are known. *)
StartInv ==
  Starting =>
    /\ session = "ok" /\ seen = Nothing
    /\ \A s \in Subjects :
         (\A r \in hand : r.subject = s => Marked(r)) => Known(s, Covered)

(* So are all of them while saves succeed, but for what is in hand. *)
ListenInv ==
  /\ pc = "advance" => session = "ok"
  /\ Listening /\ session = "ok" =>
       \A s \in Subjects :
         /\ Known(s, Covered \cup hand)
         /\ seen[s] # 0 => Of(s, seen[s]) \in Covered

MarkInv ==
  \A s \in Subjects :
    /\ LookedPast(s, watermark[s]) /\ LookedPast(s, seen[s])
    /\ \/ watermark[s] = 0 \/ watermark[s] < clock - Ttl
       \/ Of(s, watermark[s]) \in stored

FeedInv == FeedTypeOK /\ HandInv /\ StartInv /\ ListenInv /\ MarkInv /\ HolesExplained

-----------------------------------------------------------------------------
(* The operators *)

LEMMA Stamps ==
  ASSUME NEW u \in Nat, NEW v \in Nat, u <= v
  PROVE  /\ Stamp(u) \in Nat /\ Stamp(u) <= u /\ Stamp(u) <= Stamp(v)
         /\ Bucket <= u => Stamp(u) # 0
BY Buckets, FeedAssumption DEF Stamp

LEMMA Records ==
  ASSUME NEW s \in Subjects, NEW T \in SUBSET Nat
  PROVE  /\ Record(s, T) \subseteq [subject : Subjects, at : Nat]
         /\ \A r \in Record(s, T) : r.subject = s /\ r.at \in T /\ r = Of(s, r.at)
         /\ \A t : Of(s, t) \in Record(s, T) <=> t \in T
<1>1. \A r \in Record(s, T) : \E t \in T : r = Of(s, t)
  BY DEF Record, Of
<1>2. \A t \in T : Of(s, t) \in Record(s, T)
  BY DEF Record, Of
<1>3. \A t : Of(s, t).subject = s /\ Of(s, t).at = t
  BY DEF Of
<1>4. \A t \in T : Of(s, t) \in [subject : Subjects, at : Nat]
  BY DEF Of
<1>5. Record(s, T) \subseteq [subject : Subjects, at : Nat]
  BY <1>1, <1>4, Zenon
<1>6. \A r \in Record(s, T) : r.subject = s /\ r.at \in T /\ r = Of(s, r.at)
  BY <1>1, <1>3, Zenon
<1>7. \A t : Of(s, t) \in Record(s, T) => t \in T
  BY <1>3, <1>6, Zenon
<1> QED BY <1>2, <1>5, <1>6, <1>7, Zenon

(* A record is its subject and time. *)
LEMMA RecordIs ==
  ASSUME NEW r \in [subject : Subjects, at : Nat]
  PROVE  r = Of(r.subject, r.at) /\ r.subject \in Subjects /\ r.at \in Nat
BY DEF Of

(* An answer is not ahead of the clock, and no record published after the   *)
(* time that was asked up to is before it.                                  *)
LEMMA Answers ==
  ASSUME FeedTypeOK, NEW s \in Subjects, NEW from \in Int, NEW until \in Int
  PROVE  /\ Fetch(s, from, until) \in SUBSET (0 .. clock)
         /\ \A t \in Fetch(s, from, until) :
              \A u \in Nat : AskedUpTo(until) < u => t <= Stamp(u)
<1> DEFINE P == published[s]
<1>0. clock \in Nat /\ P \subseteq Nat /\ \A u \in P : u \in Nat /\ u <= clock
  BY DEF FeedTypeOK, PublishedOk
<1> HIDE DEF P
<1>1. CASE provider = "candles"
  <2>1. Fetch(s, from, until) = Earliest(Within(P, from, until))
    BY <1>1 DEF Fetch, _fetch_candles, P
  <2>2. \A t \in Fetch(s, from, until) : t \in P /\ t <= until
    BY <2>1 DEF Earliest, Within
  <2>3. \A u : Stamp(u) = u
    BY <1>1 DEF Stamp
  <2>4. AskedUpTo(until) = until
    BY <1>1 DEF AskedUpTo
  <2>5. \A t \in Fetch(s, from, until) : t \in 0 .. clock
    <3>1. \A t \in P : t \in 0 .. clock
      BY <1>0
    <3> QED BY <2>2, <3>1, Zenon
  <2> HIDE DEF P
  <2> QED BY <1>0, <2>2, <2>3, <2>4, <2>5
<1>2. CASE provider = "now"
  <2>1. \A t \in Fetch(s, from, until) : t = clock
    BY <1>2 DEF Fetch, _fetch_now
  <2>2. \A u : Stamp(u) = u
    BY <1>2 DEF Stamp
  <2>3. AskedUpTo(until) = clock
    BY <1>2 DEF AskedUpTo
  <2>4. Fetch(s, from, until) \in SUBSET (0 .. clock)
    BY <1>0, <2>1
  <2> QED BY <1>0, <2>1, <2>2, <2>3, <2>4
<1>3. CASE provider = "pyth"
  <2>1. Fetch(s, from, until) = {_bucket_ts(t) : t \in Within(Latest(P), from, until)}
    BY <1>3 DEF Fetch, PythPrices, P
  <2>2. \A v \in Within(Latest(P), from, until) : v \in P /\ v <= until
    BY DEF Within, Latest
  <2>3. \A u : Stamp(u) = _bucket_ts(u)
    BY <1>3 DEF Stamp
  <2>4. AskedUpTo(until) = until
    BY <1>3 DEF AskedUpTo
  <2>5. ASSUME NEW t \in Fetch(s, from, until)
        PROVE  /\ t \in 0 .. clock
               /\ \A u \in Nat : until < u => t <= _bucket_ts(u)
    <3>1. PICK v \in P : v <= until /\ t = _bucket_ts(v)
      BY <2>1, <2>2
    <3>2. t \in Nat /\ t <= v
      BY <1>0, <3>1, Buckets
    <3>3. ASSUME NEW u \in Nat, until < u PROVE t <= _bucket_ts(u)
      <4>1. v <= u
        BY <1>0, <3>1, <3>3
      <4> QED BY <1>0, <3>1, <4>1, Buckets
    <3> QED BY <1>0, <3>1, <3>2, <3>3
  <2> QED BY <2>3, <2>4, <2>5
<1> QED BY <1>1, <1>2, <1>3, FeedAssumption DEF FeedTypeOK

(* A poll gives the latest record, for each of whose subjects there is one. *)
LEMMA PollAnswers ==
  ASSUME FeedTypeOK, NEW s \in Subjects
  PROVE  \E p \in 0 .. clock :
           /\ Polled(s) \subseteq {p} /\ (published[s] # {} => Polled(s) = {p})
           /\ \A u \in published[s] : Stamp(u) <= p
           /\ \A u \in Nat : clock < u => p <= Stamp(u)
<1> DEFINE P == published[s]
<1>0. clock \in Nat /\ P \subseteq Nat /\ \A u \in P : u \in Nat /\ u <= clock
  BY DEF FeedTypeOK, PublishedOk
<1>a. \A u \in Nat : 0 <= Stamp(u)
  BY Stamps
<1>1. CASE P = {}
  <2>1. Polled(s) = {}
    BY <1>1, FeedAssumption
    DEF Polled, Fetch, Latest, _fetch_now, PythPrices, Within, FeedTypeOK
  <2> QED BY <1>0, <1>1, <1>a, <2>1
<1>2. CASE P # {}
  <2>1. P \in SUBSET (0 .. clock)
    BY <1>0
  <2>2. Max(P) \in P /\ \A u \in P : u <= Max(P)
    BY <1>0, <1>2, <2>1, MaxOf
  <2> DEFINE m == Max(P)
  <2> HIDE DEF m, P
  <2>3. m \in P /\ \A u \in P : u <= m
    BY <2>2 DEF m
  <2>4. Latest(P) = {m}
    <3>1. \A t \in P : (\A u \in P : u <= t) => t = m
      BY <1>0, <2>3
    <3> QED BY <2>3, <3>1 DEF Latest
  <2>5. \A u \in P : Stamp(u) <= Stamp(m)
    BY <1>0, <2>3, Stamps
  <2>6. \A u \in Nat : clock < u => Stamp(m) <= Stamp(u)
    BY <1>0, <2>3, Stamps
  <2>7. Stamp(m) \in 0 .. clock
    BY <1>0, <2>3, Stamps
  <2>8. CASE provider = "candles"
    <3>1. Polled(s) = {m} /\ Stamp(m) = m
      BY <2>4, <2>8 DEF Polled, Stamp, P
    <3> QED BY <2>5, <2>6, <2>7, <3>1 DEF P
  <2>9. CASE provider = "now"
    <3>1. Polled(s) = {clock} /\ \A u : Stamp(u) = u
      BY <1>2, <2>9 DEF Polled, Fetch, _fetch_now, Stamp, P
    <3> QED BY <1>0, <3>1 DEF P
  <2>10. CASE provider = "pyth"
    <3>1. Polled(s) = {_bucket_ts(t) : t \in Within(Latest(P), 0, clock)}
      BY <2>10 DEF Polled, Fetch, PythPrices, P
    <3>2. Within(Latest(P), 0, clock) = {m}
      BY <1>0, <2>3, <2>4 DEF Within
    <3>3. Polled(s) = {Stamp(m)}
      BY <2>10, <3>1, <3>2 DEF Stamp
    <3> QED BY <2>5, <2>6, <2>7, <3>3 DEF P
  <2> QED BY <2>8, <2>9, <2>10, FeedAssumption DEF FeedTypeOK
<1> QED BY <1>1, <1>2

-----------------------------------------------------------------------------
(* Steps *)

(* The disjuncts of Next, and a step that changes nothing. *)
Step ==
  \/ \E S \in SUBSET Subjects : Publish(S) \/ Poll(S)
  \/ Start \/ Crash \/ PollRaises \/ PruneFails \/ prune_before(clock - Ttl)
  \/ \E r \in hand : \/ Backfill(r) \/ BackfillMark(r) \/ SubjectFails(r)
                     \/ AppendRecord(r) \/ Advance(r) \/ SinkFails(r)
  \/ \E w \in Windows : fetch_window(w)
  \/ UNCHANGED vars

LEMMA Steps ==
  ASSUME [Next]_vars
  PROVE  Step
BY Zenon DEF Next, Feeding, Failing, Scoring, Step

LEMMA InitialType == Init => FeedTypeOK
<1> SUFFICES ASSUME Init PROVE FeedTypeOK
  OBVIOUS
<1>1. \A s \in Subjects : published[s] = {} /\ looked[s] = 0
  BY DEF Init, Nothing
<1> QED BY <1>1, FeedAssumption DEF Init, FeedTypeOK, PublishedOk, Nothing

(* What a start-up asks for, and its answer. *)
LEMMA Asks ==
  ASSUME FeedTypeOK, HandInv, pc = "backfill", NEW r \in hand
  PROVE  /\ r.subject \in Subjects /\ r.at \in Nat /\ r.at <= clock
         /\ looked[r.subject] <= r.at
         /\ AskedUpTo(r.at) \in Nat
         /\ r.at <= AskedUpTo(r.at) /\ AskedUpTo(r.at) <= clock
         /\ BackfillStart(r.subject, r.at) \in Int
<1>1. r.subject \in Subjects /\ r.at \in Nat
  BY DEF FeedTypeOK
<1>2. looked[r.subject] <= r.at /\ r.at <= clock
  BY DEF HandInv, Starting, Marked, FeedTypeOK
<1>3. BackfillStart(r.subject, r.at) \in Int
  <2>1. watermark[r.subject] \in Nat
    BY <1>1 DEF FeedTypeOK
  <2>2. r.at - Span \in Int
    BY <1>1, FeedAssumption
  <2> QED BY <2>1, <2>2 DEF BackfillStart
<1> QED BY <1>1, <1>2, <1>3 DEF AskedUpTo, FeedTypeOK

LEMMA LeftOutType ==
  ASSUME FeedTypeOK, NEW s \in Subjects, NEW now \in Int, NEW page
  PROVE  LeftOut(s, now, page) \in SUBSET Nat
<1>1. \A u \in published[s] : Stamp(u) \in Nat
  BY Stamps DEF FeedTypeOK
<1> QED BY <1>1 DEF LeftOut

LEMMA TypeKept ==
  ASSUME FeedTypeOK, HandInv, [Next]_vars
  PROVE  FeedTypeOK'
<1> DEFINE All == [subject : Subjects, at : Nat]
<1>0. clock \in Nat /\ stored \subseteq All /\ passed \subseteq All /\ hand \subseteq All
  BY DEF FeedTypeOK
<1>a. \A r \in hand : r.subject \in Subjects /\ r.at \in Nat
  BY DEF FeedTypeOK
<1> USE DEF outside, reader
<1>1. ASSUME NEW S \in SUBSET Subjects, Publish(S) PROVE FeedTypeOK'
  <2>1. published' \in [Subjects -> SUBSET Nat]
    BY <1>0, <1>1 DEF FeedTypeOK, Publish
  <2>2. PublishedOk'
    <3> SUFFICES ASSUME NEW s \in Subjects, NEW u \in published'[s]
                 PROVE  Bucket <= u /\ u <= clock'
      BY DEF PublishedOk
    <3>1. u \in published[s] \/ u = clock + 1
      BY <1>1 DEF Publish
    <3>2. Bucket <= clock + 1
      BY DEF FeedTypeOK
    <3>3. u \in published[s] => u \in Nat /\ Bucket <= u /\ u <= clock
      BY DEF FeedTypeOK, PublishedOk
    <3> QED BY <1>0, <1>1, <3>1, <3>2, <3>3, FeedAssumption DEF Publish
  <2>3. \A r \in stored' \cup hand' : r.at <= clock'
    <3>1. \A r \in stored \cup hand : r.at \in Nat /\ r.at <= clock
      BY DEF FeedTypeOK
    <3> QED BY <1>0, <1>1, <3>1 DEF Publish
  <2>4. \A s \in Subjects : looked'[s] <= clock'
    <3>1. \A s \in Subjects : looked[s] \in Nat /\ looked[s] <= clock
      BY DEF FeedTypeOK
    <3> QED BY <1>0, <1>1, <3>1 DEF Publish
  <2>5. clock' \in Nat /\ Bucket <= clock' + 1
    BY <1>0, <1>1, FeedAssumption DEF FeedTypeOK, Publish
  <2> QED BY <1>1, <2>1, <2>2, <2>3, <2>4, <2>5 DEF FeedTypeOK, Publish
<1>2. CASE Start
  <2>1. hand' \subseteq All
    BY <1>0, <1>2, Records DEF Start
  <2>2. \A r \in hand' : r.at <= clock
    BY <1>0, <1>2, Records DEF Start
  <2> QED BY <1>2, <2>1, <2>2 DEF FeedTypeOK, Start, PublishedOk, Nothing
<1>3. ASSUME NEW r \in hand, Backfill(r) PROVE FeedTypeOK'
  <2> DEFINE s    == r.subject
             page == Fetch(s, BackfillStart(s, r.at), r.at)
  <2>1. /\ s \in Subjects /\ r.at \in Nat /\ AskedUpTo(r.at) \in Nat
        /\ AskedUpTo(r.at) <= clock /\ BackfillStart(s, r.at) \in Int
    BY <1>3, Asks DEF Backfill
  <2>2. page \in SUBSET (0 .. clock)
    BY <2>1, Answers
  <2>3. LeftOut(s, r.at, page) \in SUBSET Nat
    BY <2>1, LeftOutType
  <2>4. page # {} => Max(page) \in page
    BY <1>0, <2>2, MaxOf
  <2>5. /\ stored' = stored \cup Record(s, page)
        /\ passed' = passed \cup Record(s, LeftOut(s, r.at, page))
        /\ looked' = [looked EXCEPT ![s] = AskedUpTo(r.at)]
        /\ \/ NextSubject(r)
           \/ /\ page # {} /\ hand' = (hand \ {r}) \cup Record(s, {Max(page)})
              /\ pc' = "mark"
        /\ UNCHANGED <<outside, watermark, session, seen, errors, reader, faults>>
    BY <1>3 DEF Backfill, latest_ts
  <2> HIDE DEF s, page
  <2>6. page \in SUBSET Nat
    BY <1>0, <2>2
  <2>7. stored' \subseteq All /\ passed' \subseteq All
    BY <1>0, <2>1, <2>3, <2>5, <2>6, Records
  <2>8. \A q \in stored' : q.at <= clock
    <3>1. \A q \in Record(s, page) : q.at \in page
      BY <2>1, <2>6, Records
    <3>2. \A t \in page : t <= clock
      BY <1>0, <2>2
    <3> QED BY <2>5, <3>1, <3>2 DEF FeedTypeOK
  <2>9. hand' \subseteq All /\ pc' \in {"backfill", "mark", "poll"}
    <3>1. CASE NextSubject(r)
      BY <1>0, <3>1 DEF NextSubject
    <3>2. CASE /\ page # {} /\ hand' = (hand \ {r}) \cup Record(s, {Max(page)})
               /\ pc' = "mark"
      <4>1. Record(s, {Max(page)}) \subseteq All
        BY <2>1, <2>4, <2>6, <3>2, Records
      <4> QED BY <1>0, <3>2, <4>1
    <3> QED BY <2>5, <3>1, <3>2
  <2>10. looked' \in [Subjects -> Nat] /\ \A q \in Subjects : looked'[q] <= clock
    BY <2>1, <2>5 DEF FeedTypeOK
  <2>11. \A q \in hand' : q.at <= clock
    <3>1. CASE NextSubject(r)
      BY <3>1 DEF NextSubject, FeedTypeOK
    <3>2. CASE page # {} /\ hand' = (hand \ {r}) \cup Record(s, {Max(page)})
      <4>1. \A q \in Record(s, {Max(page)}) : q.at = Max(page)
        BY <2>1, <2>4, <2>6, <3>2, Records
      <4>2. Max(page) <= clock
        <5>1. \A t \in page : t <= clock
          BY <1>0, <2>2
        <5> QED BY <2>4, <3>2, <5>1, Zenon
      <4> QED BY <3>2, <4>1, <4>2 DEF FeedTypeOK
    <3> QED BY <2>5, <3>1, <3>2
  <2> QED BY <2>5, <2>7, <2>8, <2>9, <2>10, <2>11 DEF FeedTypeOK, PublishedOk
<1>4. ASSUME NEW r \in hand, BackfillMark(r) PROVE FeedTypeOK'
  BY <1>0, <1>a, <1>4 DEF FeedTypeOK, PublishedOk, BackfillMark, NextSubject
<1>5. ASSUME NEW r \in hand, SubjectFails(r) PROVE FeedTypeOK'
  <2> DEFINE s == r.subject
  <2>1. /\ s \in Subjects /\ r.at \in Nat /\ AskedUpTo(r.at) \in Nat
        /\ AskedUpTo(r.at) <= clock
    BY <1>5, Asks DEF SubjectFails
  <2>2. LeftOut(s, r.at, {}) \in SUBSET Nat
    BY <2>1, LeftOutType
  <2>3. Within(published[s], BackfillStart(s, r.at), r.at) \in SUBSET Nat
    BY <2>1 DEF Within, FeedTypeOK
  <2>4. passed' \subseteq All
    BY <1>0, <1>5, <2>1, <2>2, <2>3, Records DEF SubjectFails
  <2>5. looked' \in [Subjects -> Nat] /\ \A q \in Subjects : looked'[q] <= clock
    BY <1>5, <2>1 DEF FeedTypeOK, SubjectFails
  <2> QED BY <1>0, <1>5, <2>4, <2>5 DEF FeedTypeOK, PublishedOk, SubjectFails, NextSubject
<1>6. CASE Crash
  BY <1>6 DEF FeedTypeOK, PublishedOk, Crash
<1>7. ASSUME NEW S \in SUBSET Subjects, Poll(S) PROVE FeedTypeOK'
  <2>1. \A s \in S : Polled(s) \in SUBSET Nat /\ \A t \in Polled(s) : t <= clock
    <3> SUFFICES ASSUME NEW s \in S
                 PROVE  Polled(s) \in SUBSET Nat /\ \A t \in Polled(s) : t <= clock
      OBVIOUS
    <3>1. PICK p \in 0 .. clock : Polled(s) \subseteq {p}
      BY PollAnswers
    <3> QED BY <1>0, <3>1
  <2>2. NewRecords(S) \subseteq All /\ \A r \in NewRecords(S) : r.at <= clock
    BY <2>1, Records DEF NewRecords
  <2>3. \A s \in S : {Stamp(u) : u \in Overtaken(s)} \in SUBSET Nat
    BY Stamps DEF Overtaken, FeedTypeOK
  <2>4. passed' \subseteq All
    <3>1. \A s \in S : Record(s, {Stamp(u) : u \in Overtaken(s)}) \subseteq All
      BY <2>3, Records
    <3> QED BY <1>0, <1>7, <3>1 DEF Poll
  <2>5. looked' \in [Subjects -> Nat] /\ \A q \in Subjects : looked'[q] <= clock
    BY <1>0, <1>7 DEF FeedTypeOK, Poll
  <2> QED BY <1>7, <2>2, <2>4, <2>5 DEF FeedTypeOK, PublishedOk, Poll, EndIfDone
<1>8. CASE PollRaises
  BY <1>8 DEF FeedTypeOK, PublishedOk, PollRaises
<1>9. ASSUME NEW r \in hand, AppendRecord(r) PROVE FeedTypeOK'
  BY <1>0, <1>a, <1>9 DEF FeedTypeOK, PublishedOk, AppendRecord
<1>10. ASSUME NEW r \in hand, Advance(r) \/ SinkFails(r) PROVE FeedTypeOK'
  BY <1>0, <1>a, <1>10 DEF FeedTypeOK, PublishedOk, Advance, SinkFails, EndIfDone
<1>11. CASE prune_before(clock - Ttl)
  BY <1>0, <1>11 DEF FeedTypeOK, PublishedOk, prune_before
<1>12. CASE PruneFails
  BY <1>12 DEF FeedTypeOK, PublishedOk, PruneFails
<1>13. ASSUME NEW w \in Windows, fetch_window(w) PROVE FeedTypeOK'
  <2>1. Recovered(w) \in SUBSET (0 .. clock)
    <3>1. w.start - Margin \in Int /\ w.end + Margin \in Int
      BY FeedAssumption
    <3>2. Fetch(1, w.start - Margin, w.end + Margin) \in SUBSET (0 .. clock)
      BY <3>1, Answers, FeedAssumption
    <3> QED BY <3>2 DEF Recovered, _run_async
  <2>2. Recovered(w) \in SUBSET Nat /\ \A t \in Recovered(w) : t <= clock
    BY <1>0, <2>1
  <2>3. stored' \subseteq All /\ \A q \in stored' : q.at <= clock
    BY <1>0, <1>13, <2>2, Records, FeedAssumption DEF fetch_window, FeedTypeOK
  <2> QED BY <1>13, <2>3 DEF FeedTypeOK, PublishedOk, fetch_window
<1>14. CASE UNCHANGED vars
  BY <1>14 DEF FeedTypeOK, PublishedOk, vars
<1> QED BY <1>1, <1>2, <1>3, <1>4, <1>5, <1>6, <1>7, <1>8, <1>9, <1>10, <1>11, <1>12, <1>13,
           <1>14, Steps DEF Step

(* What is stored or passed stays one of both, a subject is asked up to     *)
(* later and later times, and what is published is new.                     *)
LEMMA Grows ==
  ASSUME FeedTypeOK, HandInv, [Next]_vars
  PROVE  /\ Covered \subseteq Covered' /\ provider' = provider
         /\ \A s \in Subjects :
              /\ looked[s] <= looked'[s]
              /\ \A u \in published'[s] : u \in published[s] \/ clock < u
<1>0. /\ clock \in Nat
      /\ \A s \in Subjects : looked[s] \in Nat /\ looked[s] <= clock
  BY DEF FeedTypeOK
<1> USE DEF outside, reader, Covered
<1>1. ASSUME NEW S \in SUBSET Subjects, Publish(S)
      PROVE  /\ Covered \subseteq Covered' /\ provider' = provider
             /\ \A s \in Subjects :
                  /\ looked[s] <= looked'[s]
                  /\ \A u \in published'[s] : u \in published[s] \/ clock < u
  BY <1>0, <1>1 DEF Publish
<1>2. CASE UNCHANGED <<clock, provider, published>>
  <2>1. \A s \in Subjects : looked[s] <= looked'[s]
    <3>1. ASSUME NEW r \in hand, Backfill(r) \/ SubjectFails(r)
          PROVE  \A s \in Subjects : looked[s] <= looked'[s]
      <4>1. /\ looked' = [looked EXCEPT ![r.subject] = AskedUpTo(r.at)]
            /\ pc = "backfill"
        BY <3>1 DEF Backfill, SubjectFails
      <4>2. /\ looked[r.subject] <= AskedUpTo(r.at)
        BY <1>0, <4>1, Asks
      <4> QED BY <1>0, <4>1, <4>2 DEF FeedTypeOK
    <3>2. ASSUME NEW S \in SUBSET Subjects, Poll(S)
          PROVE  \A s \in Subjects : looked[s] <= looked'[s]
      BY <1>0, <3>2 DEF Poll
    <3>3. CASE UNCHANGED looked
      BY <1>0, <3>3
    <3> QED BY <1>1, <3>1, <3>2, <3>3, Steps
         DEF Step, Publish, Start, Crash, PollRaises, PruneFails, prune_before, BackfillMark,
             AppendRecord, Advance, SinkFails, fetch_window, vars
  <2>2. Covered \subseteq Covered'
    <3>1. CASE prune_before(clock - Ttl)
      <4>1. \A r \in stored : r.at \in Nat /\ clock - Ttl \in Int
        BY <1>0, FeedAssumption DEF FeedTypeOK
      <4>2. \A r \in stored : r.at >= clock - Ttl \/ r.at < clock - Ttl
        BY <4>1
      <4> QED BY <3>1, <4>2 DEF prune_before
    <3>2. CASE stored \subseteq stored' /\ passed \subseteq passed'
      BY <3>2
    <3> QED BY <3>1, <3>2, Steps
         DEF Step, Publish, Poll, Backfill, SubjectFails, Start, Crash, PollRaises, PruneFails,
             BackfillMark, AppendRecord, Advance, SinkFails, fetch_window, vars
  <2> QED BY <1>2, <2>1, <2>2
<1> QED BY <1>1, <1>2, Steps
     DEF Step, Poll, Backfill, SubjectFails, Start, Crash, PollRaises, PruneFails,
         prune_before, BackfillMark, AppendRecord, Advance, SinkFails, fetch_window, vars

(* So a time that is behind stays behind.                                   *)
LEMMA BehindStays ==
  ASSUME FeedTypeOK, HandInv, [Next]_vars, NEW s \in Subjects, NEW a \in Nat, LookedPast(s, a)
  PROVE  LookedPast(s, a)'
<1>1. provider' = provider /\ looked[s] <= looked'[s]
  BY Grows
<1>2. looked[s] \in Nat /\ looked'[s] \in Nat
  BY TypeKept DEF FeedTypeOK
<1>3. ASSUME NEW u \in Nat, looked'[s] < u PROVE a <= Stamp(u)'
  <2>1. looked[s] < u
    BY <1>1, <1>2, <1>3
  <2>2. Stamp(u)' = Stamp(u)
    BY <1>1 DEF Stamp
  <2> QED BY <2>1, <2>2 DEF LookedPast
<1> QED BY <1>3 DEF LookedPast

(* What is known is published before, while the subject is not asked about. *)
LEMMA KnownStays ==
  ASSUME FeedTypeOK, HandInv, [Next]_vars, NEW s \in Subjects, looked'[s] = looked[s],
         NEW u \in published'[s], u <= looked'[s]
  PROVE  u \in published[s] /\ u <= looked[s] /\ Stamp(u)' = Stamp(u)
<1>1. provider' = provider /\ (u \in published[s] \/ clock < u)
  BY Grows
<1>2. u \in Nat /\ clock \in Nat /\ looked[s] \in Nat /\ looked[s] <= clock
  BY TypeKept DEF FeedTypeOK
<1>3. Stamp(u)' = Stamp(u)
  BY <1>1 DEF Stamp
<1> QED BY <1>1, <1>2, <1>3

LEMMA OneFirst ==
  ASSUME FeedTypeOK, HandInv, NEW r \in hand, IsFirst(r), NEW q \in hand, q # r
  PROVE  r.subject < q.subject /\ ~IsFirst(q)
<1>1. r.subject \in Nat /\ q.subject \in Nat
  BY FeedAssumption DEF FeedTypeOK
<1>2. r.subject # q.subject
  BY DEF HandInv
<1>3. r.subject <= q.subject
  BY DEF IsFirst
<1>4. r.subject < q.subject
  BY <1>1, <1>2, <1>3
<1>5. ~(q.subject <= r.subject)
  BY <1>1, <1>4
<1> QED BY <1>4, <1>5 DEF IsFirst

(* What a page or a poll brought is behind everything to come.              *)
LEMMA PolledBehind ==
  ASSUME FeedTypeOK, HandInv, [Next]_vars, NEW S \in SUBSET Subjects, Poll(S), NEW r \in hand'
  PROVE  /\ r.subject \in S /\ r.at \in Polled(r.subject) /\ r = Of(r.subject, r.at)
         /\ IsNew(r) /\ LookedPast(r.subject, r.at)'
<1>1. r \in UNION {Record(s, Polled(s)) : s \in S} /\ IsNew(r)
  BY DEF Poll, NewRecords
<1>2. PICK s \in S : r \in Record(s, Polled(s))
  BY <1>1
<1>3. PICK p \in 0 .. clock :
        Polled(s) \subseteq {p} /\ \A u \in Nat : clock < u => p <= Stamp(u)
  BY PollAnswers
<1>4. Polled(s) \in SUBSET Nat
  BY <1>3 DEF FeedTypeOK
<1>5. r.subject = s /\ r.at \in Polled(s) /\ r = Of(s, r.at)
  BY <1>2, <1>4, Records
<1>6. looked'[s] = clock /\ provider' = provider
  BY DEF Poll, FeedTypeOK, outside
<1>7. r.at = p
  BY <1>3, <1>5
<1>8. \A u \in Nat : Stamp(u)' = Stamp(u)
  BY <1>6 DEF Stamp
<1>9. LookedPast(s, p)'
  BY <1>3, <1>6, <1>8 DEF LookedPast
<1> QED BY <1>1, <1>5, <1>7, <1>9

(* One is taken out of hand: the others are not the next one's. *)
LEMMA HandShrinks ==
  ASSUME FeedTypeOK, HandInv, NEW r \in hand, IsFirst(r), hand' = hand \ {r}
  PROVE  /\ \A q \in hand' : q \in hand /\ q # r /\ ~Marked(q) /\ q.subject # r.subject
         /\ \A q, p \in hand' : q.subject = p.subject => q = p
BY OneFirst DEF HandInv, Marked

LEMMA HandKept ==
  ASSUME FeedTypeOK, HandInv, [Next]_vars
  PROVE  HandInv'
<1> DEFINE One(q) ==
             /\ Starting /\ ~Marked(q) => looked[q.subject] <= q.at
             /\ Marked(q) \/ Listening => LookedPast(q.subject, q.at)
             /\ Marked(q) \/ (pc = "advance" /\ IsFirst(q)) => q \in stored
           Distinct == \A r, q \in hand : r.subject = q.subject => r = q
<1>0. \A q \in hand : One(q) /\ q.subject \in Subjects /\ q.at \in Nat
  BY DEF HandInv, FeedTypeOK
<1>a. Distinct /\ (pc \in {"down", "poll", "dead"} => hand = {})
  BY DEF HandInv
<1>b. ASSUME Distinct', (pc \in {"down", "poll", "dead"} => hand = {})',
             \A q \in hand' : One(q)'
      PROVE  HandInv'
  BY <1>b DEF HandInv
<1> USE DEF Starting, Listening, outside, reader
<1>c. ASSUME NEW q \in hand, LookedPast(q.subject, q.at)
      PROVE  LookedPast(q.subject, q.at)'
  BY <1>0, <1>c, BehindStays
<1>1. ASSUME UNCHANGED <<pc, hand, looked>>, stored \subseteq stored' PROVE HandInv'
  <2>1. ASSUME NEW q \in hand' PROVE One(q)'
    BY <1>0, <1>1, <1>c, <2>1 DEF Marked, IsFirst
  <2> QED BY <1>1, <1>a, <1>b, <2>1
<1>2. CASE Start
  <2>1. \A q \in hand' : \E s \in Subjects : q = Of(s, clock)
    <3>1. clock \in Nat
      BY DEF FeedTypeOK
    <3>2. \A s \in Subjects : \A q \in Record(s, {clock}) : q = Of(s, clock)
      BY <3>1, Records
    <3> QED BY <1>2, <3>2 DEF Start
  <2>2. Distinct'
    BY <2>1 DEF Of
  <2>3. ASSUME NEW q \in hand' PROVE One(q)'
    <3>1. PICK s \in Subjects : q = Of(s, clock)
      BY <2>1
    <3>2. q.subject = s /\ q.at = clock
      BY <3>1 DEF Of
    <3> QED BY <1>2, <3>2 DEF Start, Marked, FeedTypeOK
  <2> QED BY <1>2, <1>b, <2>2, <2>3 DEF Start
<1>3. ASSUME NEW r \in hand, IsFirst(r), Starting, NextSubject(r),
             \A s \in Subjects : s # r.subject => looked'[s] = looked[s]
      PROVE  HandInv'
  <2>1. /\ hand' = hand \ {r} /\ pc' \in {"poll", "backfill"}
        /\ pc' = "poll" => hand' = {}
    BY <1>3 DEF NextSubject
  <2>2. ASSUME NEW q \in hand' PROVE One(q)'
    <3>1. q \in hand /\ ~Marked(q) /\ q.subject # r.subject
      BY <1>3, <2>1, HandShrinks
    <3>2. looked'[q.subject] = looked[q.subject] /\ looked[q.subject] <= q.at
      BY <1>0, <1>3, <3>1
    <3> QED BY <2>1, <3>2 DEF Marked
  <2>3. Distinct'
    BY <1>3, <2>1, HandShrinks
  <2> QED BY <1>b, <2>1, <2>2, <2>3
<1>4. ASSUME NEW r \in hand, Backfill(r) PROVE HandInv'
  <2> DEFINE s    == r.subject
             page == Fetch(s, BackfillStart(s, r.at), r.at)
  <2>0. /\ IsFirst(r) /\ pc = "backfill" /\ UNCHANGED <<clock, provider>>
        /\ stored' = stored \cup Record(s, page)
        /\ looked' = [looked EXCEPT ![s] = AskedUpTo(r.at)]
        /\ \/ NextSubject(r)
           \/ /\ page # {} /\ hand' = (hand \ {r}) \cup Record(s, {Max(page)})
              /\ pc' = "mark"
    BY <1>4 DEF Backfill, latest_ts
  <2>1. s \in Subjects /\ r.at \in Nat /\ AskedUpTo(r.at) \in Nat /\ BackfillStart(s, r.at) \in Int
    BY <2>0, Asks
  <2>2. /\ page \in SUBSET (0 .. clock)
        /\ \A t \in page : \A u \in Nat : AskedUpTo(r.at) < u => t <= Stamp(u)
    BY <2>1, Answers
  <2>3. page # {} => Max(page) \in page
    BY <2>2, MaxOf DEF FeedTypeOK
  <2> HIDE DEF page, s
  <2>4. page \in SUBSET Nat
    BY <2>2 DEF FeedTypeOK
  <2>5. \A q \in Subjects : q # s => looked'[q] = looked[q]
    BY <2>0 DEF FeedTypeOK
  <2>6. CASE NextSubject(r)
    BY <1>3, <2>0, <2>5, <2>6 DEF s
  <2>7. CASE /\ page # {} /\ hand' = (hand \ {r}) \cup Record(s, {Max(page)})
             /\ pc' = "mark"
    <3>0. PICK last \in page : last = Max(page)
      BY <2>3, <2>7
    <3> DEFINE m == Of(s, last)
    <3>1. last \in Nat /\ Record(s, {Max(page)}) = {m}
      BY <2>1, <2>4, <3>0 DEF Record, Of
    <3>2. hand' = (hand \ {r}) \cup {m} /\ m.subject = s /\ m.at = last
      BY <2>7, <3>1 DEF Of
    <3> HIDE DEF m
    <3>3. \A q \in hand \ {r} : s < q.subject /\ q.subject \in Nat /\ q.subject \in Subjects
      BY <1>0, <2>0, OneFirst, FeedAssumption DEF s
    <3>4. s \in Nat
      BY <2>1, FeedAssumption
    <3>5. \A q \in hand \ {r} : q.subject # s /\ ~(q.subject <= s)
      BY <3>3, <3>4
    <3>6. Distinct'
      BY <1>a, <3>2, <3>5
    <3>7. IsFirst(m)'
      BY <3>2, <3>3, <3>4 DEF IsFirst
    <3>8. \A q \in hand \ {r} : ~IsFirst(q)'
      BY <3>2, <3>5 DEF IsFirst
    <3>9. m \in stored'
      <4>1. m \in Record(s, page)
        BY <2>1, <2>4, Records DEF m
      <4> QED BY <2>0, <4>1
    <3>10. LookedPast(m.subject, m.at)'
      <4>1. looked'[s] = AskedUpTo(r.at)
        BY <2>0, <2>1 DEF FeedTypeOK
      <4>2. \A u \in Nat : Stamp(u)' = Stamp(u)
        BY <2>0 DEF Stamp
      <4>3. \A u \in Nat : AskedUpTo(r.at) < u => last <= Stamp(u)
        BY <2>2, Zenon
      <4>4. PICK a \in Nat : a = AskedUpTo(r.at)
        BY <2>1
      <4> QED BY <3>2, <4>1, <4>2, <4>3, <4>4 DEF LookedPast
    <3>11. ASSUME NEW q \in hand' PROVE One(q)'
      <4>1. CASE q = m
        BY <2>7, <3>7, <3>9, <3>10, <4>1 DEF Marked
      <4>2. CASE q \in hand \ {r}
        <5>1. ~Marked(q)
          BY <2>0 DEF Marked
        <5>2. looked'[q.subject] <= q.at
          BY <1>0, <2>0, <2>5, <3>3, <3>5, <4>2, <5>1
        <5> QED BY <2>7, <3>8, <4>2, <5>2 DEF Marked
      <4> QED BY <3>2, <4>1, <4>2
    <3> QED BY <1>b, <2>7, <3>6, <3>11
  <2> QED BY <2>0, <2>6, <2>7
<1>5. ASSUME NEW r \in hand, BackfillMark(r) \/ SubjectFails(r) PROVE HandInv'
  <2>1. /\ IsFirst(r) /\ Starting /\ NextSubject(r)
        /\ looked' = looked \/ looked' = [looked EXCEPT ![r.subject] = AskedUpTo(r.at)]
    BY <1>5 DEF BackfillMark, SubjectFails
  <2>2. \A s \in Subjects : s # r.subject => looked'[s] = looked[s]
    BY <2>1 DEF FeedTypeOK
  <2> QED BY <1>3, <2>1, <2>2
<1>6. CASE Crash
  BY <1>6, <1>b DEF Crash
<1>7. ASSUME NEW S \in SUBSET Subjects, Poll(S) PROVE HandInv'
  <2>1. \A q \in hand' : /\ q.subject \in S /\ q.at \in Polled(q.subject)
                         /\ q = Of(q.subject, q.at) /\ LookedPast(q.subject, q.at)'
    BY <1>7, PolledBehind
  <2>2. \A s \in Subjects : \A t, u \in Polled(s) : t = u
    <3> SUFFICES ASSUME NEW s \in Subjects, NEW t \in Polled(s), NEW u \in Polled(s)
                 PROVE  t = u
      OBVIOUS
    <3>1. PICK p \in 0 .. clock : Polled(s) \subseteq {p}
      BY PollAnswers
    <3> QED BY <3>1
  <2>3. Distinct'
    <3> SUFFICES ASSUME NEW r \in hand', NEW q \in hand', r.subject = q.subject
                 PROVE  r = q
      OBVIOUS
    <3>1. r.at = q.at
      BY <2>1, <2>2
    <3> QED BY <2>1, <3>1
  <2>4. pc' \in {"poll", "sink"} /\ (pc' = "poll" => hand' = {})
    BY <1>7 DEF Poll, EndIfDone
  <2> QED BY <1>b, <2>1, <2>3, <2>4 DEF Marked
<1>8. CASE PollRaises
  <2>1. hand' = {} /\ pc' \in {"poll", "dead"}
    BY <1>8, <1>a DEF PollRaises
  <2> QED BY <1>b, <2>1
<1>9. ASSUME NEW r \in hand, AppendRecord(r) PROVE HandInv'
  <2>1. /\ pc = "sink" /\ pc' = "advance" /\ hand' = hand /\ looked' = looked
        /\ r \in stored' /\ IsFirst(r)
    BY <1>9 DEF AppendRecord
  <2>2. ASSUME NEW q \in hand' PROVE One(q)'
    <3>1. LookedPast(q.subject, q.at)'
      BY <1>0, <1>c, <2>1
    <3>2. IsFirst(q)' => q = r
      BY <2>1, OneFirst DEF IsFirst
    <3> QED BY <2>1, <3>1, <3>2 DEF Marked
  <2> QED BY <1>a, <1>b, <2>1, <2>2
<1>10. ASSUME NEW r \in hand, Advance(r) \/ SinkFails(r) PROVE HandInv'
  <2>1. /\ Listening /\ IsFirst(r) /\ hand' = hand \ {r}
        /\ pc' \in {"poll", "sink"} /\ (pc' = "poll" => hand' = {})
    BY <1>10 DEF Advance, SinkFails, EndIfDone
  <2>2. ASSUME NEW q \in hand' PROVE One(q)'
    <3>1. LookedPast(q.subject, q.at)'
      BY <1>0, <1>c, <2>1
    <3> QED BY <2>1, <3>1 DEF Marked
  <2>3. Distinct'
    BY <2>1, HandShrinks
  <2> QED BY <1>b, <2>1, <2>2, <2>3
<1>11. CASE prune_before(clock - Ttl)
  <2>1. pc \in {"poll", "sink", "dead"} /\ UNCHANGED <<pc, hand, looked>>
    BY <1>11 DEF prune_before
  <2>2. ASSUME NEW q \in hand' PROVE One(q)'
    BY <1>0, <1>c, <2>1 DEF Marked
  <2> QED BY <1>a, <1>b, <2>1, <2>2
<1>12. CASE PruneFails
  BY <1>1, <1>12 DEF PruneFails
<1>13. ASSUME NEW w \in Windows, fetch_window(w) PROVE HandInv'
  BY <1>1, <1>13 DEF fetch_window
<1>14. CASE UNCHANGED vars
  BY <1>1, <1>14 DEF vars
<1>15. ASSUME NEW S \in SUBSET Subjects, Publish(S) PROVE HandInv'
  BY <1>1, <1>15 DEF Publish
<1> QED BY <1>2, <1>4, <1>5, <1>6, <1>7, <1>8, <1>9, <1>10, <1>11, <1>12, <1>13, <1>14, <1>15,
           Steps DEF Step

-----------------------------------------------------------------------------
(* What is known *)

(* HolesExplained, of one published record at a time.                       *)
LEMMA Holes ==
  HolesExplained <=>
    \A s \in Subjects : \A u \in published[s] :
      Stamp(u) < watermark[s] => Of(s, Stamp(u)) \in Covered
<1>1. \A s, T : Record(s, T) = {Of(s, t) : t \in T}
  BY DEF Record, Of
<1>2. \A s, K : Record(s, {t \in {Stamp(u) : u \in published[s]} : t < watermark[s]}) \subseteq K
        <=> \A u \in published[s] : Stamp(u) < watermark[s] => Of(s, Stamp(u)) \in K
  BY <1>1
<1> QED BY <1>2, Zenon DEF HolesExplained, Covered

(* An answer, with what it leaves out, has all that is not before the       *)
(* watermark.                                                               *)
LEMMA AnswerCovers ==
  ASSUME FeedTypeOK, HolesExplained, NEW s \in Subjects, NEW now \in Nat,
         NEW u \in published[s], u <= AskedUpTo(now),
         NEW page, page = Fetch(s, BackfillStart(s, now), now)
  PROVE  \/ Of(s, Stamp(u)) \in Covered
         \/ Stamp(u) \in page \/ Stamp(u) \in LeftOut(s, now, page)
<1> DEFINE P == published[s]
           from == BackfillStart(s, now)
<1>0. /\ u \in Nat /\ clock \in Nat /\ watermark[s] \in Nat /\ P \in SUBSET (0 .. clock)
      /\ Span \in Nat
  <2>1. P \subseteq Nat /\ \A v \in P : v <= clock
    BY DEF FeedTypeOK, PublishedOk
  <2>2. \A v \in P : v \in 0 .. clock
    BY <2>1 DEF FeedTypeOK
  <2> QED BY <2>1, <2>2, FeedAssumption DEF FeedTypeOK
<1>1. CASE provider # "candles"
  BY <1>1 DEF LeftOut
<1>2. CASE provider = "candles"
  <2>1. Stamp(u) = u /\ u <= now /\ page = Earliest(Within(P, from, now))
    BY <1>2 DEF Stamp, AskedUpTo, Fetch, _fetch_candles
  <2>2. CASE u < from /\ watermark[s] # 0
    <3>1. Stamp(u) < watermark[s]
      BY <2>1, <2>2 DEF BackfillStart
    <3> QED BY <3>1, Holes
  <2>3. CASE u < from /\ watermark[s] = 0
    <3>1. u < now - Span
      BY <2>3 DEF BackfillStart
    <3> QED BY <2>1, <2>3, <3>1 DEF LeftOut
  <2>4. CASE ~(u < from)
    <3>1. from \in Int
      BY <1>0 DEF BackfillStart
    <3> DEFINE W == Within(P, from, now)
    <3>2. u \in W
      BY <1>0, <2>1, <2>4, <3>1 DEF Within
    <3>3. W \in SUBSET (0 .. clock)
      BY <1>0 DEF Within
    <3> HIDE DEF W
    <3>4. CASE u \in Earliest(W)
      BY <2>1, <3>4 DEF W
    <3>5. CASE u \notin Earliest(W)
      <4>1. Cardinality(Earliest(W)) = FetchLimit /\ \A t \in Earliest(W) : t < u
        BY <1>0, <3>2, <3>3, <3>5, PageFull
      <4> QED BY <1>2, <2>1, <3>5, <4>1 DEF LeftOut, W
    <3> QED BY <3>4, <3>5
  <2> QED BY <2>2, <2>3, <2>4
<1> QED BY <1>1, <1>2

(* A failed call leaves out what it asked for.                              *)
LEMMA FailureCovers ==
  ASSUME FeedTypeOK, HolesExplained, provider # "pyth", NEW s \in Subjects, NEW now \in Nat,
         NEW u \in published[s], u <= AskedUpTo(now)
  PROVE  \/ Of(s, Stamp(u)) \in Covered
         \/ Stamp(u) \in LeftOut(s, now, {})
         \/ Stamp(u) \in Within(published[s], BackfillStart(s, now), now)
<1>0. u \in Nat /\ watermark[s] \in Nat /\ Span \in Nat
  BY FeedAssumption DEF FeedTypeOK
<1>1. CASE provider # "candles"
  BY <1>1 DEF LeftOut
<1>2. CASE provider = "candles"
  <2>1. Stamp(u) = u /\ u <= now
    BY <1>2 DEF Stamp, AskedUpTo
  <2>2. CASE u < BackfillStart(s, now) /\ watermark[s] # 0
    <3>1. Stamp(u) < watermark[s]
      BY <2>1, <2>2 DEF BackfillStart
    <3> QED BY <3>1, Holes
  <2>3. CASE u < BackfillStart(s, now) /\ watermark[s] = 0
    <3>1. u < now - Span
      BY <2>3 DEF BackfillStart
    <3> QED BY <2>1, <2>3, <3>1 DEF LeftOut
  <2>4. CASE ~(u < BackfillStart(s, now))
    <3>1. BackfillStart(s, now) \in Int
      BY <1>0 DEF BackfillStart
    <3> QED BY <1>0, <2>1, <2>4, <3>1 DEF Within
  <2> QED BY <2>2, <2>3, <2>4
<1> QED BY <1>1, <1>2

(* So the subject that was asked about is known.                            *)
LEMMA AskedIsKnown ==
  ASSUME FeedTypeOK, HandInv, HolesExplained, NEW r \in hand, Backfill(r) \/ SubjectFails(r)
  PROVE  Known(r.subject, Covered)'
<1> DEFINE s == r.subject
<1>1. /\ pc = "backfill" /\ UNCHANGED <<clock, provider, published>>
      /\ looked' = [looked EXCEPT ![s] = AskedUpTo(r.at)]
  BY DEF Backfill, SubjectFails, outside
<1>2. s \in Subjects /\ r.at \in Nat
  BY <1>1, Asks
<1>3. looked'[s] = AskedUpTo(r.at)
  BY <1>1, <1>2 DEF FeedTypeOK
<1> HIDE DEF s
<1> SUFFICES ASSUME NEW u \in published[s], u <= AskedUpTo(r.at)
             PROVE  Of(s, Stamp(u)) \in Covered'
  <2>1. \A u : Stamp(u)' = Stamp(u)
    BY <1>1 DEF Stamp
  <2> QED BY <1>1, <1>3, <2>1 DEF Known, s
<1>4. Stamp(u) \in Nat
  BY Stamps, <1>2 DEF FeedTypeOK
<1>5. CASE Backfill(r)
  <2> DEFINE page == Fetch(s, BackfillStart(s, r.at), r.at)
  <2>1. /\ stored' = stored \cup Record(s, page)
        /\ passed' = passed \cup Record(s, LeftOut(s, r.at, page))
    BY <1>5 DEF Backfill, s
  <2>2. /\ page \in SUBSET Nat /\ LeftOut(s, r.at, page) \in SUBSET Nat
    <3>1. BackfillStart(s, r.at) \in Int
      BY <1>1, Asks DEF s
    <3> QED BY <1>2, <3>1, Answers, LeftOutType DEF FeedTypeOK
  <2>3. \/ Of(s, Stamp(u)) \in Covered
        \/ Stamp(u) \in page \/ Stamp(u) \in LeftOut(s, r.at, page)
    BY <1>2, AnswerCovers
  <2> HIDE DEF page
  <2> QED BY <1>2, <2>1, <2>2, <2>3, Records DEF Covered
<1>6. CASE SubjectFails(r)
  <2> DEFINE W == Within(published[s], BackfillStart(s, r.at), r.at)
  <2>1. /\ stored' = stored /\ provider # "pyth"
        /\ passed' = passed \cup Record(s, LeftOut(s, r.at, {})) \cup Record(s, W)
    BY <1>6 DEF SubjectFails, s
  <2>2. W \in SUBSET Nat /\ LeftOut(s, r.at, {}) \in SUBSET Nat
    BY <1>2, LeftOutType DEF Within, FeedTypeOK
  <2>3. \/ Of(s, Stamp(u)) \in Covered
        \/ Stamp(u) \in LeftOut(s, r.at, {}) \/ Stamp(u) \in W
    BY <1>2, <2>1, FailureCovers
  <2> HIDE DEF W
  <2> QED BY <1>2, <2>1, <2>2, <2>3, Records DEF Covered
<1> QED BY <1>5, <1>6

(* And so is one that is polled, in the store or in hand.                   *)
LEMMA PolledIsKnown ==
  ASSUME FeedTypeOK, HandInv, ListenInv, MarkInv, session = "ok",
         NEW S \in SUBSET Subjects, Poll(S), NEW s \in S
  PROVE  Known(s, Covered \cup hand)'
<1>1. /\ pc = "poll" /\ UNCHANGED <<clock, provider, published, stored>>
      /\ hand' = NewRecords(S)
      /\ passed' = passed \cup UNION {Record(q, {Stamp(u) : u \in Overtaken(q)}) : q \in S}
  BY DEF Poll, outside
<1>2. hand = {} /\ Known(s, Covered) /\ (seen[s] # 0 => Of(s, seen[s]) \in Covered)
  BY <1>1 DEF HandInv, ListenInv, Listening
<1> SUFFICES ASSUME NEW u \in published[s] PROVE Of(s, Stamp(u)) \in Covered' \cup hand'
  <2>1. \A u : Stamp(u)' = Stamp(u)
    BY <1>1 DEF Stamp
  <2> QED BY <1>1, <2>1 DEF Known
<1>3. u \in Nat /\ Bucket <= u /\ looked[s] \in Nat /\ seen[s] \in Nat
  BY DEF FeedTypeOK, PublishedOk
<1>4. CASE u <= looked[s]
  BY <1>1, <1>2, <1>4 DEF Known, Covered
<1>5. CASE looked[s] < u
  <2>1. PICK p \in 0 .. clock : Polled(s) = {p} /\ Stamp(u) <= p
    BY PollAnswers
  <2>2. p \in Nat /\ Stamp(u) \in Nat /\ Stamp(u) # 0
    BY <1>3, <2>1, Stamps DEF FeedTypeOK
  <2>3. CASE Stamp(u) < p
    <3>1. u \in Overtaken(s)
      BY <1>5, <2>1, <2>3 DEF Overtaken
    <3> DEFINE T == {Stamp(v) : v \in Overtaken(s)}
    <3>2. T \in SUBSET Nat
      BY Stamps DEF Overtaken, FeedTypeOK
    <3>3. Stamp(u) \in T
      BY <3>1
    <3> HIDE DEF T
    <3>4. Of(s, Stamp(u)) \in Record(s, T)
      BY <3>2, <3>3, Records
    <3> QED BY <1>1, <3>4 DEF Covered, T
  <2>4. CASE Stamp(u) = p
    <3>1. Of(s, p) \in Record(s, Polled(s))
      BY <2>1, <2>2, Records
    <3>2. CASE IsNew(Of(s, p))
      BY <1>1, <2>4, <3>1, <3>2 DEF NewRecords
    <3>3. CASE ~IsNew(Of(s, p))
      <4>1. p <= seen[s]
        BY <1>3, <2>2, <3>3 DEF IsNew, Of
      <4>2. seen[s] <= Stamp(u)
        BY <1>3, <1>5 DEF MarkInv, LookedPast
      <4>3. seen[s] = p
        BY <1>3, <2>2, <2>4, <4>1, <4>2
      <4> QED BY <1>1, <1>2, <2>2, <2>4, <4>3 DEF Covered
    <3> QED BY <3>2, <3>3
  <2> QED BY <2>1, <2>2, <2>3, <2>4
<1> QED BY <1>3, <1>4, <1>5

(* What was known stays it, wherever it is kept.                            *)
LEMMA KnownKept ==
  ASSUME FeedTypeOK, HandInv, [Next]_vars, NEW s \in Subjects, looked'[s] = looked[s],
         NEW K, NEW L, K \subseteq L, \A u \in published[s] :
           u <= looked[s] => Of(s, Stamp(u)) \in K
  PROVE  \A u \in published'[s] : u <= looked'[s] => Of(s, Stamp(u)') \in L
BY KnownStays

(* Start-up: the next subject was asked about, or its watermark moved.      *)
LEMMA StartStep ==
  ASSUME FeedInv, [Next]_vars, NEW r \in hand,
         Backfill(r) \/ SubjectFails(r) \/ BackfillMark(r)
  PROVE  /\ session' = "ok" /\ seen' = Nothing
         /\ \A s \in Subjects :
              (\A q \in hand' : q.subject = s => Marked(q)') => Known(s, Covered)'
<1> USE DEF FeedInv
<1>1. /\ Starting /\ IsFirst(r) /\ UNCHANGED <<session, seen>>
      /\ \A s \in Subjects : s # r.subject => looked'[s] = looked[s]
      /\ \/ hand' = hand \ {r} /\ pc' \in {"backfill", "poll"}
         \/ \E t : /\ hand' = (hand \ {r}) \cup Record(r.subject, {t}) /\ t \in Nat
                   /\ pc' = "mark"
  <2>1. CASE Backfill(r)
    <3>1. pc = "backfill" /\ IsFirst(r) /\ UNCHANGED <<session, seen>>
      BY <2>1 DEF Backfill
    <3> DEFINE page == Fetch(r.subject, BackfillStart(r.subject, r.at), r.at)
    <3>2. page # {} => Max(page) \in Nat
      <4>1. r.subject \in Subjects /\ r.at \in Nat /\ BackfillStart(r.subject, r.at) \in Int
        BY <3>1, Asks
      <4>2. page \in SUBSET (0 .. clock)
        BY <4>1, Answers
      <4>3. clock \in Nat /\ \A t \in page : t \in Nat
        BY <4>2 DEF FeedTypeOK
      <4>4. page # {} => Max(page) \in page
        BY <4>2, <4>3, MaxOf
      <4> QED BY <4>3, <4>4, Zenon
    <3>3. \A s \in Subjects : s # r.subject => looked'[s] = looked[s]
      BY <2>1 DEF Backfill, FeedTypeOK
    <3>4. \/ NextSubject(r)
          \/ /\ page # {} /\ hand' = (hand \ {r}) \cup Record(r.subject, {Max(page)})
             /\ pc' = "mark"
      BY <2>1 DEF Backfill, latest_ts
    <3> HIDE DEF page
    <3> QED BY <3>1, <3>2, <3>3, <3>4 DEF NextSubject, Starting
  <2>2. CASE SubjectFails(r)
    BY <2>2 DEF SubjectFails, NextSubject, Starting, FeedTypeOK
  <2>3. CASE BackfillMark(r)
    BY <2>3 DEF BackfillMark, NextSubject, Starting
  <2> QED BY <2>1, <2>2, <2>3
<1>2. ASSUME NEW s \in Subjects, s # r.subject, NEW q \in hand, q.subject = s
      PROVE  ~(\A p \in hand' : p.subject = s => Marked(p)')
  <2>1. q \in hand' /\ r.subject < q.subject
    BY <1>1, <1>2, OneFirst
  <2>2. ~Marked(q)'
    <3>1. CASE pc' = "mark"
      <4>1. PICK t \in Nat : hand' = (hand \ {r}) \cup Record(r.subject, {t})
        BY <1>1, <3>1
      <4>2. Of(r.subject, t) \in hand' /\ Of(r.subject, t).subject = r.subject
        BY <4>1, Records DEF Of, FeedTypeOK
      <4>3. r.subject \in Nat /\ q.subject \in Nat
        BY FeedAssumption DEF FeedTypeOK
      <4> QED BY <2>1, <4>2, <4>3 DEF Marked, IsFirst
    <3>2. CASE pc' # "mark"
      BY <3>2 DEF Marked
    <3> QED BY <3>1, <3>2
  <2> QED BY <1>2, <2>1, <2>2
<1>3. ASSUME NEW s \in Subjects, \A q \in hand' : q.subject = s => Marked(q)'
      PROVE  Known(s, Covered)'
  <2>1. CASE s = r.subject /\ (Backfill(r) \/ SubjectFails(r))
    BY <2>1, AskedIsKnown
  <2>2. CASE s # r.subject \/ BackfillMark(r)
    <3>1. Known(s, Covered)
      <4>1. \A q \in hand : q.subject = s => Marked(q)
        <5>1. CASE s # r.subject
          BY <1>2, <1>3, <5>1
        <5>2. CASE s = r.subject /\ BackfillMark(r)
          <6>1. Marked(r)
            BY <5>2 DEF BackfillMark, Marked
          <6> QED BY <5>2, <6>1 DEF HandInv
        <5> QED BY <2>2, <5>1, <5>2
      <4> QED BY <1>1, <4>1 DEF StartInv
    <3>2. looked'[s] = looked[s]
      BY <1>1, <2>2 DEF BackfillMark
    <3> QED BY <3>1, <3>2, Grows, KnownKept DEF Known
  <2> QED BY <2>1, <2>2
<1> QED BY <1>1, <1>3 DEF StartInv

LEMMA StartKept ==
  ASSUME FeedInv, [Next]_vars
  PROVE  StartInv'
<1> USE DEF FeedInv, outside, reader
<1>1. CASE UNCHANGED <<pc, session, hand, seen, looked>>
  <2> SUFFICES ASSUME Starting PROVE StartInv'
    BY <1>1 DEF StartInv, Starting
  <2>1. ASSUME NEW s \in Subjects, \A r \in hand' : r.subject = s => Marked(r)'
        PROVE  Known(s, Covered)'
    <3>1. \A r \in hand : r.subject = s => Marked(r)
      BY <1>1, <2>1 DEF Marked, IsFirst
    <3>2. Known(s, Covered)
      BY <3>1 DEF StartInv
    <3> QED BY <1>1, <3>2, Grows, KnownKept DEF Known
  <2> QED BY <1>1, <2>1 DEF StartInv
<1>2. CASE Start
  <2>1. ASSUME NEW s \in Subjects
        PROVE  \E r \in hand' : r.subject = s /\ ~Marked(r)'
    <3>1. clock \in Nat
      BY DEF FeedTypeOK
    <3>2. Of(s, clock) \in hand' /\ Of(s, clock).subject = s
      BY <1>2, <3>1, Records DEF Start, Of
    <3> QED BY <1>2, <3>2 DEF Start, Marked
  <2>2. session' = "ok" /\ seen' = Nothing
    BY <1>2 DEF Start
  <2> QED BY <2>1, <2>2 DEF StartInv, Nothing
<1>3. ASSUME NEW r \in hand, Backfill(r) \/ SubjectFails(r) \/ BackfillMark(r)
      PROVE  StartInv'
  BY <1>3, StartStep DEF StartInv, Nothing
<1>4. CASE ~Starting'
  BY <1>4 DEF StartInv
<1>5. ASSUME NEW r \in hand, AppendRecord(r) \/ Advance(r) \/ SinkFails(r)
      PROVE  ~Starting'
  BY <1>5 DEF AppendRecord, Advance, SinkFails, EndIfDone, Starting
<1>6. ASSUME NEW S \in SUBSET Subjects, Poll(S) PROVE ~Starting'
  BY <1>6 DEF Poll, EndIfDone, Starting
<1>7. CASE Crash \/ PollRaises \/ PruneFails
  BY <1>4, <1>7 DEF Crash, PollRaises, PruneFails, Starting
<1> QED BY <1>1, <1>2, <1>3, <1>4, <1>5, <1>6, <1>7, Steps
     DEF Step, Publish, prune_before, fetch_window, vars

LEMMA ListenKept ==
  ASSUME FeedInv, [Next]_vars
  PROVE  ListenInv'
<1> DEFINE Told ==
             \A s \in Subjects :
               /\ Known(s, Covered \cup hand)
               /\ seen[s] # 0 => Of(s, seen[s]) \in Covered
<1> USE DEF FeedInv, outside, reader
<1>1. ASSUME Listening, session = "ok" PROVE Told
  BY <1>1 DEF ListenInv
<1>2. ASSUME Listening, session = "ok", UNCHANGED <<looked, seen>>,
             hand \subseteq hand' \cup Covered'
      PROVE  Told'
  <2>1. ASSUME NEW s \in Subjects PROVE Known(s, Covered \cup hand)'
    <3>1. Known(s, Covered \cup hand)
      BY <1>1, <1>2
    <3>2. Covered \cup hand \subseteq (Covered \cup hand)'
      BY <1>2, Grows
    <3> QED BY <1>2, <3>1, <3>2, KnownKept DEF Known
  <2> QED BY <1>1, <1>2, <2>1, Grows
<1>3. ASSUME UNCHANGED <<pc, session, hand, seen, looked>> PROVE ListenInv'
  BY <1>2, <1>3 DEF ListenInv, Listening
<1>4. ASSUME NEW r \in hand, Backfill(r) \/ SubjectFails(r) \/ BackfillMark(r)
      PROVE  ListenInv'
  <2>1. pc' = "poll" => hand' = {}
    BY <1>4 DEF Backfill, SubjectFails, BackfillMark, NextSubject
  <2>2. pc' \in {"backfill", "mark", "poll"}
    BY <1>4 DEF Backfill, SubjectFails, BackfillMark, NextSubject
  <2>3. ASSUME hand' = {} PROVE Told'
    <3>1. seen' = Nothing /\ \A s \in Subjects : Known(s, Covered)'
      BY <1>4, <2>3, StartStep
    <3> QED BY <2>3, <3>1 DEF Known, Nothing
  <2> QED BY <2>1, <2>2, <2>3 DEF ListenInv, Listening
<1>5. ASSUME NEW S \in SUBSET Subjects, Poll(S) PROVE ListenInv'
  <2>1. pc = "poll" /\ UNCHANGED <<session, seen>> /\ pc' \in {"poll", "sink"} /\ hand = {}
    BY <1>5 DEF Poll, EndIfDone, HandInv
  <2>2. ASSUME session = "ok" PROVE Told'
    <3>1. ASSUME NEW s \in S PROVE Known(s, Covered \cup hand)'
      BY <1>5, <2>2, PolledIsKnown
    <3>2. ASSUME NEW s \in Subjects \ S PROVE Known(s, Covered \cup hand)'
      <4>1. Known(s, Covered \cup hand) /\ looked'[s] = looked[s]
        BY <1>1, <1>5, <2>1, <2>2 DEF Poll, Listening
      <4>2. Covered \cup hand \subseteq (Covered \cup hand)'
        BY <2>1, Grows
      <4> QED BY <4>1, <4>2, KnownKept DEF Known
    <3>3. \A s \in Subjects : seen'[s] # 0 => Of(s, seen'[s]) \in Covered'
      BY <1>1, <2>1, <2>2, Grows DEF Listening
    <3> QED BY <3>1, <3>2, <3>3
  <2> QED BY <2>1, <2>2 DEF ListenInv
<1>6. ASSUME NEW r \in hand, AppendRecord(r) PROVE ListenInv'
  <2>1. /\ Listening /\ session = "ok" /\ session' = "ok" /\ UNCHANGED <<looked, hand>>
        /\ seen' = [seen EXCEPT ![r.subject] = r.at] /\ r \in stored'
    BY <1>6 DEF AppendRecord, Listening
  <2>2. ASSUME NEW s \in Subjects PROVE Known(s, Covered \cup hand)'
    <3>1. Known(s, Covered \cup hand)
      BY <1>1, <2>1
    <3>2. Covered \cup hand \subseteq (Covered \cup hand)'
      BY <2>1, Grows
    <3> QED BY <2>1, <3>1, <3>2, KnownKept DEF Known
  <2>3. ASSUME NEW s \in Subjects, seen'[s] # 0 PROVE Of(s, seen'[s]) \in Covered'
    <3>1. CASE s = r.subject
      <4>1. r = Of(s, seen'[s])
        BY <2>1, <3>1, RecordIs DEF FeedTypeOK
      <4> QED BY <2>1, <4>1 DEF Covered
    <3>2. CASE s # r.subject
      <4>1. seen'[s] = seen[s]
        BY <2>1, <3>2 DEF FeedTypeOK
      <4> QED BY <1>1, <2>1, <2>3, <4>1, Grows
    <3> QED BY <3>1, <3>2
  <2> QED BY <2>1, <2>2, <2>3 DEF ListenInv
<1>7. ASSUME NEW r \in hand, Advance(r) PROVE ListenInv'
  <2>1. /\ pc = "advance" /\ IsFirst(r) /\ hand' = hand \ {r}
        /\ UNCHANGED <<session, looked, seen>> /\ pc' \in {"poll", "sink"}
    BY <1>7 DEF Advance, EndIfDone
  <2>2. session = "ok" /\ Listening
    BY <2>1 DEF ListenInv, Listening
  <2>3. r \in Covered'
    BY <2>1, Grows DEF HandInv, Covered
  <2>4. Told'
    BY <1>2, <2>1, <2>2, <2>3
  <2> QED BY <2>1, <2>4 DEF ListenInv
<1>8. ASSUME NEW r \in hand, SinkFails(r) PROVE ListenInv'
  BY <1>8 DEF ListenInv, SinkFails, EndIfDone
<1>9. CASE Start \/ Crash
  BY <1>9 DEF ListenInv, Listening, Start, Crash
<1>10. CASE PollRaises
  <2>1. /\ pc = "poll" /\ pc' \in {"poll", "dead"}
        /\ UNCHANGED <<session, hand, looked, seen>>
    BY <1>10 DEF PollRaises
  <2> QED BY <1>2, <2>1 DEF ListenInv, Listening
<1>11. CASE PruneFails
  BY <1>11 DEF ListenInv, PruneFails
<1> QED BY <1>3, <1>4, <1>5, <1>6, <1>7, <1>8, <1>9, <1>10, <1>11, Steps
     DEF Step, Publish, prune_before, fetch_window, vars

LEMMA HolesKept ==
  ASSUME FeedInv, [Next]_vars
  PROVE  HolesExplained'
<1> USE DEF FeedInv
<1>1. \A s \in Subjects : \A u \in published[s] :
        /\ Stamp(u) < watermark[s] => Of(s, Stamp(u)) \in Covered
        /\ u \in Nat /\ Stamp(u) \in Nat
  BY Holes, Stamps DEF FeedTypeOK
<1>2. provider' = provider /\ Covered \subseteq Covered' /\ \A u : Stamp(u)' = Stamp(u)
  <2>1. provider' = provider /\ Covered \subseteq Covered'
    BY Grows
  <2> QED BY <2>1 DEF Stamp
<1> SUFFICES ASSUME NEW s \in Subjects, NEW u \in published'[s], Stamp(u) < watermark'[s]
             PROVE  Of(s, Stamp(u)) \in Covered'
  <2>1. ASSUME NEW q \in Subjects,
               NEW t \in {t \in {Stamp(v)' : v \in published'[q]} : t < watermark'[q]}
        PROVE  Of(q, t) \in Covered'
    <3>1. PICK v \in published'[q] : t = Stamp(v) /\ Stamp(v) < watermark'[q]
      BY <1>2
    <3> QED BY <3>1
  <2>2. \A q, T, K : (\A t \in T : Of(q, t) \in K) => Record(q, T) \subseteq K
    BY DEF Record, Of
  <2> QED BY <2>1, <2>2 DEF HolesExplained, Covered
<1>3. /\ u \in Nat /\ Stamp(u) \in Nat /\ watermark[s] \in Nat
      /\ looked[s] \in Nat /\ looked[s] <= clock /\ clock \in Nat
  BY TypeKept, Stamps DEF FeedTypeOK
<1>4. CASE UNCHANGED watermark
  <2>1. u \in published[s]
    <3> SUFFICES ASSUME clock < u PROVE FALSE
      BY Grows
    <3>1. watermark[s] <= Stamp(u)
      BY <1>3 DEF MarkInv, LookedPast
    <3> QED BY <1>3, <1>4, <3>1
  <2> QED BY <1>1, <1>2, <1>4, <2>1
<1>5. ASSUME NEW r \in hand, BackfillMark(r) \/ Advance(r) PROVE Of(s, Stamp(u)) \in Covered'
  <2>1. /\ IsFirst(r) /\ pc \in {"mark", "advance"} /\ (pc = "mark" <=> BackfillMark(r))
        /\ watermark' = [watermark EXCEPT ![r.subject] = r.at] /\ published' = published
    BY <1>5 DEF BackfillMark, Advance, outside
  <2>2. r.subject \in Subjects /\ r.at \in Nat
    BY DEF FeedTypeOK
  <2>3. CASE s # r.subject
    BY <1>1, <1>2, <2>1, <2>3 DEF FeedTypeOK
  <2>4. CASE s = r.subject
    <3>1. Stamp(u) < r.at
      BY <2>1, <2>4 DEF FeedTypeOK
    <3>2. LookedPast(s, r.at)
      BY <2>1, <2>4 DEF HandInv, Marked, Listening
    <3>3. u <= looked[s]
      BY <1>3, <2>2, <3>1, <3>2 DEF LookedPast
    <3>4. Known(s, Covered \cup hand)
      <4>1. CASE pc = "mark"
        <5>1. \A q \in hand : q.subject = s => Marked(q)
          BY <2>1, <2>4, <4>1 DEF HandInv, Marked
        <5> QED BY <4>1, <5>1 DEF StartInv, Starting, Known
      <4>2. CASE pc = "advance"
        BY <4>2 DEF ListenInv, Listening
      <4> QED BY <2>1, <4>1, <4>2
    <3>5. Of(s, Stamp(u)) \in Covered \cup hand
      BY <2>1, <3>3, <3>4 DEF Known
    <3>6. Of(s, Stamp(u)) \notin hand
      <4>1. Of(s, Stamp(u)).subject = s /\ Of(s, Stamp(u)).at = Stamp(u)
        BY DEF Of
      <4>2. ASSUME Of(s, Stamp(u)) \in hand PROVE FALSE
        <5>1. Of(s, Stamp(u)) = r
          BY <2>4, <4>1, <4>2 DEF HandInv
        <5> QED BY <1>3, <2>2, <3>1, <4>1, <5>1
      <4> QED BY <4>2
    <3> QED BY <1>2, <3>5, <3>6
  <2> QED BY <2>3, <2>4
<1> QED BY <1>4, <1>5, Steps
     DEF Step, Publish, Poll, Start, Crash, PollRaises, PruneFails, prune_before, Backfill,
         SubjectFails, AppendRecord, SinkFails, fetch_window, vars

LEMMA MarksKept ==
  ASSUME FeedInv, [Next]_vars
  PROVE  MarkInv'
<1> DEFINE Shown(s) == \/ watermark[s] = 0 \/ watermark[s] < clock - Ttl
                       \/ Of(s, watermark[s]) \in stored
<1> USE DEF FeedInv, outside, reader
<1>0. \A s \in Subjects :
        /\ watermark[s] \in Nat /\ seen[s] \in Nat
        /\ LookedPast(s, watermark[s]) /\ LookedPast(s, seen[s]) /\ Shown(s)
  BY DEF MarkInv, FeedTypeOK
<1>1. clock \in Nat /\ clock' \in Nat /\ clock <= clock'
  <2>1. clock \in Nat
    BY DEF FeedTypeOK
  <2>2. clock' = clock \/ clock' = clock + 1
    BY Steps
    DEF Step, Publish, Poll, Start, Crash, PollRaises, PruneFails, prune_before, Backfill,
        SubjectFails, BackfillMark, Advance, AppendRecord, SinkFails, fetch_window, vars
  <2> QED BY <2>1, <2>2
<1>2. ASSUME NEW r \in hand, Marked(r) \/ Listening
      PROVE  LookedPast(r.subject, r.at)'
  <2>1. LookedPast(r.subject, r.at) /\ r.subject \in Subjects /\ r.at \in Nat
    BY <1>2 DEF HandInv, FeedTypeOK
  <2> QED BY <2>1, BehindStays
<1>3. ASSUME NEW s \in Subjects PROVE LookedPast(s, watermark[s])'
  <2>1. CASE watermark'[s] = watermark[s]
    <3>1. PICK a \in Nat : a = watermark[s] /\ LookedPast(s, a)
      BY <1>0
    <3>2. LookedPast(s, a)'
      BY <3>1, BehindStays
    <3> QED BY <2>1, <3>1, <3>2
  <2>2. ASSUME NEW r \in hand, BackfillMark(r) \/ Advance(r)
        PROVE  watermark'[s] = watermark[s] \/ LookedPast(s, watermark[s])'
    <3>1. /\ watermark' = [watermark EXCEPT ![r.subject] = r.at]
          /\ Marked(r) \/ Listening
      BY <2>2 DEF BackfillMark, Advance, Marked, Listening
    <3> QED BY <1>2, <3>1 DEF FeedTypeOK
  <2> QED BY <2>1, <2>2, Steps
       DEF Step, Publish, Poll, Start, Crash, PollRaises, PruneFails, prune_before, Backfill,
           SubjectFails, AppendRecord, SinkFails, fetch_window, vars
<1>4. ASSUME NEW s \in Subjects PROVE LookedPast(s, seen[s])'
  <2>1. CASE seen'[s] = seen[s]
    <3>1. PICK a \in Nat : a = seen[s] /\ LookedPast(s, a)
      BY <1>0
    <3>2. LookedPast(s, a)'
      BY <3>1, BehindStays
    <3> QED BY <2>1, <3>1, <3>2
  <2>2. ASSUME NEW r \in hand, AppendRecord(r) \/ SinkFails(r)
        PROVE  seen'[s] = seen[s] \/ LookedPast(s, seen[s])'
    <3>1. seen' = [seen EXCEPT ![r.subject] = r.at] /\ Listening
      BY <2>2 DEF AppendRecord, SinkFails, Listening
    <3> QED BY <1>2, <3>1 DEF FeedTypeOK
  <2>3. CASE Start
    <3>1. seen'[s] = 0 /\ provider' = provider
      BY <2>3 DEF Start, Nothing
    <3>2. \A u \in Nat : 0 <= Stamp(u) /\ Stamp(u)' = Stamp(u)
      BY <3>1, Stamps DEF Stamp
    <3> QED BY <3>1, <3>2 DEF LookedPast
  <2> QED BY <2>1, <2>2, <2>3, Steps
       DEF Step, Publish, Poll, Crash, PollRaises, PruneFails, prune_before, Backfill,
           BackfillMark, Advance, SubjectFails, fetch_window, vars
<1>5. ASSUME NEW s \in Subjects PROVE Shown(s)'
  <2>1. CASE UNCHANGED watermark /\ stored \subseteq stored'
    BY <1>0, <1>1, <2>1, FeedAssumption
  <2>2. CASE prune_before(clock - Ttl)
    <3>1. /\ UNCHANGED <<watermark, clock>>
          /\ stored' = {r \in stored : r.at >= clock - Ttl}
      BY <2>2 DEF prune_before
    <3>2. ASSUME Of(s, watermark[s]) \in stored, ~(watermark[s] < clock - Ttl)
          PROVE  Of(s, watermark[s]) \in stored'
      <4>1. watermark[s] >= clock - Ttl
        BY <1>0, <1>1, <3>2, FeedAssumption
      <4> QED BY <3>1, <3>2, <4>1 DEF Of
    <3> QED BY <1>0, <3>1, <3>2
  <2>3. ASSUME NEW r \in hand, BackfillMark(r) \/ Advance(r) PROVE Shown(s)'
    <3>1. /\ watermark' = [watermark EXCEPT ![r.subject] = r.at]
          /\ UNCHANGED <<clock, stored>> /\ r \in stored
      BY <2>3 DEF BackfillMark, Advance, Marked, HandInv
    <3>2. CASE s = r.subject
      <4>1. r = Of(s, watermark'[s])
        BY <3>1, <3>2, RecordIs DEF FeedTypeOK
      <4> QED BY <3>1, <4>1
    <3>3. CASE s # r.subject
      BY <1>0, <3>1, <3>3 DEF FeedTypeOK
    <3> QED BY <3>2, <3>3
  <2> QED BY <2>1, <2>2, <2>3, Steps
       DEF Step, Publish, Poll, Start, Crash, PollRaises, PruneFails, Backfill,
           SubjectFails, AppendRecord, SinkFails, fetch_window, vars
<1> QED BY <1>3, <1>4, <1>5 DEF MarkInv

-----------------------------------------------------------------------------
(* Theorems *)

LEMMA FeedInvInductive ==
  /\ Init => FeedInv
  /\ FeedInv /\ [Next]_vars => FeedInv'
<1>1. ASSUME Init PROVE FeedInv
  <2>1. /\ hand = {} /\ pc = "down" /\ \A s \in Subjects : watermark[s] = 0 /\ seen[s] = 0
        /\ \A s \in Subjects : published[s] = {}
    BY <1>1 DEF Init, Nothing
  <2>2. \A u \in Nat : 0 <= Stamp(u)
    BY Stamps
  <2> QED BY <1>1, <2>1, <2>2, InitialType, Holes
       DEF FeedInv, HandInv, StartInv, ListenInv, MarkInv, LookedPast, Starting, Listening
<1>2. ASSUME FeedInv, [Next]_vars PROVE FeedInv'
  BY <1>2, TypeKept, HandKept, StartKept, ListenKept, MarksKept, HolesKept DEF FeedInv
<1> QED BY <1>1, <1>2

LEMMA FeedInvariant == Spec => []FeedInv
<1>1. Init => FeedInv
  BY FeedInvInductive
<1>2. FeedInv /\ [Next]_vars => FeedInv'
  BY FeedInvInductive
<1> QED BY <1>1, <1>2, PTL DEF Spec

(* Every reachable state of the feed service, its tables and the reader has *)
(* the declared shape, with nothing stored or in hand ahead of the clock.   *)
THEOREM AlwaysTyped == Spec => []FeedTypeOK
<1>1. FeedInv => FeedTypeOK
  BY DEF FeedInv
<1> QED BY <1>1, FeedInvariant, PTL

(* FeedDataService: whatever calls fail and whenever the service crashes, a *)
(* record before a subject's watermark is in the store, or was passed over  *)
(* by an answer or by the retention.                                        *)
THEOREM NoUnexplainedHole == Spec => []HolesExplained
<1>1. FeedInv => HolesExplained
  BY DEF FeedInv
<1> QED BY <1>1, FeedInvariant, PTL

(* list_indexed_feeds: no feed is shown with a watermark past its newest    *)
(* record, but one whose retention is over.                                 *)
THEOREM FeedsShownWell == Spec => []FeedsShown
<1>1. ASSUME FeedInv PROVE FeedsShown
  <2> USE <1>1 DEF FeedInv
  <2> SUFFICES ASSUME NEW row \in list_indexed_feeds
               PROVE  row.watermark <= row.newest \/ row.watermark < clock - Ttl
    BY DEF FeedsShown
  <2> DEFINE At(s) == {r.at : r \in {q \in stored : q.subject = s}}
  <2>0. PICK s \in {r.subject : r \in stored} :
          row = [subject |-> s, record_count |-> Cardinality(At(s)), oldest |-> Min(At(s)),
                 newest |-> Max(At(s)), watermark |-> watermark[s]]
    BY Zenon DEF list_indexed_feeds
  <2> DEFINE times == At(s)
  <2>1. row.watermark = watermark[s] /\ row.newest = Max(times)
    <3> HIDE DEF At
    <3> QED BY <2>0
  <2>2. s \in Subjects /\ watermark[s] \in Nat /\ clock \in Nat
    BY <2>1 DEF FeedTypeOK
  <2>3. times # {} /\ times \in SUBSET (0 .. clock)
    <3>1. times # {}
      BY <2>1
    <3>2. \A r \in stored : r.at \in 0 .. clock
      BY <2>2 DEF FeedTypeOK
    <3> QED BY <3>1, <3>2
  <2>4. Max(times) \in times /\ \A t \in times : t <= Max(times)
    BY <2>2, <2>3, MaxOf
  <2>5. Max(times) \in Nat
    BY <2>2, <2>3, <2>4
  <2>6. CASE watermark[s] = 0
    BY <2>1, <2>5, <2>6
  <2>7. CASE Of(s, watermark[s]) \in stored
    <3>1. watermark[s] \in times
      BY <2>7 DEF Of
    <3> QED BY <2>1, <2>4, <3>1
  <2>8. CASE watermark[s] < clock - Ttl
    BY <2>1, <2>8
  <2> QED BY <2>2, <2>6, <2>7, <2>8 DEF MarkInv
<1> QED BY <1>1, FeedInvariant, PTL

(* The watermarks of the feed service, as restart and index read them: what *)
(* lies before one is stored or has its reason, and what is stored reaches  *)
(* it (feed_data.py:124).                                                   *)
THEOREM WatermarksAlwaysTell == Spec => []WatermarksTell
BY NoUnexplainedHole, FeedsShownWell, PTL DEF WatermarksTell

-----------------------------------------------------------------------------
(* MongoDB.                                                                 *)
(*                                                                         *)
(* The argument for the poll.  What is past the watermark has not gone to   *)
(* the sink, what is behind it has, unless it came late, and of its own     *)
(* time exactly what is remembered.  A batch in hand has no gap: a document *)
(* with an earlier time than one of it is in it too or has gone.  What is   *)
(* remembered or in hand is among the first of its time, as many as the     *)
(* greatest batch takes, so that the set never fills and $gt is never used. *)

BatchType ==
  [watermark : Nat, seen : SUBSET Docs, limit : 0 .. MaxBatch, forceGt : BOOLEAN,
   before : Nat, docs : SUBSET Docs, size : Nat, fresh : Nat]

(* Documents have their times and counts, and whatever refers to a document *)
(* refers to one that is there.                                             *)
MongoTypeOK ==
  /\ collection \in Seq(Times) /\ delivered \in Seq(0 .. 2)
  /\ Len(delivered) = Len(collection)
  /\ batch \in BatchType
  /\ {queue, events, lost, late} \subseteq SUBSET Docs
  /\ mode = "poll" => mongoPc \notin {"start", "consume"}
  /\ mode # "poll" => mongoPc \notin {"find", "docs"}

(* Documents past the watermark, at it, and behind it. *)
Sides(d) ==
  /\ collection[d] > batch.watermark => delivered[d] = 0
  /\ collection[d] = batch.watermark /\ batch.watermark # 0 =>
       delivered[d] = IF d \in batch.seen THEN 1 ELSE 0
  /\ 0 < collection[d] /\ collection[d] < batch.watermark =>
       delivered[d] <= 1 /\ (d \in late \/ delivered[d] = 1)

(* A batch in hand has no gap. *)
NoGap ==
  \A h \in batch.docs :
    /\ collection[h] >= batch.watermark
    /\ \A d \in Docs \ late :
         0 < collection[d] /\ collection[d] < collection[h] =>
           d \in batch.docs \/ delivered[d] > 0

Peers(d) == {e \in 1 .. d : collection[e] = collection[d]}

(* The set never fills. *)
FirstOfTheirTime ==
  /\ ~batch.forceGt
  /\ \A d \in batch.seen : collection[d] = batch.watermark /\ collection[d] # 0
  /\ \A d \in batch.docs \cup batch.seen : Cardinality(Peers(d)) <= MaxBatch

PollInv ==
  mode = "poll" => (\A d \in Docs : Sides(d)) /\ NoGap /\ FirstOfTheirTime

(* A document is in one place. *)
Placed(d) ==
  /\ delivered[d] <= 1
  /\ (delivered[d] = 0) = (d \in lost \cup events \cup queue)
  /\ d \in lost => d \notin events \cup queue
  /\ d \in events => d \notin queue

StreamInv == mode # "poll" => \A d \in Docs : Placed(d)

MongoInv == MongoTypeOK /\ PollInv /\ StreamInv

-----------------------------------------------------------------------------
LEMMA AppendOne ==
  ASSUME NEW S, NEW s \in Seq(S), NEW x \in S
  PROVE  /\ Append(s, x) \in Seq(S) /\ Len(Append(s, x)) = Len(s) + 1
         /\ DOMAIN Append(s, x) = DOMAIN s \cup {Len(s) + 1}
         /\ \A i \in DOMAIN s : Append(s, x)[i] = s[i] /\ i # Len(s) + 1
         /\ Append(s, x)[Len(s) + 1] = x
  OBVIOUS

(* The documents are numbers, each with a time and a count. *)
LEMMA DocsAre ==
  ASSUME MongoTypeOK
  PROVE  /\ Len(collection) \in Nat /\ Docs = 1 .. Len(collection)
         /\ DOMAIN delivered = Docs /\ Docs \subseteq Nat /\ IsFiniteSet(Docs)
         /\ \A d \in Docs : collection[d] \in Nat /\ delivered[d] \in 0 .. 2
<1>1. Len(collection) \in Nat /\ Docs = 1 .. Len(collection) /\ DOMAIN delivered = Docs
  BY DEF MongoTypeOK, Docs
<1>2. \A d \in Docs : collection[d] \in Times /\ delivered[d] \in 0 .. 2
  BY <1>1 DEF MongoTypeOK, Docs
<1>3. IsFiniteSet(Docs)
  BY <1>1, FS_Interval
<1>4. Docs \subseteq Nat
  BY <1>1
<1>5. \A d \in Docs : collection[d] \in Nat /\ delivered[d] \in 0 .. 2
  BY <1>2, MongoAssumption
<1> QED BY <1>1, <1>3, <1>4, <1>5

LEMMA MongoInitInv == ASSUME MongoInit PROVE MongoInv
<1>1. Docs = {} /\ Len(collection) = 0
  BY DEF MongoInit, Docs
<1>2. PICK start \in Lookbacks :
        batch = [watermark |-> start, seen |-> {}, limit |-> BaseBatch, forceGt |-> FALSE,
                 before |-> start, docs |-> {}, size |-> 0, fresh |-> 0]
  BY DEF MongoInit
<1>3. start \in Nat /\ BaseBatch \in 0 .. MaxBatch
  BY MongoAssumption
<1>4. batch \in BatchType
  BY <1>2, <1>3 DEF BatchType
<1>5. MongoTypeOK
  BY <1>1, <1>4 DEF MongoInit, MongoTypeOK
<1>6. PollInv
  BY <1>1, <1>2 DEF PollInv, NoGap, FirstOfTheirTime
<1>7. StreamInv
  BY <1>1 DEF StreamInv
<1> QED BY <1>5, <1>6, <1>7 DEF MongoInv

-----------------------------------------------------------------------------
(* An insert *)

LEMMA InsertGrows ==
  ASSUME MongoTypeOK, NEW t \in Times, Insert(t)
  PROVE  LET n == Len(collection) + 1
         IN  /\ Docs' = Docs \cup {n} /\ n \notin Docs /\ n \in Nat
             /\ collection'[n] = t /\ delivered'[n] = 0
             /\ \A d \in Docs : collection'[d] = collection[d] /\ delivered'[d] = delivered[d]
             /\ \A d \in Docs : Peers(d)' = Peers(d)
             /\ MongoTypeOK'
<1> DEFINE n == Len(collection) + 1
<1>1. Docs' = Docs \cup {n} /\ n \notin Docs /\ n \in Nat
      /\ collection' \in Seq(Times) /\ Len(collection') = n /\ collection'[n] = t
      /\ \A d \in Docs : collection'[d] = collection[d]
  BY AppendOne, DocsAre DEF Insert, MongoTypeOK, Docs
<1>2. delivered' \in Seq(0 .. 2) /\ Len(delivered') = n /\ delivered'[n] = 0
      /\ \A d \in Docs : delivered'[d] = delivered[d]
  <2>1. delivered \in Seq(0 .. 2) /\ 0 \in 0 .. 2 /\ Len(delivered) = Len(collection)
        /\ delivered' = Append(delivered, 0)
    BY DEF Insert, MongoTypeOK
  <2> QED BY <2>1, AppendOne, DocsAre
<1>3. \A d \in Docs : Peers(d)' = Peers(d)
  <2> SUFFICES ASSUME NEW d \in Docs PROVE Peers(d)' = Peers(d)
    OBVIOUS
  <2>1. 1 .. d \subseteq Docs
    BY DocsAre
  <2> QED BY <2>1, <1>1 DEF Peers
<1>4. MongoTypeOK'
  <2>1. batch' \in BatchType'
    BY <1>1 DEF MongoTypeOK, BatchType, Insert
  <2>2. {queue, events, lost, late}' \subseteq SUBSET Docs'
    BY <1>1 DEF MongoTypeOK, Insert
  <2> QED BY <1>1, <1>2, <2>1, <2>2 DEF MongoTypeOK, Insert
<1> QED BY <1>1, <1>2, <1>3, <1>4

LEMMA InsertInv ==
  ASSUME MongoInv, NEW t \in Times, Insert(t)
  PROVE  MongoInv'
<1>0. PICK n : n = Len(collection) + 1
  OBVIOUS
<1>1. /\ Docs' = Docs \cup {n} /\ n \notin Docs /\ n \in Nat /\ MongoTypeOK'
      /\ collection'[n] = t /\ delivered'[n] = 0
      /\ \A d \in Docs : collection'[d] = collection[d] /\ delivered'[d] = delivered[d]
      /\ \A d \in Docs : Peers(d)' = Peers(d)
  BY <1>0, InsertGrows DEF MongoInv
<1>2. mode' = mode /\ batch' = batch /\ t \in Nat /\ batch \in BatchType
  BY MongoAssumption DEF Insert, MongoInv, MongoTypeOK
<1>3. CASE mode = "poll"
  <2>1. late' = IF IsLate(t) THEN late \cup {n} ELSE late
    BY <1>0, <1>3 DEF Insert
  <2>2. \A d \in Docs : Sides(d)'
    BY <1>1, <1>2, <1>3, <2>1 DEF MongoInv, PollInv, Sides
  <2>3. Sides(n)'
    BY <1>1, <1>2, <1>3, <2>1 DEF Sides, IsLate, MongoInv, PollInv, FirstOfTheirTime, BatchType
  <2>4. NoGap'
    <3> SUFFICES ASSUME NEW h \in batch.docs
                 PROVE  /\ collection'[h] >= batch.watermark
                        /\ \A d \in Docs' \ late' :
                             0 < collection'[d] /\ collection'[d] < collection'[h] =>
                               d \in batch.docs \/ delivered'[d] > 0
      BY <1>2 DEF NoGap
    <3>1. h \in Docs
      BY <1>2 DEF BatchType
    <3>2. collection'[h] >= batch.watermark
      BY <3>1, <1>1, <1>3 DEF MongoInv, PollInv, NoGap
    <3>3. ASSUME NEW d \in Docs \ late, 0 < collection'[d], collection'[d] < collection'[h]
          PROVE  d \in batch.docs \/ delivered'[d] > 0
      BY <3>1, <3>3, <1>1, <1>3 DEF MongoInv, PollInv, NoGap
    <3>4. t < collection'[h] => n \in late'
      BY <3>1, <1>1, <2>1 DEF IsLate
    <3> QED BY <3>2, <3>3, <3>4, <1>1, <2>1
  <2>5. FirstOfTheirTime'
    <3>1. batch.docs \subseteq Docs /\ batch.seen \subseteq Docs
      BY <1>2 DEF BatchType
    <3>2. /\ ~batch.forceGt
          /\ \A d \in batch.seen : collection'[d] = batch.watermark /\ collection'[d] # 0
      BY <3>1, <1>1, <1>3 DEF MongoInv, PollInv, FirstOfTheirTime
    <3>3. \A d \in batch.docs \cup batch.seen : Cardinality(Peers(d)') <= MaxBatch
      BY <3>1, <1>1, <1>3 DEF MongoInv, PollInv, FirstOfTheirTime
    <3> QED BY <3>2, <3>3, <1>2 DEF FirstOfTheirTime
  <2> QED BY <1>1, <1>2, <1>3, <2>2, <2>3, <2>4, <2>5 DEF MongoInv, PollInv, StreamInv
<1>4. CASE mode # "poll"
  <2>1. /\ queue' = queue
        /\ \/ events' = events \cup {n} /\ lost' = lost
           \/ lost' = lost \cup {n} /\ events' = events
    BY <1>0, <1>4 DEF Insert
  <2>2. queue \subseteq Docs /\ events \subseteq Docs /\ lost \subseteq Docs
    BY DEF MongoInv, MongoTypeOK
  <2>3. \A d \in Docs : Placed(d)'
    BY <1>1, <1>4, <2>1 DEF MongoInv, StreamInv, Placed
  <2>4. Placed(n)'
    BY <1>1, <2>1, <2>2 DEF Placed
  <2> QED BY <1>1, <1>2, <1>4, <2>3, <2>4 DEF MongoInv, PollInv, StreamInv
<1> QED BY <1>3, <1>4

-----------------------------------------------------------------------------
(* The poll *)

(* The documents of one time up to one of them are finitely many. *)
LEMMA PeersFinite ==
  ASSUME NEW d \in Nat
  PROVE  IsFiniteSet(Peers(d)) /\ Cardinality(Peers(d)) \in Nat
<1>1. IsFiniteSet(1 .. d) /\ Peers(d) \subseteq 1 .. d
  BY FS_Interval DEF Peers
<1> QED BY <1>1, FS_Subset, FS_CardinalityType

(* What is remembered never reaches the size at which $gt would be used. *)
LEMMA SeenFits ==
  ASSUME MongoInv, mode = "poll"
  PROVE  Cardinality(batch.seen) < MaxSeenIds
<1>1. batch.seen \subseteq Docs /\ Len(collection) \in Nat /\ Docs = 1 .. Len(collection)
  BY DocsAre DEF MongoInv, MongoTypeOK, BatchType
<1>2. FirstOfTheirTime
  BY DEF MongoInv, PollInv
<1>3. CASE batch.seen = {}
  BY <1>3, FS_EmptySet, MongoAssumption
<1>4. CASE batch.seen # {}
  <2>1. PICK m \in batch.seen : \A d \in batch.seen : d <= m
    <3>1. batch.seen \in SUBSET (0 .. Len(collection))
      BY <1>1
    <3> QED BY <1>1, <1>4, <3>1, MaxOf
  <2>2. batch.seen \subseteq Peers(m)
    BY <1>1, <1>2, <2>1 DEF FirstOfTheirTime, Peers
  <2>3. m \in Nat
    BY <1>1, <2>1
  <2>4. Cardinality(batch.seen) <= Cardinality(Peers(m)) /\ IsFiniteSet(batch.seen)
    BY <2>2, <2>3, PeersFinite, FS_Subset
  <2>5. Cardinality(Peers(m)) <= MaxBatch
    BY <1>2, <2>1 DEF FirstOfTheirTime
  <2>6. Cardinality(batch.seen) \in Nat /\ Cardinality(Peers(m)) \in Nat
    BY <2>3, <2>4, PeersFinite, FS_CardinalityType
  <2> QED BY <2>4, <2>5, <2>6, MongoAssumption
<1> QED BY <1>3, <1>4

(* A batch has the first of each of its times, and leaves out no earlier    *)
(* time.                                                                    *)
LEMMA BatchIs ==
  ASSUME MongoTypeOK
  PROVE  /\ Batch \subseteq Docs /\ Cardinality(Batch) \in Nat
         /\ \A d \in Batch : Found(d) /\ Cardinality(Peers(d)) <= MaxBatch
         /\ \A d \in Batch, e \in Docs :
              Found(e) /\ collection[e] < collection[d] => e \in Batch
<1> DEFINE hits == {d \in Docs : Found(d)}
           Up(d) == {e \in hits : ~Before(d, e)}
<1>1. Batch = {d \in hits : Cardinality(Up(d)) <= batch.limit}
  BY DEF Batch
<1>2. IsFiniteSet(hits) /\ hits \subseteq Docs /\ Docs = 1 .. Len(collection)
  BY DocsAre, FS_Subset
<1>3. \A d \in hits : IsFiniteSet(Up(d)) /\ Cardinality(Up(d)) \in Nat
  BY <1>2, FS_Subset, FS_CardinalityType
<1>4. batch.limit \in 0 .. MaxBatch
  BY DEF MongoTypeOK, BatchType
<1>5. Batch \subseteq Docs /\ Cardinality(Batch) \in Nat
  BY <1>1, <1>2, FS_Subset, FS_CardinalityType
<1>6. ASSUME NEW d \in Batch PROVE Found(d) /\ Cardinality(Peers(d)) <= MaxBatch
  <2>1. d \in hits /\ Cardinality(Up(d)) <= batch.limit
    BY <1>1
  <2>2. Peers(d) \subseteq Up(d)
    <3> SUFFICES ASSUME NEW e \in Peers(d) PROVE e \in hits /\ ~Before(d, e)
      OBVIOUS
    <3>1. e \in Docs /\ d \in Docs /\ e <= d /\ collection[e] = collection[d]
      BY <1>2, <2>1, DocsAre DEF Peers
    <3>2. Found(e)
      BY <2>1, <3>1 DEF Found
    <3> QED BY <3>1, <3>2, DocsAre DEF Before
  <2>3. Cardinality(Peers(d)) <= Cardinality(Up(d))
    BY <1>3, <2>1, <2>2, FS_Subset
  <2>4. Cardinality(Peers(d)) \in Nat /\ Cardinality(Up(d)) \in Nat
    BY <1>3, <2>1, PeersFinite, DocsAre
  <2> HIDE DEF Up
  <2> QED BY <1>4, <2>1, <2>3, <2>4, MongoAssumption
<1>7. ASSUME NEW d \in Batch, NEW e \in Docs, Found(e), collection[e] < collection[d]
      PROVE  e \in Batch
  <2>1. d \in hits /\ e \in hits /\ Cardinality(Up(d)) <= batch.limit
    BY <1>1, <1>7
  <2>2. Up(e) \subseteq Up(d)
    BY <1>7, <2>1, <1>2, DocsAre DEF Before
  <2>3. Cardinality(Up(e)) <= Cardinality(Up(d))
    BY <1>3, <2>1, <2>2, FS_Subset
  <2>4. Cardinality(Up(e)) \in Nat /\ Cardinality(Up(d)) \in Nat
    BY <1>3, <2>1
  <2>5. Cardinality(Up(e)) <= batch.limit
    <3> HIDE DEF Up
    <3> QED BY <2>1, <2>3, <2>4, <1>4
  <2> QED BY <2>1, <2>5, <1>1
<1> QED BY <1>5, <1>6, <1>7

(* A query: the batch in hand is the one it finds. *)
LEMMA FindInv ==
  ASSUME MongoInv, Find
  PROVE  MongoInv'
<1>1. /\ Batch \subseteq Docs /\ Cardinality(Batch) \in Nat
      /\ \A d \in Batch : Found(d) /\ Cardinality(Peers(d)) <= MaxBatch
      /\ \A d \in Batch, e \in Docs :
           Found(e) /\ collection[e] < collection[d] => e \in Batch
  BY BatchIs DEF MongoInv
<1>2. batch \in BatchType
  BY DEF MongoInv, MongoTypeOK
<1>3. mode = "poll" /\ PollInv
  BY DEF Find, MongoInv
<1>4. /\ batch' \in BatchType'
      /\ batch'.docs = Batch /\ batch'.watermark = batch.watermark
      /\ batch'.seen = batch.seen /\ batch'.forceGt = batch.forceGt
  BY <1>1, <1>2 DEF Find, BatchType, source, Docs
<1>5. collection' = collection /\ mode' = mode /\ delivered' = delivered /\ late' = late
      /\ events' = events /\ queue' = queue /\ lost' = lost /\ Docs' = Docs
  BY DEF Find, source, stream, Docs
<1>6. MongoTypeOK'
  BY <1>4, <1>5 DEF Find, MongoInv, MongoTypeOK
<1>7. \A d \in Docs : Sides(d)'
  BY <1>3, <1>4, <1>5 DEF PollInv, Sides
<1>8. NoGap'
  <2> SUFFICES ASSUME NEW h \in Batch
               PROVE  /\ collection[h] >= batch.watermark
                      /\ \A d \in Docs \ late :
                           0 < collection[d] /\ collection[d] < collection[h] =>
                             d \in Batch \/ delivered[d] > 0
    BY <1>4, <1>5, Zenon DEF NoGap
  <2>1. h \in Docs /\ Found(h)
    BY <1>1
  <2>2. ~batch.forceGt
    BY <1>3 DEF PollInv, FirstOfTheirTime
  <2>3. collection[h] >= batch.watermark
    BY <2>1, <2>2, DocsAre DEF Found, MongoInv
  <2>4. ASSUME NEW d \in Docs \ late, 0 < collection[d], collection[d] < collection[h]
        PROVE  d \in Batch \/ delivered[d] > 0
    <3>1. CASE Found(d)
      BY <1>1, <2>4, <3>1
    <3>2. CASE ~Found(d)
      <4>1. collection[d] < batch.watermark
        BY <2>2, <3>2, <1>2, DocsAre DEF Found, MongoInv, BatchType
      <4> QED BY <4>1, <2>4, <1>3 DEF PollInv, Sides
    <3> QED BY <3>1, <3>2
  <2> QED BY <2>3, <2>4
<1>9. FirstOfTheirTime'
  <2>1. \A d : Peers(d)' = Peers(d)
    BY <1>5 DEF Peers
  <2> QED BY <2>1, <1>1, <1>3, <1>4, <1>5 DEF PollInv, FirstOfTheirTime
<1> QED BY <1>3, <1>5, <1>6, <1>7, <1>8, <1>9 DEF MongoInv, PollInv, StreamInv

(* What stays the same while a document of the batch is handled. *)
LEMMA InPoll ==
  ASSUME MongoInv, mongoPc = "docs", UNCHANGED <<source, stream, late>>
  PROVE  /\ mode = "poll" /\ mode' = mode /\ PollInv
         /\ collection' = collection /\ Docs' = Docs /\ late' = late
         /\ events' = events /\ queue' = queue /\ lost' = lost
         /\ batch \in BatchType /\ BatchType' = BatchType
         /\ \A d : Peers(d)' = Peers(d)
         /\ \A d \in Docs : collection[d] \in Nat /\ delivered[d] \in 0 .. 2
<1>1. mode = "poll" /\ PollInv /\ batch \in BatchType
  BY DEF MongoInv, MongoTypeOK
<1>2. mode' = mode /\ collection' = collection /\ Docs' = Docs /\ late' = late
      /\ events' = events /\ queue' = queue /\ lost' = lost
  BY DEF source, stream, Docs
<1>3. BatchType' = BatchType
  BY <1>2 DEF BatchType
<1>4. \A d : Peers(d)' = Peers(d)
  BY <1>2 DEF Peers
<1> QED BY <1>1, <1>2, <1>3, <1>4, DocsAre DEF MongoInv

(* A document that was seen is put aside. *)
LEMMA SkipSeenInv ==
  ASSUME MongoInv, NEW d \in Docs, SkipSeen(d)
  PROVE  MongoInv'
<1>1. /\ mode = "poll" /\ mode' = mode /\ PollInv
      /\ collection' = collection /\ Docs' = Docs /\ late' = late
      /\ events' = events /\ queue' = queue /\ lost' = lost
      /\ batch \in BatchType /\ BatchType' = BatchType
      /\ \A e : Peers(e)' = Peers(e)
      /\ \A e \in Docs : collection[e] \in Nat /\ delivered[e] \in 0 .. 2
  BY InPoll DEF SkipSeen
<1>2. /\ batch' \in BatchType /\ batch'.docs = batch.docs \ {d}
      /\ batch'.watermark = batch.watermark
      /\ batch'.seen = batch.seen /\ batch'.forceGt = batch.forceGt
  BY <1>1 DEF SkipSeen, BatchType
<1>3. delivered' = delivered /\ mongoPc' = mongoPc /\ d \in batch.seen
  BY DEF SkipSeen
<1>4. MongoTypeOK'
  BY <1>1, <1>2, <1>3 DEF MongoInv, MongoTypeOK
<1>5. \A e \in Docs : Sides(e)'
  BY <1>1, <1>2, <1>3 DEF PollInv, Sides
<1>6. delivered[d] > 0
  BY <1>1, <1>3 DEF PollInv, Sides, FirstOfTheirTime
<1>7. NoGap'
  BY <1>1, <1>2, <1>3, <1>6 DEF PollInv, NoGap
<1>8. FirstOfTheirTime'
  BY <1>1, <1>2, <1>3 DEF PollInv, FirstOfTheirTime
<1> QED BY <1>1, <1>4, <1>5, <1>7, <1>8 DEF MongoInv, PollInv, StreamInv

(* The first document in hand goes to the sink, and the watermark to it. *)
LEMMA HandleDocInv ==
  ASSUME MongoInv, NEW d \in Docs, HandleDoc(d)
  PROVE  MongoInv'
<1>1. /\ mode = "poll" /\ mode' = mode /\ PollInv
      /\ collection' = collection /\ Docs' = Docs /\ late' = late
      /\ events' = events /\ queue' = queue /\ lost' = lost
      /\ batch \in BatchType /\ BatchType' = BatchType
      /\ \A e : Peers(e)' = Peers(e)
      /\ \A e \in Docs : collection[e] \in Nat /\ delivered[e] \in 0 .. 2
  BY InPoll DEF HandleDoc
<1>2. /\ mongoPc' = mongoPc /\ InHand(d) /\ d \notin batch.seen /\ d \in batch.docs
      /\ delivered' = [delivered EXCEPT ![d] = IF @ < 2 THEN @ + 1 ELSE @]
      /\ batch' = Advanced(d)
  BY DEF HandleDoc, Deliver, InHand
<1>3. /\ delivered \in Seq(0 .. 2) /\ delivered \in [Docs -> 0 .. 2]
      /\ Len(delivered) = Len(collection) /\ Docs = 1 .. Len(collection)
  BY DocsAre DEF MongoInv, MongoTypeOK
<1>4. /\ delivered' \in Seq(0 .. 2) /\ Len(delivered') = Len(collection)
      /\ delivered'[d] = IF delivered[d] < 2 THEN delivered[d] + 1 ELSE delivered[d]
      /\ \A e \in Docs : e # d => delivered'[e] = delivered[e]
  BY <1>2, <1>3
<1>5. /\ batch' \in BatchType /\ batch'.docs = batch.docs \ {d}
      /\ batch'.forceGt = batch.forceGt
      /\ batch'.watermark =
           IF collection[d] > batch.watermark THEN collection[d] ELSE batch.watermark
      /\ batch'.seen = IF collection[d] = 0 THEN batch.seen
                       ELSE IF collection[d] > batch.watermark THEN {d}
                       ELSE batch.seen \cup {d}
  <2> DEFINE w == IF collection[d] > batch.watermark THEN collection[d] ELSE batch.watermark
             s == IF collection[d] = 0 THEN batch.seen
                  ELSE IF collection[d] > batch.watermark THEN {d} ELSE batch.seen \cup {d}
             h == batch.docs \ {d}
             f == batch.fresh + 1
  <2>1. batch' = [batch EXCEPT !.docs = h, !.fresh = f, !.watermark = w, !.seen = s]
    BY <1>2 DEF Advanced
  <2>2. w \in Nat /\ s \in SUBSET Docs /\ h \in SUBSET Docs /\ f \in Nat
    BY <1>1 DEF BatchType
  <2> HIDE DEF w, s, h, f
  <2>3. /\ batch' \in BatchType /\ batch'.docs = h
        /\ batch'.forceGt = batch.forceGt /\ batch'.watermark = w /\ batch'.seen = s
    BY <2>1, <2>2, <1>1 DEF BatchType
  <2> QED BY <2>3 DEF w, s, h
<1>6. MongoTypeOK'
  BY <1>1, <1>2, <1>4, <1>5 DEF MongoInv, MongoTypeOK
<1>7. batch.watermark \in Nat /\ collection[d] \in Nat /\ collection[d] >= batch.watermark
      /\ \A e \in batch.docs : e \in Docs /\ collection[e] >= collection[d]
  BY <1>1, <1>2 DEF BatchType, PollInv, NoGap, InHand, Before
<1>8. \A e \in Docs \ late :
        0 < collection[e] /\ collection[e] < collection[d] => delivered[e] > 0
  BY <1>1, <1>2, <1>7 DEF PollInv, NoGap
<1>9. ASSUME NEW e \in Docs PROVE Sides(e)'
  <2>1. Sides(e) /\ Sides(d) /\ FirstOfTheirTime
    BY <1>1 DEF PollInv
  <2>2. CASE e = d
    BY <2>1, <2>2, <1>1, <1>2, <1>4, <1>5, <1>7 DEF Sides
  <2>3. CASE e # d /\ collection[d] = batch.watermark
    BY <2>1, <2>3, <1>1, <1>4, <1>5, <1>7 DEF Sides
  <2>4. CASE e # d /\ collection[d] > batch.watermark
    <3>1. batch'.watermark = collection[d] /\ batch'.seen = {d} /\ delivered'[e] = delivered[e]
      BY <2>4, <1>4, <1>5, <1>7
    <3>2. collection[e] > collection[d] => delivered[e] = 0
      BY <2>1, <2>4, <1>1, <1>7 DEF Sides
    <3>3. collection[e] = collection[d] => delivered[e] = 0
      BY <2>1, <2>4, <1>1, <1>7 DEF Sides
    <3>4. 0 < collection[e] /\ collection[e] < collection[d] =>
            delivered[e] <= 1 /\ (e \in late \/ delivered[e] = 1)
      <4>1. 0 < collection[e] => delivered[e] <= 1
        BY <2>1, <1>1, <1>7 DEF Sides
      <4> QED BY <4>1, <1>1, <1>8
    <3> QED BY <3>1, <3>2, <3>3, <3>4, <2>4, <1>1 DEF Sides
  <2> QED BY <2>2, <2>3, <2>4, <1>7
<1>10. NoGap'
  <2>1. batch'.watermark = collection[d]
    BY <1>5, <1>7
  <2>2. delivered'[d] > 0 /\ \A e \in Docs : delivered[e] > 0 => delivered'[e] > 0
    BY <1>1, <1>4
  <2> QED BY <2>1, <2>2, <1>1, <1>5, <1>7 DEF PollInv, NoGap
<1>11. FirstOfTheirTime'
  BY <1>1, <1>2, <1>5, <1>7 DEF PollInv, FirstOfTheirTime
<1> QED BY <1>1, <1>6, <1>9, <1>10, <1>11 DEF MongoInv, PollInv, StreamInv

(* At the end of a batch, its size changes and nothing else. *)
LEMMA EndPollInv ==
  ASSUME MongoInv, EndPoll
  PROVE  MongoInv'
<1>1. /\ mode = "poll" /\ mode' = mode /\ PollInv
      /\ collection' = collection /\ Docs' = Docs /\ late' = late
      /\ events' = events /\ queue' = queue /\ lost' = lost
      /\ batch \in BatchType /\ BatchType' = BatchType
      /\ \A e : Peers(e)' = Peers(e)
  BY InPoll DEF EndPoll
<1>2. ~(Cardinality(batch.seen) >= MaxSeenIds)
  <2>1. Cardinality(batch.seen) \in Nat
    BY <1>1, DocsAre, FS_Subset, FS_CardinalityType DEF MongoInv, BatchType
  <2> QED BY <2>1, <1>1, SeenFits, MongoAssumption
<1>3. /\ Adjusted \in BatchType /\ Adjusted.docs = batch.docs
      /\ Adjusted.watermark = batch.watermark
      /\ Adjusted.seen = batch.seen /\ Adjusted.forceGt = FALSE
  <2> DEFINE A(l) == [batch EXCEPT !.limit = l, !.forceGt = FALSE]
  <2>1. PICK l : Adjusted = A(l)
                 /\ l \in {IF 2 * batch.limit < MaxBatch THEN 2 * batch.limit ELSE MaxBatch,
                           BaseBatch, batch.limit}
    BY <1>2 DEF Adjusted
  <2>2. l \in 0 .. MaxBatch
    BY <2>1, <1>1, MongoAssumption DEF BatchType
  <2> QED BY <2>1, <2>2, <1>1 DEF BatchType
<1>4. /\ batch' \in BatchType /\ batch'.docs = batch.docs
      /\ batch'.watermark = batch.watermark
      /\ batch'.seen = batch.seen /\ batch'.forceGt = FALSE
  <2>1. batch' = [Adjusted EXCEPT !.size = 0, !.fresh = 0, !.before = batch.watermark]
    BY DEF EndPoll
  <2> QED BY <2>1, <1>1, <1>3 DEF BatchType
<1>5. delivered' = delivered /\ mongoPc' = "find"
  BY DEF EndPoll
<1>6. MongoTypeOK'
  BY <1>1, <1>4, <1>5 DEF MongoInv, MongoTypeOK
<1>7. \A e \in Docs : Sides(e)'
  BY <1>1, <1>4, <1>5 DEF PollInv, Sides
<1>8. NoGap' /\ FirstOfTheirTime'
  BY <1>1, <1>4, <1>5 DEF PollInv, NoGap, FirstOfTheirTime
<1> QED BY <1>1, <1>6, <1>7, <1>8 DEF MongoInv, PollInv, StreamInv

-----------------------------------------------------------------------------
(* The stream *)

(* A step that touches neither documents nor poll nor what is on its way. *)
LEMMA OthersInv ==
  ASSUME MongoInv,
         UNCHANGED <<source, batch, late, delivered, events, queue, lost>>,
         mongoPc' \in {mongoPc, "dead", "stopping", "stopped"}
           \/ (mode # "poll" /\ mongoPc' \in {"start", "consume"})
  PROVE  MongoInv'
<1>1. Docs' = Docs /\ mode' = mode
  BY DEF source, Docs
<1>2. MongoTypeOK'
  BY <1>1 DEF MongoInv, MongoTypeOK, BatchType, source
<1>3. PollInv'
  BY <1>1 DEF MongoInv, PollInv, Sides, NoGap, FirstOfTheirTime, Peers, source
<1>4. StreamInv'
  BY <1>1 DEF MongoInv, StreamInv, Placed, source
<1> QED BY <1>2, <1>3, <1>4 DEF MongoInv

(* A stream that ends or is begun again loses what is on its way. *)
LEMMA LosesInv ==
  ASSUME MongoInv,
         UNCHANGED <<source, batch, late, delivered>>,
         \/ lost' = lost \cup events /\ events' = {} /\ queue' = queue
         \/ lost' = lost \cup queue /\ queue' = {} /\ events' = events
         \/ mode # "poll" /\ lost' = lost \cup queue \cup events /\ queue' = {} /\ events' = {},
         \/ mongoPc' \in {mongoPc, "dead"}
         \/ mode # "poll" /\ mongoPc' \in {"start", "consume"}
  PROVE  MongoInv'
<1>1. Docs' = Docs /\ mode' = mode
  BY DEF source, Docs
<1>2. MongoTypeOK'
  BY <1>1 DEF MongoInv, MongoTypeOK, BatchType, source
<1>3. PollInv'
  BY <1>1 DEF MongoInv, PollInv, Sides, NoGap, FirstOfTheirTime, Peers, source
<1>4. StreamInv'
  BY <1>1 DEF MongoInv, StreamInv, Placed, source
<1> QED BY <1>2, <1>3, <1>4 DEF MongoInv
(* The first document of the queue goes to the sink. *)
LEMMA ConsumeInv ==
  ASSUME MongoInv, NEW d \in Docs, Consume(d)
  PROVE  MongoInv'
<1>1. mode # "poll" /\ mode' = mode /\ Docs' = Docs /\ collection' = collection
      /\ batch' = batch /\ late' = late /\ events' = events /\ lost' = lost
      /\ queue' = queue \ {d} /\ d \in queue /\ mongoPc' = mongoPc
  BY DEF Consume, Oldest, MongoInv, MongoTypeOK, source, pollState, Docs
<1>2. /\ delivered \in Seq(0 .. 2) /\ delivered \in [Docs -> 0 .. 2]
      /\ Len(delivered) = Len(collection) /\ Docs = 1 .. Len(collection)
  BY DocsAre DEF MongoInv, MongoTypeOK
<1>3. delivered' = [delivered EXCEPT ![d] = IF @ < 2 THEN @ + 1 ELSE @]
  BY DEF Consume, Deliver
<1>4. /\ delivered' \in Seq(0 .. 2) /\ Len(delivered') = Len(collection)
      /\ delivered'[d] = IF delivered[d] < 2 THEN delivered[d] + 1 ELSE delivered[d]
      /\ \A e \in Docs : e # d => delivered'[e] = delivered[e]
  BY <1>2, <1>3
<1>5. MongoTypeOK'
  BY <1>1, <1>4 DEF MongoInv, MongoTypeOK, BatchType
<1>6. \A e \in Docs : Placed(e)'
  BY <1>1, <1>2, <1>4 DEF MongoInv, StreamInv, Placed
<1> QED BY <1>1, <1>5, <1>6 DEF MongoInv, PollInv, StreamInv

(* The oldest insert of the stream goes into the queue. *)
LEMMA PushInv ==
  ASSUME MongoInv, NEW d \in Docs, Push(d)
  PROVE  MongoInv'
<1>1. mode' = mode /\ Docs' = Docs /\ collection' = collection /\ batch' = batch
      /\ late' = late /\ lost' = lost /\ delivered' = delivered /\ mongoPc' = mongoPc
      /\ queue' = queue \cup {d} /\ events' = events \ {d} /\ d \in events
  BY DEF Push, Oldest, source, pollState, Docs
<1>2. MongoTypeOK'
  BY <1>1 DEF MongoInv, MongoTypeOK, BatchType
<1>3. PollInv'
  BY <1>1 DEF MongoInv, PollInv, Sides, NoGap, FirstOfTheirTime, Peers
<1>4. StreamInv'
  BY <1>1 DEF MongoInv, StreamInv, Placed
<1> QED BY <1>2, <1>3, <1>4 DEF MongoInv

-----------------------------------------------------------------------------
LEMMA MongoStepInv ==
  ASSUME MongoInv, [MongoNext]_mongoVars
  PROVE  MongoInv'
<1>1. CASE \E t \in Times : Insert(t)
  BY <1>1, InsertInv
<1>2. CASE Polling
  BY <1>2, FindInv, SkipSeenInv, HandleDocInv, EndPollInv DEF Polling
<1>3. CASE Watching
  <2>1. CASE OpenWatch
    BY <2>1, OthersInv DEF OpenWatch, pollState
  <2>2. CASE \E d \in Docs : Push(d)
    BY <2>2, PushInv
  <2>3. CASE \E i \in DOMAIN threads : ThreadExits(i)
    BY <2>3, LosesInv DEF ThreadExits, pollState
  <2> QED BY <1>3, <2>1, <2>2, <2>3 DEF Watching
<1>4. CASE Consuming
  <2>1. mode # "poll" \/ mongoPc \notin {"start", "consume"}
    BY DEF MongoInv, MongoTypeOK
  <2>2. CASE StartThread
    BY <2>1, <2>2, LosesInv DEF StartThread, pollState
  <2>3. CASE \E d \in Docs : Consume(d)
    BY <2>3, ConsumeInv
  <2>4. CASE Empty
    BY <2>4, OthersInv DEF Empty, pollState, stream
  <2>5. CASE ThreadIsDone
    BY <2>1, <2>5, LosesInv DEF ThreadIsDone, pollState
  <2> QED BY <1>4, <2>2, <2>3, <2>4, <2>5 DEF Consuming
<1>5. CASE MongoFailing
  <2>1. CASE FindFails
    BY <2>1, OthersInv DEF FindFails, pollState, stream
  <2>2. CASE \E d \in Docs : PollSinkFails(d)
    BY <2>2, OthersInv DEF PollSinkFails, pollState, stream
  <2>3. CASE ThreadRaises
    BY <2>3, LosesInv DEF ThreadRaises, pollState
  <2>4. CASE StreamSinkFails
    BY <2>4, OthersInv DEF StreamSinkFails, pollState
  <2> QED BY <1>5, <2>1, <2>2, <2>3, <2>4 DEF MongoFailing
<1>6. CASE Stop
  BY <1>6, OthersInv DEF Stop, pollState
<1>7. CASE Close
  BY <1>7, OthersInv DEF Close, pollState, stream
<1>8. CASE UNCHANGED mongoVars
  BY <1>8, OthersInv DEF mongoVars, pollState, stream
<1> QED BY <1>1, <1>2, <1>3, <1>4, <1>5, <1>6, <1>7, <1>8 DEF MongoNext

(* _polling_loop and _change_stream_loop: behind its watermark the poll has *)
(* handed every document to the sink, at it exactly those it remembers, and *)
(* none with a time twice; it never has to skip some of a time by $gt.  Of  *)
(* the inserts a stream was given, each has gone to the sink once, waits,   *)
(* or is among those that broke off with it.                                *)
THEOREM MongoSpecExactlyDelivered == MongoSpec => []ExactlyDelivered
<1>1. MongoInit => MongoInv
  BY MongoInitInv
<1>2. MongoInv /\ [MongoNext]_mongoVars => MongoInv'
  BY MongoStepInv
<1>3. ASSUME MongoInv PROVE ExactlyDelivered
  <2>1. \A d \in Docs : collection[d] \in Nat /\ delivered[d] \in 0 .. 2
    BY <1>3, DocsAre DEF MongoInv
  <2>2. batch.watermark \in Nat
    BY <1>3 DEF MongoInv, MongoTypeOK, BatchType
  <2>3. NothingSkipped
    BY <1>3, <2>1, <2>2 DEF MongoInv, PollInv, Sides, FirstOfTheirTime, NothingSkipped
  <2>4. DeliveredOnce
    BY <1>3, <2>1, <2>2 DEF MongoInv, PollInv, StreamInv, Sides, Placed, DeliveredOnce
  <2>5. StreamAccounts
    BY <1>3 DEF MongoInv, StreamInv, Placed, StreamAccounts
  <2> QED BY <2>3, <2>4, <2>5 DEF ExactlyDelivered
<1> QED BY <1>1, <1>2, <1>3, PTL DEF MongoSpec

-----------------------------------------------------------------------------
(* Backfill jobs *)

LEMMA FeedIsNat == Feed \subseteq Nat
BY BackfillAssumption

LEMMA GreatestIsMax ==
  ASSUME NEW T, T \subseteq Nat, T # {}, NEW n \in Nat, \A x \in T : x <= n
  PROVE  Max(T) \in T /\ \A y \in T : y <= Max(T)
<1> DEFINE D == {n - x : x \in T}
<1>1. D \subseteq Nat /\ D # {}
  <2>1. \A x \in T : n - x \in Nat
    OBVIOUS
  <2>2. PICK x \in T : TRUE
    OBVIOUS
  <2>3. n - x \in D
    OBVIOUS
  <2> QED BY <2>1, <2>3
<1>2. PICK d \in D : \A e \in D : d <= e
  BY <1>1, LeastExists
<1>3. PICK m \in T : d = n - m
  OBVIOUS
<1>4. \A y \in T : n - m <= n - y
  BY <1>2, <1>3
<1>5. \A y \in T : m >= y
  BY <1>4
<1>6. Max(T) \in T /\ \A y \in T : Max(T) >= y
  BY <1>5 DEF Max
<1> QED BY <1>6

-----------------------------------------------------------------------------
(* Pages *)

Left(cursor, end) == {t \in Feed : cursor <= t /\ t <= end}

LEMMA PageIs ==
  ASSUME NEW cursor, NEW end
  PROVE  Page(cursor, end) =
           {t \in Left(cursor, end) :
              Cardinality({u \in Left(cursor, end) : u <= t}) <= PageSize}
BY DEF Page, Left

LEMMA LeftFinite ==
  ASSUME NEW cursor \in Nat, NEW end \in Nat, NEW S, S \subseteq Left(cursor, end)
  PROVE  S \subseteq Nat /\ IsFiniteSet(S) /\ Cardinality(S) \in Nat
<1>1. S \subseteq Nat /\ \A s \in S : s <= end
  BY BackfillAssumption DEF Left
<1> QED BY <1>1, FS_BoundedSetOfNaturals, FS_CardinalityType

(* A page has a last record, and holds all that is left up to it. *)
LEMMA PageIsPrefix ==
  ASSUME NEW cursor \in Nat, NEW end \in Nat, Page(cursor, end) # {}
  PROVE  LET last == Max(Page(cursor, end))
         IN  /\ last \in Page(cursor, end) /\ last \in Nat
             /\ \A t \in Left(cursor, end) : t <= last => t \in Page(cursor, end)
<1> DEFINE P == Page(cursor, end)
           L == Left(cursor, end)
           last == Max(P)
<1>1. P \subseteq L /\ L \subseteq Nat /\ \A t \in P : t <= end
  BY PageIs, LeftFinite DEF Left
<1>2. last \in P /\ last \in Nat
  BY <1>1, GreatestIsMax
<1>3. ASSUME NEW t \in L, t <= last
      PROVE  t \in P
  <2> DEFINE A == {u \in L : u <= t}
             B == {u \in L : u <= last}
  <2>1. A \subseteq B
    BY <1>1, <1>2, <1>3
  <2>2. IsFiniteSet(B) /\ Cardinality(A) \in Nat /\ Cardinality(B) \in Nat
    BY LeftFinite
  <2>3. Cardinality(A) <= Cardinality(B)
    BY <2>1, <2>2, FS_Subset
  <2>4. Cardinality(B) <= PageSize
    BY <1>2, PageIs
  <2>5. Cardinality(A) <= PageSize
    BY <2>2, <2>3, <2>4, BackfillAssumption
  <2> QED BY <2>5, <1>3, PageIs
<1> QED BY <1>2, <1>3

(* What is alone, or one of two, among the records up to it is on the page. *)
LEMMA FirstTwoOnPage ==
  ASSUME NEW cursor \in Nat, NEW end \in Nat, NEW t \in Left(cursor, end), NEW v,
         \A u \in Left(cursor, end) : u <= t => u \in {v, t}
  PROVE  t \in Page(cursor, end)
<1> DEFINE A == {u \in Left(cursor, end) : u <= t}
<1>1. IsFiniteSet({v}) /\ Cardinality({v}) = 1
  BY FS_Singleton
<1>2. IsFiniteSet({v} \cup {t}) /\ Cardinality({v} \cup {t}) \in {1, 2}
  BY <1>1, FS_AddElement
<1>3. A \in SUBSET ({v} \cup {t})
  OBVIOUS
<1>4. Cardinality(A) <= Cardinality({v} \cup {t}) /\ Cardinality(A) \in Nat
  BY <1>2, <1>3, FS_Subset, LeftFinite
<1>5. Cardinality(A) <= PageSize
  BY <1>2, <1>4, BackfillAssumption
<1> QED BY <1>5, PageIs

LEMMA EmptyPageIsEnd ==
  ASSUME NEW cursor \in Nat, NEW end \in Nat, Page(cursor, end) = {}
  PROVE  Left(cursor, end) = {}
<1> SUFFICES ASSUME Left(cursor, end) # {} PROVE FALSE
  OBVIOUS
<1>1. Left(cursor, end) \subseteq Nat
  BY LeftFinite
<1>2. PICK t \in Left(cursor, end) : \A u \in Left(cursor, end) : t <= u
  BY <1>1, LeastExists
<1>3. \A u \in Left(cursor, end) : u <= t => u \in {t, t}
  BY <1>1, <1>2
<1> QED BY <1>3, FirstTwoOnPage

(* A page that ends at the cursor holds all that is left. *)
LEMMA StalledPageIsEnd ==
  ASSUME NEW cursor \in Nat, NEW end \in Nat, Page(cursor, end) # {},
         Max(Page(cursor, end)) <= cursor
  PROVE  Left(cursor, end) \subseteq Page(cursor, end)
<1> DEFINE P == Page(cursor, end)
           L == Left(cursor, end)
           R == {t \in L : t > cursor}
<1>1. L \subseteq Nat /\ \A t \in L : t >= cursor
  BY LeftFinite DEF Left
<1>2. \A t \in L : t <= cursor => t \in P
  <2>1. Max(P) \in L
    BY PageIsPrefix, PageIs
  <2>2. Max(P) = cursor
    BY <2>1, <1>1
  <2> QED BY <2>2, PageIsPrefix
<1>3. ASSUME R # {} PROVE FALSE
  <2>1. PICK w \in R : \A u \in R : w <= u
    BY <1>1, <1>3, LeastExists
  <2>2. \A u \in L : u <= w => u \in {cursor, w}
    BY <1>1, <2>1
  <2>3. w \in P
    BY <2>2, FirstTwoOnPage
  <2>4. \A t \in P : t \in L /\ t <= end
    BY PageIs DEF Left
  <2>5. \A t \in P : t <= Max(P)
    BY <2>4, <1>1, GreatestIsMax
  <2>6. Max(P) \in Nat
    BY PageIsPrefix
  <2> QED BY <2>1, <2>3, <2>5, <2>6, <1>1
<1> QED BY <1>1, <1>2, <1>3

-----------------------------------------------------------------------------
(* The inductive invariant *)

AllKept(j, cursor) == \A t \in Behind(j, cursor) : Kept(t)

(* What a job's row and its task claim to have stored is stored. *)
JobInv(j) ==
  /\ AllKept(j, rows[j].cursor)
  /\ rows[j].status = "completed" => AllKept(j, rows[j].end)
  /\ task[j].at \in {"fetch", "write", "progress", "complete"} => AllKept(j, task[j].cursor)
  /\ task[j].at = "complete" => AllKept(j, rows[j].end)
  /\ task[j].at = "write" => /\ task[j].page = Page(task[j].cursor, rows[j].end)
                             /\ task[j].page # {}

Unreadable == \A d \in Days : ~files[d].readable => files[d].times = {}

IInv == TypeOK /\ Unreadable /\ \A j \in Jobs : JobInv(j)

-----------------------------------------------------------------------------
(* Files *)

LEMMA MergedFile ==
  ASSUME NEW f \in File, NEW T \in SUBSET Feed, f.readable \/ f.times = {}
  PROVE  /\ Merged(f, T) \in File
         /\ Merged(f, T).readable
         /\ f.times \subseteq Merged(f, T).times
         /\ T \subseteq Merged(f, T).times
BY DEF Merged, File

LEMMA DaysOfPage ==
  ASSUME NEW page \in SUBSET Feed
  PROVE  /\ PageDays(page) \subseteq Days
         /\ \A d : OnDay(page, d) \in SUBSET Feed
         /\ \A t \in page : DayOf(t) \in PageDays(page) /\ t \in OnDay(page, DayOf(t))
BY DEF PageDays, Days, OnDay

(* What a step may do to the files: readable ones grow, but for those it    *)
(* cuts short.                                                              *)
FilesGrow ==
  /\ files' \in [Days -> File]
  /\ torn' \in SUBSET Days
  /\ torn \subseteq torn'
  /\ Unreadable'
  /\ \A d \in Days \ torn' : files[d].times \subseteq files'[d].times

LEMMA CutShortGrows ==
  ASSUME TypeOK, Unreadable, NEW page \in SUBSET Feed, NEW d \in PageDays(page),
         CutShort(page, d)
  PROVE  FilesGrow
<1> USE DEF TypeOK, Unreadable
<1>1. d \in Days
  BY DaysOfPage
<1>2. torn' = torn \cup {d}
  BY DEF CutShort
<1>3. ASSUME NEW e \in Days
      PROVE  /\ files'[e] \in File
             /\ files'[e].readable \/ files'[e].times = {}
             /\ e # d => files[e].times \subseteq files'[e].times
  <2>1. files[e] \in File /\ (files[e].readable \/ files[e].times = {})
    BY DEF File
  <2>2. CASE e = d
    <3>1. files'[e] = [readable |-> FALSE, times |-> {}]
      BY <2>2 DEF CutShort
    <3> QED BY <3>1, <2>2 DEF File
  <2>3. CASE e # d /\ e \in PageDays(page) /\ e < d
    <3>1. files'[e] = Merged(files[e], OnDay(page, e))
      BY <2>3 DEF CutShort
    <3> QED BY <3>1, <2>1, MergedFile, DaysOfPage
  <2>4. CASE e # d /\ ~(e \in PageDays(page) /\ e < d)
    <3>1. files'[e] = files[e]
      BY <2>4 DEF CutShort
    <3> QED BY <3>1, <2>1
  <2> QED BY <2>2, <2>3, <2>4
<1>4. files' \in [Days -> File]
  <2>1. files' = [e \in Days |-> files'[e]]
    BY DEF CutShort
  <2> QED BY <2>1, <1>3
<1>5. Unreadable'
  BY <1>3
<1> QED BY <1>1, <1>2, <1>3, <1>4, <1>5 DEF FilesGrow

LEMMA AppendGrows ==
  ASSUME TypeOK, Unreadable, NEW j \in Jobs, AppendPage(j)
  PROVE  /\ FilesGrow
         /\ \A t \in task[j].page : Kept(t)'
<1> USE DEF TypeOK, Unreadable
<1> DEFINE page == task[j].page
<1>0. page \in SUBSET Feed
  BY DEF Task
<1>1. torn' = torn
  BY DEF AppendPage
<1>2. ASSUME NEW e \in Days
      PROVE  /\ files'[e] \in File
             /\ files'[e].readable \/ files'[e].times = {}
             /\ files[e].times \subseteq files'[e].times
             /\ e \in PageDays(page) => OnDay(page, e) \subseteq files'[e].times
  <2>1. files[e] \in File /\ (files[e].readable \/ files[e].times = {})
    BY DEF File
  <2>2. CASE e \in PageDays(page)
    <3>1. files'[e] = Merged(files[e], OnDay(page, e))
      BY <2>2 DEF AppendPage
    <3> QED BY <3>1, <2>1, <1>0, MergedFile, DaysOfPage
  <2>3. CASE e \notin PageDays(page)
    <3>1. files'[e] = files[e]
      BY <2>3 DEF AppendPage
    <3> QED BY <3>1, <2>1, <2>3
  <2> QED BY <2>2, <2>3
<1>3. files' \in [Days -> File]
  <2>1. files' = [e \in Days |-> files'[e]]
    BY DEF AppendPage
  <2> QED BY <2>1, <1>2
<1>4. Unreadable'
  BY <1>2
<1>5. FilesGrow
  BY <1>1, <1>2, <1>3, <1>4 DEF FilesGrow
<1>6. ASSUME NEW t \in page
      PROVE  Kept(t)'
  <2>1. DayOf(t) \in Days /\ DayOf(t) \in PageDays(page) /\ t \in OnDay(page, DayOf(t))
    BY <1>0, DaysOfPage
  <2>2. t \in files'[DayOf(t)].times
    BY <1>2, <2>1
  <2> QED BY <2>2 DEF Kept
<1> QED BY <1>5, <1>6

(* Every step. *)
LEMMA StepGrows ==
  ASSUME IInv, [JobsNext]_jobVars
  PROVE  FilesGrow
<1> USE DEF IInv
<1>1. CASE UNCHANGED <<files, torn>>
  BY <1>1 DEF FilesGrow, Unreadable, TypeOK
<1>2. CASE \E j \in Jobs : AppendPage(j)
  BY <1>2, AppendGrows
<1>3. CASE \E j \in Jobs : WriteFails(j)
  <2>1. PICK j \in Jobs : \E d \in PageDays(task[j].page) : CutShort(task[j].page, d)
    BY <1>3 DEF WriteFails
  <2>2. task[j].page \in SUBSET Feed
    BY DEF TypeOK, Task
  <2> QED BY <2>1, <2>2, CutShortGrows
<1>4. CASE ServerCrashes
  <2>1. CASE UNCHANGED <<files, torn>>
    BY <2>1, <1>1
  <2>2. CASE \E j \in Jobs : \E d \in PageDays(task[j].page) : CutShort(task[j].page, d)
    <3>1. PICK j \in Jobs : \E d \in PageDays(task[j].page) : CutShort(task[j].page, d)
      BY <2>2
    <3>2. task[j].page \in SUBSET Feed
      BY DEF TypeOK, Task
    <3> QED BY <3>1, <3>2, CutShortGrows
  <2> QED BY <1>4, <2>1, <2>2 DEF ServerCrashes
<1> QED
  BY <1>1, <1>2, <1>3, <1>4 DEF JobsNext, jobVars, Request, Running, Run, Faults,
     CheckRunning, CreateJob, StartTask, FetchPage, Progress, Complete, SetUpFails, FetchFails, DatabaseFails

LEMMA KeptStays ==
  ASSUME IInv, FilesGrow, NEW t \in Feed, Kept(t)
  PROVE  Kept(t)'
<1>1. DayOf(t) \in Days
  BY DEF Days
<1> QED BY <1>1 DEF FilesGrow, Kept

-----------------------------------------------------------------------------
(* Rows and tasks *)

(* A job whose row and task a step leaves alone. *)
LEMMA JobUntouched ==
  ASSUME IInv, FilesGrow, NEW k \in Jobs, rows'[k] = rows[k], task'[k] = task[k]
  PROVE  JobInv(k)'
<1>1. \A t \in Feed : Kept(t) => Kept(t)'
  BY KeptStays
<1>2. ASSUME NEW c, AllKept(k, c)
      PROVE  AllKept(k, c)'
  BY <1>1, <1>2 DEF AllKept, Behind
<1> QED BY <1>2 DEF IInv, JobInv

(* A job that a step leaves without a task, completed or not. *)
LEMMA JobGone ==
  ASSUME IInv, FilesGrow, NEW k \in Jobs, task'[k].at \in {"none", "gone"},
         rows'[k].start = rows[k].start, rows'[k].end = rows[k].end,
         rows'[k].cursor = rows[k].cursor,
         rows'[k].status = "completed" =>
           task[k].at = "complete" \/ rows[k].status = "completed"
  PROVE  JobInv(k)'
<1>1. \A t \in Feed : Kept(t) => Kept(t)'
  BY KeptStays
<1>2. ASSUME NEW c, AllKept(k, c)
      PROVE  AllKept(k, c)'
  BY <1>1, <1>2 DEF AllKept, Behind
<1>3. AllKept(k, rows[k].cursor)'
  <2>1. AllKept(k, rows[k].cursor)
    BY DEF IInv, JobInv
  <2>2. \A t \in Feed : rows[k].start <= t /\ t < rows[k].cursor => Kept(t)'
    BY <2>1, <1>1 DEF AllKept, Behind
  <2> QED BY <2>2 DEF AllKept, Behind
<1>4. rows'[k].status = "completed" => AllKept(k, rows[k].end)'
  <2> SUFFICES ASSUME rows'[k].status = "completed" PROVE AllKept(k, rows[k].end)'
    OBVIOUS
  <2>1. AllKept(k, rows[k].end)
    BY DEF IInv, JobInv
  <2>2. \A t \in Feed : rows[k].start <= t /\ t < rows[k].end => Kept(t)'
    BY <2>1, <1>1 DEF AllKept, Behind
  <2> QED BY <2>2 DEF AllKept, Behind
<1> QED BY <1>3, <1>4 DEF JobInv

LEMMA InitInv == JobsInit => IInv
<1> SUFFICES ASSUME JobsInit PROVE IInv
  OBVIOUS
<1>1. TypeOK
  BY BackfillAssumption DEF JobsInit, TypeOK, Statuses, Row, Task, File, NoTask
<1>2. Unreadable
  BY DEF JobsInit, Unreadable
<1>3. ASSUME NEW j \in Jobs
      PROVE  JobInv(j)
  <2>1. ASSUME NEW t \in Behind(j, 0) PROVE FALSE
    <3>1. t \in Nat /\ t < 0
      BY BackfillAssumption DEF Behind
    <3> QED BY <3>1
  <2> QED BY <2>1 DEF JobsInit, JobInv, AllKept, NoTask
<1> QED BY <1>1, <1>2, <1>3 DEF IInv

LEMMA CreateJobKeeps ==
  ASSUME IInv, FilesGrow, NEW c \in Clients, NEW i \in Jobs, NEW r \in Ranges,
         CreateJob(c, i, r)
  PROVE  IInv'
<1> USE DEF IInv, TypeOK
<1>1. r.start \in Nat /\ r.end \in Nat
  BY BackfillAssumption
<1>2. TypeOK'
  <2>1. rows' \in [Jobs -> Row]
    BY <1>1 DEF CreateJob, Statuses, Row
  <2>2. [task[i] EXCEPT !.at = "queued"] \in Task
    BY DEF Task
  <2>3. task' \in [Jobs -> Task]
    BY <2>2 DEF CreateJob
  <2> QED BY <2>1, <2>3 DEF CreateJob, FilesGrow
<1>3. ASSUME NEW k \in Jobs
      PROVE  JobInv(k)'
  <2>1. CASE k # i
    BY <2>1, JobUntouched DEF CreateJob
  <2>2. CASE k = i
    <3>1. /\ rows'[k].start = r.start /\ rows'[k].cursor = r.start
          /\ rows'[k].status = "pending" /\ task'[k].at = "queued"
      BY <2>2 DEF CreateJob, Task
    <3>2. ASSUME NEW t \in Feed, rows'[k].start <= t, t < rows'[k].cursor
          PROVE  FALSE
      <4>1. t \in Nat /\ r.start <= t /\ t < r.start
        BY <3>1, <3>2, BackfillAssumption
      <4> QED BY <4>1, <1>1
    <3> QED BY <3>1, <3>2 DEF JobInv, AllKept, Behind
  <2> QED BY <2>1, <2>2
<1> QED BY <1>2, <1>3 DEF FilesGrow

LEMMA LoopEnds ==
  ASSUME NEW c \in Nat, NEW e \in Nat
  PROVE  LoopAt(c, e) \in {"fetch", "complete"} /\ (LoopAt(c, e) = "complete" => e <= c)
BY DEF LoopAt

LEMMA AllKeptBelow ==
  ASSUME NEW j \in Jobs, NEW c \in Nat, NEW e \in Nat, e <= c, AllKept(j, c)
  PROVE  AllKept(j, e)
<1>1. Behind(j, e) \subseteq Behind(j, c)
  <2> SUFFICES ASSUME NEW t \in Feed, rows[j].start <= t, t < e
               PROVE  rows[j].start <= t /\ t < c
    BY DEF Behind
  <2>1. t \in Nat
    BY FeedIsNat
  <2> QED BY <2>1
<1> QED BY <1>1 DEF AllKept

LEMMA StartTaskKeeps ==
  ASSUME IInv, FilesGrow, NEW i \in Jobs, StartTask(i)
  PROVE  IInv'
<1> USE DEF IInv, TypeOK
<1>1. rows[i] \in Row /\ task[i] \in Task
  OBVIOUS
<1>2. LoopAt(rows[i].cursor, rows[i].end) \in {"fetch", "complete"}
  BY <1>1, LoopEnds DEF Row
<1>3. TypeOK'
  BY <1>1, <1>2 DEF StartTask, FilesGrow, Statuses, Row, Task
<1>4. ASSUME NEW k \in Jobs
      PROVE  JobInv(k)'
  <2>1. CASE k # i
    BY <2>1, JobUntouched DEF StartTask
  <2>2. CASE k = i
    <3>1. /\ rows'[k] = [rows[k] EXCEPT !.status = "running"]
          /\ task'[k] = [task[k] EXCEPT !.at = LoopAt(rows[k].cursor, rows[k].end),
                                        !.cursor = rows[k].cursor]
          /\ UNCHANGED <<files, torn>>
      BY <2>2 DEF StartTask
    <3>2. AllKept(k, rows[k].cursor)
      BY DEF JobInv
    <3>3. task'[k].at = "complete" => AllKept(k, rows[k].end)
      BY <1>1, <2>2, <3>1, <3>2, LoopEnds, AllKeptBelow DEF Row, Task
    <3>4. ASSUME NEW c, AllKept(k, c)
          PROVE  AllKept(k, c)'
      BY <3>1, <3>4, <1>1, <2>2 DEF AllKept, Behind, Kept, Row
    <3> QED BY <1>1, <1>2, <2>2, <3>1, <3>2, <3>3, <3>4 DEF JobInv, Row, Task
  <2> QED BY <2>1, <2>2
<1> QED BY <1>3, <1>4 DEF FilesGrow

LEMMA FetchKeeps ==
  ASSUME IInv, FilesGrow, NEW i \in Jobs, FetchPage(i)
  PROVE  IInv'
<1> USE DEF IInv, TypeOK
<1> DEFINE page == Page(task[i].cursor, rows[i].end)
<1>1. rows[i] \in Row /\ task[i] \in Task /\ task[i].cursor \in Nat /\ rows[i].end \in Nat
  BY DEF Row, Task
<1>2. page \in SUBSET Feed
  BY DEF Page
<1>3. TypeOK'
  BY <1>1, <1>2 DEF FetchPage, FilesGrow, Task
<1>4. ASSUME NEW k \in Jobs
      PROVE  JobInv(k)'
  <2>1. CASE k # i
    BY <2>1, JobUntouched DEF FetchPage
  <2>2. CASE k = i
    <3>1. /\ rows'[k] = rows[k]
          /\ task'[k] = [task[k] EXCEPT !.at = IF page = {} THEN "complete" ELSE "write",
                                        !.page = page]
          /\ UNCHANGED <<files, torn>>
      BY <2>2 DEF FetchPage
    <3>2. AllKept(k, task[k].cursor)
      BY <2>2 DEF JobInv, FetchPage
    <3>3. page = {} => AllKept(k, rows[k].end)
      <4> SUFFICES ASSUME page = {}, NEW t \in Behind(k, rows[k].end) PROVE Kept(t)
        BY DEF AllKept
      <4>1. t \notin Left(task[k].cursor, rows[k].end)
        BY <1>1, <2>2, EmptyPageIsEnd
      <4>2. t \in Behind(k, task[k].cursor)
        BY <4>1, <1>1, <2>2, BackfillAssumption DEF Left, Behind
      <4> QED BY <4>2, <3>2 DEF AllKept
    <3>4. ASSUME NEW c, AllKept(k, c)
          PROVE  AllKept(k, c)'
      BY <3>1, <3>4 DEF AllKept, Behind, Kept
    <3>5. /\ task'[k].at = (IF page = {} THEN "complete" ELSE "write")
          /\ task'[k].cursor = task[k].cursor /\ task'[k].page = page
      BY <1>1, <2>2, <3>1 DEF Task
    <3>6. JobInv(k)
      OBVIOUS
    <3> QED BY <2>2, <3>1, <3>2, <3>3, <3>4, <3>5, <3>6 DEF JobInv
  <2> QED BY <2>1, <2>2
<1> QED BY <1>3, <1>4 DEF FilesGrow

LEMMA AppendKeeps ==
  ASSUME IInv, FilesGrow, NEW i \in Jobs, AppendPage(i)
  PROVE  IInv'
<1> USE DEF IInv, TypeOK
<1> DEFINE page   == task[i].page
           cursor == task[i].cursor
           end    == rows[i].end
           last   == Max(page)
<1>1. rows[i] \in Row /\ task[i] \in Task /\ cursor \in Nat /\ end \in Nat
  BY DEF Row, Task
<1>2. page = Page(cursor, end) /\ page # {} /\ AllKept(i, cursor)
  BY DEF JobInv, AppendPage
<1>3. last \in Nat /\ \A t \in Left(cursor, end) : t <= last => t \in page
  BY <1>1, <1>2, PageIsPrefix
<1>4. Cardinality(page) \in Nat
  BY <1>1, <1>2, PageIs, LeftFinite
<1>5. TypeOK'
  <2>1. ASSUME NEW at \in {"complete", "progress"}, NEW c \in Nat, NEW n \in Nat
        PROVE  [task[i] EXCEPT !.at = at, !.cursor = c, !.page = {}, !.written = n] \in Task
    BY <1>1 DEF Task
  <2>2. /\ task[i].written + Cardinality(page) \in Nat
        /\ (IF last <= cursor THEN cursor ELSE last + 1) \in Nat
    BY <1>1, <1>3, <1>4 DEF Task
  <2>3. task' = [task EXCEPT ![i] =
          [task[i] EXCEPT !.at = IF last <= cursor THEN "complete" ELSE "progress",
                          !.cursor = IF last <= cursor THEN cursor ELSE last + 1,
                          !.page = {},
                          !.written = task[i].written + Cardinality(page)]]
    BY <1>1 DEF AppendPage, Task
  <2>4. task' \in [Jobs -> Task]
    BY <2>1, <2>2, <2>3
  <2> QED BY <2>4 DEF AppendPage, FilesGrow
<1>6. \A t \in page : Kept(t)'
  BY AppendGrows
<1>7. ASSUME NEW k \in Jobs
      PROVE  JobInv(k)'
  <2>1. CASE k # i
    BY <2>1, JobUntouched DEF AppendPage
  <2>2. CASE k = i
    <3>1. /\ rows'[k] = rows[k]
          /\ task'[k].at = (IF last <= cursor THEN "complete" ELSE "progress")
          /\ task'[k].cursor = (IF last <= cursor THEN cursor ELSE last + 1)
      BY <2>2, <1>1 DEF AppendPage, Task
    <3>2. \A t \in Feed : Kept(t) => Kept(t)'
      BY KeptStays
    <3>3. ASSUME NEW c, AllKept(k, c)
          PROVE  AllKept(k, c)'
      BY <3>1, <3>2, <3>3 DEF AllKept, Behind
    <3>4. CASE last <= cursor
      <4>1. AllKept(k, rows[k].end)'
        <5> SUFFICES ASSUME NEW t \in Behind(k, end) PROVE Kept(t)'
          BY <2>2, <3>1 DEF AllKept, Behind
        <5>1. CASE t < cursor
          BY <5>1, <3>2, <1>2, <2>2 DEF AllKept, Behind
        <5>2. CASE ~(t < cursor)
          <6>1. t \in Left(cursor, end)
            BY <5>2, <1>1, BackfillAssumption DEF Left, Behind
          <6> QED BY <6>1, <1>1, <1>2, <3>4, StalledPageIsEnd, <1>6
        <5> QED BY <5>1, <5>2
      <4> QED BY <2>2, <3>1, <3>3, <3>4, <4>1, <1>2 DEF JobInv
    <3>5. CASE ~(last <= cursor)
      <4>1. AllKept(k, task[k].cursor)'
        <5> SUFFICES ASSUME NEW t \in Behind(k, last + 1) PROVE Kept(t)'
          BY <3>1, <3>5 DEF AllKept, Behind
        <5>1. CASE t < cursor
          BY <5>1, <3>2, <1>2, <2>2 DEF AllKept, Behind
        <5>2. CASE ~(t < cursor)
          <6>1. t \in Nat /\ cursor <= t /\ t <= last /\ t \in Feed
            BY <5>2, <1>1, <1>3, FeedIsNat DEF Behind
          <6>2. last <= end
            BY <1>1, <1>2, PageIsPrefix, PageIs DEF Left
          <6>3. t \in Left(cursor, end)
            BY <6>1, <6>2, <1>1, <1>3 DEF Left
          <6> QED BY <6>1, <6>3, <1>3, <1>6
        <5> QED BY <5>1, <5>2
      <4> QED BY <2>2, <3>1, <3>3, <3>5, <4>1 DEF JobInv
    <3> QED BY <3>4, <3>5
  <2> QED BY <2>1, <2>2
<1> QED BY <1>5, <1>7 DEF FilesGrow

LEMMA ProgressKeeps ==
  ASSUME IInv, FilesGrow, NEW i \in Jobs, Progress(i)
  PROVE  IInv'
<1> USE DEF IInv, TypeOK
<1>1. rows[i] \in Row /\ task[i] \in Task /\ task[i].cursor \in Nat /\ rows[i].end \in Nat
  BY DEF Row, Task
<1>2. /\ LoopAt(task[i].cursor, rows[i].end) \in {"fetch", "complete"}
      /\ LoopAt(task[i].cursor, rows[i].end) = "complete" => rows[i].end <= task[i].cursor
  BY <1>1, LoopEnds
<1>3. TypeOK'
  BY <1>1, <1>2 DEF Progress, FilesGrow, Row, Task
<1>4. ASSUME NEW k \in Jobs
      PROVE  JobInv(k)'
  <2>1. CASE k # i
    BY <2>1, JobUntouched DEF Progress
  <2>2. CASE k = i
    <3>1. /\ rows'[k].start = rows[k].start /\ rows'[k].end = rows[k].end
          /\ rows'[k].status = rows[k].status /\ rows'[k].cursor = task[k].cursor
          /\ task'[k].at = LoopAt(task[k].cursor, rows[k].end)
          /\ task'[k].cursor = task[k].cursor
          /\ UNCHANGED <<files, torn>>
      BY <1>1, <2>2 DEF Progress, Row, Task
    <3>2. AllKept(k, task[k].cursor)
      BY <2>2 DEF JobInv, Progress
    <3>3. task'[k].at = "complete" => AllKept(k, rows[k].end)
      BY <1>1, <1>2, <2>2, <3>1, <3>2, AllKeptBelow
    <3>4. ASSUME NEW c, AllKept(k, c)
          PROVE  AllKept(k, c)'
      BY <3>1, <3>4 DEF AllKept, Behind, Kept
    <3>5. JobInv(k)
      OBVIOUS
    <3> QED BY <1>2, <2>2, <3>1, <3>2, <3>3, <3>4, <3>5 DEF JobInv
  <2> QED BY <2>1, <2>2
<1> QED BY <1>3, <1>4 DEF FilesGrow

(* The steps that end a task. *)
LEMMA EndKeeps ==
  ASSUME IInv, FilesGrow, NEW i \in Jobs,
         Complete(i) \/ SetUpFails(i) \/ FetchFails(i) \/ DatabaseFails(i) \/ WriteFails(i)
  PROVE  IInv'
<1> USE DEF IInv, TypeOK
<1>1. rows[i] \in Row
  OBVIOUS
<1>2. /\ client' = client
      /\ jobFaults' \in 0..MaxJobFaults
      /\ task' = [task EXCEPT ![i] = Gone]
      /\ \/ rows' = rows
         \/ rows' = [rows EXCEPT ![i].status = "failed"]
         \/ rows' = [rows EXCEPT ![i].status = "completed"] /\ task[i].at = "complete"
  BY BackfillAssumption
     DEF Complete, SetUpFails, FetchFails, DatabaseFails, WriteFails, JobFault
<1>3. TypeOK'
  <2>1. task' \in [Jobs -> Task]
    BY <1>2 DEF Task, Gone
  <2>2. rows' \in [Jobs -> Row]
    BY <1>2 DEF Row, Statuses
  <2> QED BY <1>2, <2>1, <2>2 DEF FilesGrow
<1>4. ASSUME NEW k \in Jobs
      PROVE  JobInv(k)'
  <2>1. CASE k # i
    <3>1. rows'[k] = rows[k] /\ task'[k] = task[k]
      BY <1>2, <2>1
    <3> QED BY <3>1, JobUntouched
  <2>2. CASE k = i
    <3>1. task'[k].at = "gone"
      BY <1>2, <2>2 DEF Gone
    <3>2. /\ rows'[k].start = rows[k].start /\ rows'[k].end = rows[k].end
          /\ rows'[k].cursor = rows[k].cursor
          /\ rows'[k].status = "completed" =>
               task[k].at = "complete" \/ rows[k].status = "completed"
      BY <1>1, <1>2, <2>2 DEF Row
    <3> QED BY <3>1, <3>2, JobGone
  <2> QED BY <2>1, <2>2
<1> QED BY <1>3, <1>4 DEF FilesGrow

LEMMA CrashKeeps ==
  ASSUME IInv, FilesGrow, ServerCrashes
  PROVE  IInv'
<1> USE DEF IInv, TypeOK
<1>1. TypeOK'
  BY BackfillAssumption DEF ServerCrashes, JobFault, FilesGrow, Task, NoTask, Gone
<1>2. ASSUME NEW k \in Jobs
      PROVE  JobInv(k)'
  <2>1. rows' = rows /\ task'[k].at \in {"none", "gone"}
    BY DEF ServerCrashes, NoTask, Gone
  <2> QED BY <2>1, JobGone
<1> QED BY <1>1, <1>2 DEF FilesGrow

LEMMA NextKeeps == IInv /\ [JobsNext]_jobVars => IInv'
<1> SUFFICES ASSUME IInv, [JobsNext]_jobVars PROVE IInv'
  OBVIOUS
<1>0. FilesGrow
  BY StepGrows
<1>1. CASE /\ UNCHANGED <<rows, task, jobFaults>>
           /\ client' \in [Clients -> {"idle", "free"}]
  BY <1>0, <1>1, JobUntouched DEF IInv, TypeOK, FilesGrow
<1>2. ASSUME NEW c \in Clients, CheckRunning(c)
      PROVE  IInv'
  BY <1>1, <1>2 DEF CheckRunning, IInv, TypeOK
<1>3. CASE UNCHANGED jobVars
  BY <1>1, <1>3 DEF jobVars, IInv, TypeOK
<1> QED
  BY <1>0, <1>2, <1>3, CreateJobKeeps, StartTaskKeeps, FetchKeeps, AppendKeeps,
     ProgressKeeps, EndKeeps, CrashKeeps DEF JobsNext, Request, Running, Run, Faults

-----------------------------------------------------------------------------
(* Active jobs and the threads that saw none *)

ActiveJobs  == {j \in Jobs : Active(j)}
FreeClients == {c \in Clients : client[c] = "free"}

ClientInv ==
  /\ \A j \in Jobs : task[j].at = "queued" => Active(j)
  /\ IsFiniteSet(ActiveJobs)
  /\ Cardinality(ActiveJobs) + Cardinality(FreeClients) <= Cardinality(Clients)

LEMMA FreeCount ==
  /\ IsFiniteSet(FreeClients) /\ Cardinality(FreeClients) \in Nat
  /\ Cardinality(FreeClients) <= Cardinality(Clients) /\ Cardinality(Clients) \in Nat
<1>1. FreeClients \in SUBSET Clients
  BY DEF FreeClients
<1> QED BY <1>1, BackfillAssumption, FS_Subset, FS_CardinalityType

(* A step that adds to neither set. *)
LEMMA FewerKeeps ==
  ASSUME ClientInv, ActiveJobs' \subseteq ActiveJobs, FreeClients' \subseteq FreeClients,
         \A j \in Jobs : task'[j].at = "queued" => Active(j)'
  PROVE  ClientInv'
<1>1. /\ IsFiniteSet(ActiveJobs') /\ Cardinality(ActiveJobs') <= Cardinality(ActiveJobs)
      /\ Cardinality(ActiveJobs') \in Nat /\ Cardinality(ActiveJobs) \in Nat
  BY FS_Subset, FS_CardinalityType DEF ClientInv
<1>2. /\ Cardinality(FreeClients') <= Cardinality(FreeClients)
      /\ Cardinality(FreeClients') \in Nat /\ Cardinality(FreeClients) \in Nat
      /\ Cardinality(Clients) \in Nat
  BY FreeCount, FS_Subset, FS_CardinalityType
<1> QED BY <1>1, <1>2 DEF ClientInv

LEMMA ClientInit == JobsInit => ClientInv
<1> SUFFICES ASSUME JobsInit PROVE ClientInv
  OBVIOUS
<1>1. ActiveJobs = {} /\ FreeClients = {}
  BY DEF JobsInit, ActiveJobs, FreeClients, Active
<1>2. \A j \in Jobs : task[j].at # "queued"
  BY DEF JobsInit, NoTask
<1> QED BY <1>1, <1>2, FS_EmptySet, FreeCount DEF ClientInv

LEMMA CheckRunningCounts ==
  ASSUME TypeOK, ClientInv, NEW c \in Clients, CheckRunning(c)
  PROVE  ClientInv'
<1>1. rows' = rows /\ task' = task
  BY DEF CheckRunning
<1>2. ActiveJobs' = {}
  BY <1>1 DEF CheckRunning, ActiveJobs, Active
<1>3. FreeClients' \in SUBSET Clients
  BY DEF FreeClients
<1>4. /\ Cardinality(FreeClients') <= Cardinality(Clients) /\ Cardinality(Clients) \in Nat
      /\ Cardinality(FreeClients') \in Nat
  BY <1>3, BackfillAssumption, FS_Subset, FS_CardinalityType
<1>5. \A j \in Jobs : task'[j].at = "queued" => Active(j)'
  BY <1>1 DEF ClientInv, Active
<1> QED BY <1>2, <1>4, <1>5, FS_EmptySet DEF ClientInv

LEMMA CreateJobCounts ==
  ASSUME TypeOK, ClientInv, NEW c \in Clients, NEW i \in Jobs, NEW r \in Ranges,
         CreateJob(c, i, r)
  PROVE  ClientInv'
<1> USE DEF TypeOK
<1>1. ActiveJobs' = ActiveJobs \cup {i} /\ i \notin ActiveJobs
  BY DEF CreateJob, ActiveJobs, Active
<1>2. FreeClients' = FreeClients \ {c} /\ c \in FreeClients
  BY DEF CreateJob, FreeClients
<1>3. /\ IsFiniteSet(ActiveJobs')
      /\ Cardinality(ActiveJobs') = Cardinality(ActiveJobs) + 1
      /\ Cardinality(ActiveJobs) \in Nat
  BY <1>1, FS_AddElement, FS_CardinalityType DEF ClientInv
<1>4. /\ Cardinality(FreeClients') = Cardinality(FreeClients) - 1
      /\ Cardinality(FreeClients) \in Nat /\ Cardinality(Clients) \in Nat
  BY <1>2, FreeCount, FS_RemoveElement
<1>5. ASSUME NEW j \in Jobs, task'[j].at = "queued"
      PROVE  Active(j)'
  <2>1. CASE j = i
    BY <2>1 DEF CreateJob, Active
  <2>2. CASE j # i
    <3>1. task'[j] = task[j] /\ rows'[j] = rows[j]
      BY <2>2 DEF CreateJob
    <3> QED BY <3>1, <1>5 DEF ClientInv, Active
  <2> QED BY <2>1, <2>2
<1> QED BY <1>3, <1>4, <1>5 DEF ClientInv

LEMMA ClientNext == TypeOK /\ ClientInv /\ [JobsNext]_jobVars => ClientInv'
<1> SUFFICES ASSUME TypeOK, ClientInv, [JobsNext]_jobVars PROVE ClientInv'
  OBVIOUS
<1> USE DEF TypeOK
<1>1. CASE UNCHANGED jobVars
  BY <1>1, FewerKeeps DEF jobVars, ClientInv, ActiveJobs, FreeClients, Active
<1>2. CASE \E j \in Jobs : StartTask(j)
  <2>1. PICK i \in Jobs : StartTask(i)
    BY <1>2
  <2>2. client' = client /\ Active(i)
    BY <2>1 DEF StartTask, ClientInv
  <2>3. ASSUME NEW k \in Jobs
        PROVE  /\ Active(k)' => Active(k)
               /\ task'[k].at = "queued" => Active(k)'
    <3>1. CASE k = i
      BY <3>1, <2>1, <2>2 DEF StartTask, Active, LoopAt, Task
    <3>2. CASE k # i
      <4>1. task'[k] = task[k] /\ rows'[k] = rows[k]
        BY <3>2, <2>1 DEF StartTask
      <4> QED BY <4>1 DEF ClientInv, Active
    <3> QED BY <3>1, <3>2
  <2> QED BY <2>2, <2>3, FewerKeeps DEF ActiveJobs, FreeClients
<1>3. CASE \E j \in Jobs : FetchPage(j) \/ AppendPage(j) \/ Progress(j)
  <2>1. PICK i \in Jobs : FetchPage(i) \/ AppendPage(i) \/ Progress(i)
    BY <1>3
  <2>2. client' = client
    BY <2>1 DEF FetchPage, AppendPage, Progress
  <2>3. ASSUME NEW k \in Jobs
        PROVE  /\ rows'[k].status = rows[k].status
               /\ task'[k].at = "queued" => task[k].at = "queued"
    <3>1. CASE FetchPage(i)
      BY <3>1 DEF FetchPage, Task
    <3>2. CASE AppendPage(i)
      BY <3>2 DEF AppendPage, Task
    <3>3. CASE Progress(i)
      BY <3>3 DEF Progress, Task, Row, LoopAt
    <3> QED BY <2>1, <3>1, <3>2, <3>3
  <2> QED BY <2>2, <2>3, FewerKeeps DEF ActiveJobs, FreeClients, Active, ClientInv
<1>4. CASE \E j \in Jobs : \/ Complete(j) \/ SetUpFails(j) \/ FetchFails(j)
                           \/ DatabaseFails(j) \/ WriteFails(j)
  <2>1. PICK i \in Jobs : \/ Complete(i) \/ SetUpFails(i) \/ FetchFails(i)
                          \/ DatabaseFails(i) \/ WriteFails(i)
    BY <1>4
  <2>2. /\ client' = client
        /\ task' = [task EXCEPT ![i] = Gone]
        /\ \/ rows' = rows
           \/ rows' = [rows EXCEPT ![i].status = "failed"]
           \/ rows' = [rows EXCEPT ![i].status = "completed"]
    BY <2>1 DEF Complete, SetUpFails, FetchFails, DatabaseFails, WriteFails
  <2>3. ASSUME NEW k \in Jobs
        PROVE  /\ Active(k)' => Active(k)
               /\ task'[k].at = "queued" => Active(k)'
    <3>1. CASE k = i
      BY <3>1, <2>2 DEF Active, Gone, Row
    <3>2. CASE k # i
      <4>1. task'[k] = task[k] /\ rows'[k] = rows[k]
        BY <3>2, <2>2
      <4> QED BY <4>1 DEF ClientInv, Active
    <3> QED BY <3>1, <3>2
  <2> QED BY <2>2, <2>3, FewerKeeps DEF ActiveJobs, FreeClients
<1>5. CASE ServerCrashes
  <2>1. FreeClients' = {} /\ rows' = rows
    BY <1>5 DEF ServerCrashes, FreeClients
  <2>2. \A k \in Jobs : task'[k].at # "queued"
    BY <1>5 DEF ServerCrashes, NoTask, Gone
  <2> QED BY <2>1, <2>2, FewerKeeps DEF ActiveJobs, Active
<1> QED
  BY <1>1, <1>2, <1>3, <1>4, <1>5, CheckRunningCounts, CreateJobCounts
     DEF JobsNext, Request, Running, Run, Faults

-----------------------------------------------------------------------------
(* What a job counts *)

(* What its row, and its task while it runs, say was written is the number  *)
(* of records behind the cursor they hold; a job begins at its start.       *)
WrittenInv(j) ==
  /\ rows[j].written = Cardinality(Behind(j, rows[j].cursor))
  /\ rows[j].status = "none" => task[j].at \in {"none", "gone"} /\ task[j].written = 0
  /\ task[j].at = "queued" => task[j].written = 0 /\ rows[j].cursor = rows[j].start
  /\ task[j].at \in {"fetch", "write", "progress"} =>
       /\ rows[j].start <= task[j].cursor
       /\ task[j].written = Cardinality(Behind(j, task[j].cursor))

CountInv == \A j \in Jobs : WrittenInv(j)

LEMMA InBehind ==
  ASSUME NEW j, NEW c, NEW t
  PROVE  t \in Behind(j, c) <=> t \in Feed /\ t \in Nat /\ rows[j].start <= t /\ t < c
<1>1. t \in Feed => t \in Nat
  BY FeedIsNat
<1> QED BY <1>1 DEF Behind

LEMMA BehindNothing ==
  ASSUME NEW j \in Jobs, NEW c, rows[j].start \in Nat, c \in Nat, c <= rows[j].start
  PROVE  Behind(j, c) = {} /\ Cardinality(Behind(j, c)) = 0
<1>1. \A t \in Behind(j, c) : t \in Nat /\ rows[j].start <= t /\ t < c
  BY InBehind
<1>2. Behind(j, c) = {}
  BY <1>1
<1> QED BY <1>2, FS_EmptySet

(* A page that goes past the cursor is what lies between the cursor and its *)
(* last record.                                                             *)
LEMMA PageAdds ==
  ASSUME NEW j \in Jobs, NEW cursor \in Nat, NEW end \in Nat, NEW page,
         page = Page(cursor, end), page # {},
         rows[j].start \in Nat, rows[j].start <= cursor, ~(Max(page) <= cursor)
  PROVE  Cardinality(Behind(j, Max(page) + 1)) =
           Cardinality(Behind(j, cursor)) + Cardinality(page)
<1> DEFINE last == Max(page)
<1>1. last \in Nat /\ \A t \in Left(cursor, end) : t <= last => t \in page
  BY PageIsPrefix
<1>2. page \subseteq Left(cursor, end)
  BY PageIs
<1>3. \A t \in page : t \in Feed /\ t \in Nat /\ cursor <= t /\ t <= end
  BY <1>2, FeedIsNat DEF Left
<1>4. last \in page /\ \A t \in page : t <= last
  BY <1>3, GreatestIsMax
<1> HIDE DEF last
<1>5. Behind(j, last + 1) = Behind(j, cursor) \cup page
  <2>1. ASSUME NEW t \in Behind(j, last + 1), t \notin Behind(j, cursor)
        PROVE  t \in page
    <3>1. t \in Feed /\ t \in Nat /\ t <= last /\ cursor <= t
      <4>1. t \in Feed /\ t \in Nat /\ rows[j].start <= t /\ t < last + 1 /\ ~(t < cursor)
        BY <2>1, InBehind
      <4> QED BY <1>1, <4>1
    <3>2. t \in Left(cursor, end)
      BY <1>1, <1>3, <1>4, <3>1 DEF Left
    <3> QED BY <1>1, <3>1, <3>2
  <2>2. ASSUME NEW t \in Behind(j, cursor) PROVE t \in Behind(j, last + 1)
    <3>1. cursor <= last
      BY <1>3, <1>4
    <3>2. t \in Feed /\ t \in Nat /\ rows[j].start <= t /\ t < cursor
      BY <2>2, InBehind
    <3> QED BY <1>1, <3>1, <3>2, InBehind
  <2>3. ASSUME NEW t \in page PROVE t \in Behind(j, last + 1)
    BY <1>1, <1>3, <1>4 DEF Behind
  <2> QED BY <2>1, <2>2, <2>3
<1>6. Behind(j, cursor) \cap page = {}
  BY <1>3 DEF Behind
<1>7. /\ IsFiniteSet(page) /\ Cardinality(page) \in Nat
      /\ IsFiniteSet(Behind(j, cursor)) /\ Cardinality(Behind(j, cursor)) \in Nat
  <2>1. \A t \in Behind(j, cursor) : t \in Nat /\ t < cursor
    BY InBehind
  <2>2. Behind(j, cursor) \in SUBSET Nat /\ \A t \in Behind(j, cursor) : t <= cursor
    BY <2>1
  <2> QED BY <1>2, <2>2, LeftFinite, FS_BoundedSetOfNaturals, FS_CardinalityType
<1>8. Cardinality(Behind(j, cursor) \cup page) = Cardinality(Behind(j, cursor)) + Cardinality(page)
  <2> DEFINE B == Behind(j, cursor)
  <2>1. IsFiniteSet(B) /\ IsFiniteSet(page)
    BY <1>7
  <2>2. Cardinality(B \cup page) = Cardinality(B) + Cardinality(page) - Cardinality(B \cap page)
    BY <2>1, FS_Union, Zenon
  <2>3. Cardinality(B \cap page) = 0
    BY <1>6, FS_EmptySet, Zenon
  <2>4. Cardinality(B) \in Nat /\ Cardinality(page) \in Nat
    BY <1>7
  <2> HIDE DEF B
  <2>5. Cardinality(B \cup page) = Cardinality(B) + Cardinality(page)
    BY <2>2, <2>3, <2>4
  <2> QED BY <2>5, Zenon DEF B
<1> QED BY <1>5, <1>8 DEF last

LEMMA CountInit == JobsInit => CountInv
<1> SUFFICES ASSUME JobsInit, NEW j \in Jobs PROVE WrittenInv(j)
  BY DEF CountInv
<1>1. rows[j].start = 0 /\ rows[j].cursor = 0 /\ rows[j].written = 0
  BY DEF JobsInit
<1>2. Cardinality(Behind(j, 0)) = 0
  BY <1>1, BehindNothing
<1>3. task[j] = NoTask
  BY DEF JobsInit
<1> QED BY <1>1, <1>2, <1>3 DEF WrittenInv, NoTask

(* A job whose row keeps its range, cursor and count, and whose task is     *)
(* left alone or ends.                                                      *)
LEMMA WrittenUntouched ==
  ASSUME NEW k \in Jobs, WrittenInv(k),
         rows'[k].start = rows[k].start, rows'[k].cursor = rows[k].cursor,
         rows'[k].written = rows[k].written,
         rows'[k].status = rows[k].status \/ rows'[k].status # "none",
         task'[k] = task[k] \/ task'[k] \in {NoTask, Gone}
  PROVE  WrittenInv(k)'
BY DEF WrittenInv, Behind, NoTask, Gone

LEMMA CreateJobCountsWritten ==
  ASSUME IInv, CountInv, NEW c \in Clients, NEW i \in Jobs, NEW r \in Ranges,
         CreateJob(c, i, r)
  PROVE  CountInv'
<1> SUFFICES ASSUME NEW k \in Jobs PROVE WrittenInv(k)'
  BY DEF CountInv
<1> USE DEF IInv, TypeOK, CountInv
<1>1. CASE k # i
  <2>1. rows'[k] = rows[k] /\ task'[k] = task[k]
    BY <1>1 DEF CreateJob
  <2> QED BY <2>1, WrittenUntouched
<1>2. CASE k = i
  <2>1. /\ rows'[k].start = r.start /\ rows'[k].cursor = r.start /\ rows'[k].written = 0
        /\ rows'[k].status = "pending"
        /\ task'[k].at = "queued" /\ task'[k].written = task[k].written
    BY <1>2 DEF CreateJob, Task
  <2>2. task[k].written = 0
    BY <1>2 DEF CreateJob, WrittenInv
  <2>3. Behind(k, rows[k].cursor)' = {}
    <3>1. r.start \in Nat
      BY BackfillAssumption
    <3>2. \A t \in Feed : t \in Nat
      BY FeedIsNat
    <3> QED BY <2>1, <3>1, <3>2 DEF Behind
  <2> QED BY <2>1, <2>2, <2>3, FS_EmptySet DEF WrittenInv
<1> QED BY <1>1, <1>2

LEMMA StartTaskCounts ==
  ASSUME IInv, CountInv, NEW i \in Jobs, StartTask(i)
  PROVE  CountInv'
<1> SUFFICES ASSUME NEW k \in Jobs PROVE WrittenInv(k)'
  BY DEF CountInv
<1> USE DEF IInv, TypeOK, CountInv
<1>1. CASE k # i
  <2>1. rows'[k] = rows[k] /\ task'[k] = task[k]
    BY <1>1 DEF StartTask
  <2> QED BY <2>1, WrittenUntouched
<1>2. CASE k = i
  <2>1. rows[k] \in Row /\ task[k] \in Task
    OBVIOUS
  <2>2. /\ rows'[k] = [rows[k] EXCEPT !.status = "running"]
        /\ task'[k] = [task[k] EXCEPT !.at = LoopAt(rows[k].cursor, rows[k].end),
                                      !.cursor = rows[k].cursor]
    BY <1>2 DEF StartTask
  <2>3. /\ rows'[k].start = rows[k].start /\ rows'[k].cursor = rows[k].cursor
        /\ rows'[k].written = rows[k].written /\ rows'[k].status = "running"
        /\ task'[k].at \in {"fetch", "complete"} /\ task'[k].cursor = rows[k].cursor
        /\ task'[k].written = task[k].written
    BY <2>1, <2>2 DEF Row, Task, LoopAt
  <2>4. /\ task[k].written = 0 /\ rows[k].cursor = rows[k].start
        /\ rows[k].written = Cardinality(Behind(k, rows[k].cursor))
    BY <1>2 DEF StartTask, WrittenInv
  <2>5. /\ Cardinality(Behind(k, rows[k].start)) = 0
        /\ rows[k].start \in Nat
    BY <2>1, BehindNothing DEF Row
  <2>6. /\ Behind(k, rows[k].cursor)' = Behind(k, rows[k].start)
        /\ Behind(k, task[k].cursor)' = Behind(k, rows[k].start)
    BY <2>3, <2>4 DEF Behind
  <2> QED BY <2>3, <2>4, <2>5, <2>6 DEF WrittenInv
<1> QED BY <1>1, <1>2

LEMMA FetchCounts ==
  ASSUME IInv, CountInv, NEW i \in Jobs, FetchPage(i)
  PROVE  CountInv'
<1> SUFFICES ASSUME NEW k \in Jobs PROVE WrittenInv(k)'
  BY DEF CountInv
<1> USE DEF IInv, TypeOK, CountInv
<1>1. CASE k # i
  <2>1. rows'[k] = rows[k] /\ task'[k] = task[k]
    BY <1>1 DEF FetchPage
  <2> QED BY <2>1, WrittenUntouched
<1>2. CASE k = i
  <2>1. /\ rows' = rows /\ task[k].at = "fetch" /\ task'[k].at \in {"complete", "write"}
        /\ task'[k].cursor = task[k].cursor /\ task'[k].written = task[k].written
    BY <1>2 DEF FetchPage, Task
  <2> QED BY <2>1 DEF WrittenInv, Behind
<1> QED BY <1>1, <1>2

LEMMA AppendCounts ==
  ASSUME IInv, CountInv, NEW i \in Jobs, AppendPage(i)
  PROVE  CountInv'
<1> SUFFICES ASSUME NEW k \in Jobs PROVE WrittenInv(k)'
  BY DEF CountInv
<1> USE DEF IInv, TypeOK, CountInv
<1>1. CASE k # i
  <2>1. rows'[k] = rows[k] /\ task'[k] = task[k]
    BY <1>1 DEF AppendPage
  <2> QED BY <2>1, WrittenUntouched
<1>2. CASE k = i
  <2> DEFINE last == Max(task[k].page)
  <2>1. /\ rows' = rows /\ task[k].at = "write"
        /\ task'[k].at = IF last <= task[k].cursor THEN "complete" ELSE "progress"
        /\ task'[k].cursor = IF last <= task[k].cursor THEN task[k].cursor ELSE last + 1
        /\ task'[k].written = task[k].written + Cardinality(task[k].page)
    BY <1>2 DEF AppendPage, Task
  <2>2. /\ task[k].page = Page(task[k].cursor, rows[k].end) /\ task[k].page # {}
        /\ rows[k].start <= task[k].cursor
        /\ task[k].written = Cardinality(Behind(k, task[k].cursor))
    BY <2>1 DEF JobInv, WrittenInv
  <2>3. rows[k].start \in Nat /\ rows[k].end \in Nat /\ task[k].cursor \in Nat
    BY DEF Row, Task
  <2>4. last \in Nat
    BY <2>2, <2>3, PageIsPrefix
  <2>5. CASE last <= task[k].cursor
    BY <2>1, <2>5 DEF WrittenInv, Behind
  <2>6. CASE ~(last <= task[k].cursor)
    <3>1. Cardinality(Behind(k, last + 1)) = task'[k].written
      BY <2>1, <2>2, <2>3, <2>6, PageAdds
    <3>2. Behind(k, task[k].cursor)' = Behind(k, last + 1)
      BY <2>1, <2>6 DEF Behind
    <3>3. rows[k].start <= last + 1
      BY <2>2, <2>3, <2>4, <2>6
    <3> QED BY <2>1, <2>6, <3>1, <3>2, <3>3 DEF WrittenInv, Behind
  <2> QED BY <2>5, <2>6
<1> QED BY <1>1, <1>2

LEMMA ProgressCounts ==
  ASSUME IInv, CountInv, NEW i \in Jobs, Progress(i)
  PROVE  CountInv'
<1> SUFFICES ASSUME NEW k \in Jobs PROVE WrittenInv(k)'
  BY DEF CountInv
<1> USE DEF IInv, TypeOK, CountInv
<1>1. CASE k # i
  <2>1. rows'[k] = rows[k] /\ task'[k] = task[k]
    BY <1>1 DEF Progress
  <2> QED BY <2>1, WrittenUntouched
<1>2. CASE k = i
  <2>1. /\ rows'[k].start = rows[k].start /\ rows'[k].cursor = task[k].cursor
        /\ rows'[k].written = task[k].written /\ rows'[k].status = rows[k].status
        /\ task[k].at = "progress" /\ task'[k].at \in {"fetch", "complete"}
        /\ task'[k].cursor = task[k].cursor /\ task'[k].written = task[k].written
    BY <1>2 DEF Progress, Row, Task, LoopAt
  <2>2. /\ Behind(k, rows[k].cursor)' = Behind(k, task[k].cursor)
        /\ Behind(k, task[k].cursor)' = Behind(k, task[k].cursor)
    BY <2>1 DEF Behind
  <2> QED BY <2>1, <2>2 DEF WrittenInv
<1> QED BY <1>1, <1>2

(* The steps that end a task, or all of them. *)
LEMMA EndCounts ==
  ASSUME IInv, CountInv,
         \/ ServerCrashes
         \/ \E i \in Jobs : \/ Complete(i) \/ SetUpFails(i) \/ FetchFails(i)
                            \/ DatabaseFails(i) \/ WriteFails(i)
  PROVE  CountInv'
<1> SUFFICES ASSUME NEW k \in Jobs PROVE WrittenInv(k)'
  BY DEF CountInv
<1> USE DEF IInv, TypeOK, CountInv
<1>1. CASE ServerCrashes
  <2>1. rows' = rows /\ task'[k] \in {NoTask, Gone}
    BY <1>1 DEF ServerCrashes
  <2> QED BY <2>1, WrittenUntouched
<1>2. ASSUME NEW i \in Jobs, \/ Complete(i) \/ SetUpFails(i) \/ FetchFails(i)
                             \/ DatabaseFails(i) \/ WriteFails(i)
      PROVE  WrittenInv(k)'
  <2>1. /\ task' = [task EXCEPT ![i] = Gone]
        /\ \/ rows' = rows
           \/ rows' = [rows EXCEPT ![i].status = "failed"]
           \/ rows' = [rows EXCEPT ![i].status = "completed"]
    BY <1>2 DEF Complete, SetUpFails, FetchFails, DatabaseFails, WriteFails
  <2>2. rows[k] \in Row
    OBVIOUS
  <2>3. /\ rows'[k].start = rows[k].start /\ rows'[k].cursor = rows[k].cursor
        /\ rows'[k].written = rows[k].written
        /\ rows'[k].status = rows[k].status \/ rows'[k].status # "none"
        /\ task'[k] = task[k] \/ task'[k] = Gone
    BY <2>1, <2>2 DEF Row
  <2> QED BY <2>3, WrittenUntouched
<1> QED BY <1>1, <1>2

LEMMA CountNext == IInv /\ CountInv /\ [JobsNext]_jobVars => CountInv'
<1> SUFFICES ASSUME IInv, CountInv, [JobsNext]_jobVars PROVE CountInv'
  OBVIOUS
<1>1. CASE UNCHANGED <<rows, task>>
  BY <1>1, WrittenUntouched DEF CountInv
<1>2. CASE UNCHANGED jobVars
  BY <1>1, <1>2 DEF jobVars
<1>3. ASSUME NEW c \in Clients, CheckRunning(c)
      PROVE  CountInv'
  BY <1>1, <1>3 DEF CheckRunning
<1> QED
  BY <1>2, <1>3, CreateJobCountsWritten, StartTaskCounts, FetchCounts, AppendCounts,
     ProgressCounts, EndCounts DEF JobsNext, Request, Running, Run, Faults

-----------------------------------------------------------------------------
(* Theorems *)

THEOREM Invariance == JobsSpec => []IInv
BY InitInv, NextKeeps, PTL DEF JobsSpec

(* report_worker.py:1719-1900: rows, tasks and files keep their shape. *)
THEOREM TypeCorrect == JobsSpec => []TypeOK
<1>1. IInv => TypeOK
  BY DEF IInv
<1> QED BY Invariance, <1>1, PTL

(* report_worker.py:1730: however the checks and creations of threads        *)
(* interleave, there are no more active jobs than threads.                  *)
THEOREM OneJobPerClient == JobsSpec => []OnePerClient
<1>1. ClientInv => OnePerClient
  BY FreeCount, FS_CardinalityType DEF ClientInv, ActiveJobs, OnePerClient
<1> QED BY TypeCorrect, ClientInit, ClientNext, <1>1, PTL DEF JobsSpec

(* services/backfill.py:110: a job that says completed left no record of its *)
(* range out, but in days a write of which was cut short.                   *)
THEOREM CompletedLeavesNothing == JobsSpec => []CompletedIsWhole
<1>1. IInv => CompletedIsWhole
  BY DEF IInv, JobInv, AllKept, CompletedIsWhole
<1> QED BY Invariance, <1>1, PTL

(* services/parquet_sink.py:146: files lose no record, whichever jobs write  *)
(* to the same day, but for a write that is cut short.                      *)
THEOREM FilesGrowOnly == JobsSpec => FilesKeepRecords
<1>1. IInv /\ [JobsNext]_jobVars =>
        [\A d \in Days \ torn' : files[d].times \subseteq files'[d].times]_files
  BY StepGrows DEF FilesGrow
<1> QED BY Invariance, <1>1, PTL DEF JobsSpec, FilesKeepRecords

(* services/backfill.py:96: what a row says is behind its cursor is in the   *)
(* files, whichever jobs share a day, and was counted once.                 *)
THEOREM CursorTells == JobsSpec => []CursorCovers
<1>1. IInv /\ CountInv => CursorCovers
  BY DEF IInv, CountInv, JobInv, WrittenInv, AllKept, CursorCovers
<1> QED BY Invariance, CountInit, CountNext, <1>1, PTL DEF JobsSpec
=============================================================================
