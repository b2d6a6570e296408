--------------------------- MODULE CheckpointRace ---------------------------
(***************************************************************************)
(* The deployment with a checkpoint-worker container beside the score-      *)
(* worker (deprecated, still supported): both call create_checkpoint, each  *)
(* in a process and session of its own, while the score-worker also writes  *)
(* the snapshots.  Reading the latest checkpoint, finding the snapshots and *)
(* saving the row are three database calls; nothing locks between them.     *)
(*                                                                         *)
(* Every reading of the clock is a different time.  The first period goes   *)
(* back by the interval of the process that reads no checkpoint: each takes *)
(* its own from its environment, so it may begin at any earlier time.       *)
(***************************************************************************)
EXTENDS Integers

CONSTANTS
  Creators,     \* processes that create checkpoints
  Scorer,       \* the one of them that also writes snapshots
  Models,
  MaxClock      \* bound: readings of the clock

VARIABLES
  clock,
  snapshots,    \* rows: [model, at]
  checkpoints,  \* rows: [start, end, snaps], and history: by, first
  at,           \* [Creators -> step of the process]
  now,          \* [Creators -> its reading of the clock]
  start,        \* [Creators -> period_start it read]
  first,        \* [Creators -> it read no checkpoint], history after that
  found,        \* [Creators -> snapshots it found]
  late          \* history: snapshots committed when a creator that covers
                \* their time, or goes past it, had looked already

raceVars == <<clock, snapshots, checkpoints, at, now, start, first, found, late>>

Snapshot   == [model : Models, at : Nat]
Checkpoint == [start : Int, end : Nat, snaps : SUBSET Snapshot,
               by : Creators, first : BOOLEAN]

RaceTypeOK ==
  /\ clock \in Nat
  /\ snapshots \subseteq Snapshot
  /\ checkpoints \subseteq Checkpoint
  /\ at \in [Creators -> {"idle", "cycle", "find", "save"}]
  /\ now \in [Creators -> Nat]
  /\ start \in [Creators -> Int]
  /\ first \in [Creators -> BOOLEAN]
  /\ found \in [Creators -> SUBSET Snapshot]
  /\ late \subseteq Snapshot

RaceInit ==
  /\ clock = 1
  /\ snapshots = {}
  /\ checkpoints = {}
  /\ at = [p \in Creators |-> "idle"]
  /\ now = [p \in Creators |-> 0]
  /\ start = [p \in Creators |-> 0]
  /\ first = [p \in Creators |-> FALSE]
  /\ found = [p \in Creators |-> {}]
  /\ late = {}

Latest(k) == k \in checkpoints /\ \A j \in checkpoints : j.end <= k.end

-----------------------------------------------------------------------------
(* The score-worker: `now` is read, then predictions are scored, then the   *)
(* snapshots are committed one by one, with the time read at the start.     *)

StartCycle ==
  /\ Scorer \in Creators
  /\ at[Scorer] = "idle"
  /\ clock < MaxClock
  /\ now' = [now EXCEPT ![Scorer] = clock]
  /\ clock' = clock + 1
  /\ at' = [at EXCEPT ![Scorer] = "cycle"]
  /\ UNCHANGED <<snapshots, checkpoints, start, first, found, late>>

GonePast(t) ==
  \/ \E k \in checkpoints : t <= k.end
  \/ \E p \in Creators : at[p] = "save" /\ t <= now[p]

SaveSnapshot(m) ==
  LET s == [model |-> m, at |-> now[Scorer]]
  IN  /\ Scorer \in Creators
      /\ at[Scorer] = "cycle"
      /\ snapshots' = snapshots \cup {s}
      /\ late' = IF GonePast(s.at) /\ s \notin snapshots THEN late \cup {s} ELSE late
      /\ UNCHANGED <<clock, checkpoints, at, now, start, first, found>>

(* The cycle ends without a checkpoint. *)
EndCycle ==
  /\ Scorer \in Creators
  /\ at[Scorer] = "cycle"
  /\ at' = [at EXCEPT ![Scorer] = "idle"]
  /\ UNCHANGED <<clock, snapshots, checkpoints, now, start, first, found, late>>

-----------------------------------------------------------------------------
(* create_checkpoint.  The checkpoint-worker calls it when its timer says,  *)
(* the score-worker at the end of a cycle.                                  *)
MayCreate(p) ==
  IF p = Scorer THEN at[p] = "cycle" /\ \E s \in snapshots : s.at = now[p]
  ELSE at[p] = "idle"

(* Variant with an error: get_latest orders ascending. *)
ReadOldest(p) ==
  /\ MayCreate(p)
  /\ clock < MaxClock
  /\ now' = [now EXCEPT ![p] = clock]
  /\ clock' = clock + 1
  /\ \/ \E k \in checkpoints : /\ \A j \in checkpoints : k.end <= j.end
                               /\ start' = [start EXCEPT ![p] = k.end]
     \/ checkpoints = {} /\ \E t \in 0..clock : start' = [start EXCEPT ![p] = t]
  /\ first' = [first EXCEPT ![p] = checkpoints = {}]
  /\ at' = [at EXCEPT ![p] = "find"]
  /\ UNCHANGED <<snapshots, checkpoints, found, late>>

ReadLatest(p) ==
  /\ MayCreate(p)
  /\ clock < MaxClock
  /\ now' = [now EXCEPT ![p] = clock]
  /\ clock' = clock + 1
  /\ \/ \E k \in checkpoints : Latest(k) /\ start' = [start EXCEPT ![p] = k.end]
     \/ checkpoints = {} /\ \E t \in 0..clock : start' = [start EXCEPT ![p] = t]
  /\ first' = [first EXCEPT ![p] = checkpoints = {}]
  /\ at' = [at EXCEPT ![p] = "find"]
  /\ UNCHANGED <<snapshots, checkpoints, found, late>>

FindSnapshots(p) ==
  /\ at[p] = "find"
  /\ found' = [found EXCEPT ![p] =
                 {s \in snapshots : start[p] <= s.at /\ s.at <= now[p]}]
  /\ at' = [at EXCEPT ![p] = IF found'[p] = {} THEN "idle" ELSE "save"]
  /\ UNCHANGED <<clock, snapshots, checkpoints, now, start, first, late>>

(* Variant with an error: the end of the period is read again. *)
SaveCheckpointEndingNow(p) ==
  /\ at[p] = "save"
  /\ checkpoints' = checkpoints \cup
       {[start |-> start[p], end |-> clock, snaps |-> found[p],
         by |-> p, first |-> first[p]]}
  /\ clock' = clock + 1
  /\ at' = [at EXCEPT ![p] = "idle"]
  /\ UNCHANGED <<snapshots, now, start, first, found, late>>

SaveCheckpoint(p) ==
  /\ at[p] = "save"
  /\ checkpoints' = checkpoints \cup
       {[start |-> start[p], end |-> now[p], snaps |-> found[p],
         by |-> p, first |-> first[p]]}
  /\ at' = [at EXCEPT ![p] = "idle"]
  /\ UNCHANGED <<clock, snapshots, now, start, first, found, late>>

(* A database call fails, or the process stops: nothing is saved. *)
Fail(p) ==
  /\ at[p] \in {"find", "save"}
  /\ at' = [at EXCEPT ![p] = "idle"]
  /\ UNCHANGED <<clock, snapshots, checkpoints, now, start, first, found, late>>

Create(p) == ReadLatest(p) \/ FindSnapshots(p) \/ SaveCheckpoint(p) \/ Fail(p)

RaceNext ==
  \/ StartCycle \/ EndCycle
  \/ \E m \in Models : SaveSnapshot(m)
  \/ \E p \in Creators : Create(p)

RaceSpec == RaceInit /\ [][RaceNext]_raceVars
-----------------------------------------------------------------------------
(* Properties *)

(* A creator never rewards a snapshot again, however its steps interleave   *)
(* with the other's: it starts no earlier than its own last end.            *)
PaidOncePerCreator ==
  \A j, k \in checkpoints : j.by = k.by /\ j.end # k.end => j.snaps \cap k.snaps = {}

(* A committed snapshot that the checkpoints have gone past is in one of    *)
(* them: the creators leave no gap between their periods.  Except that a    *)
(* period without a checkpoint before it begins one interval back           *)
(* (checkpoint.py:64) and not at the "beginning of time" of line 61.        *)
(* Only a snapshot committed after a creator looked is skipped: it carries  *)
(* the time its cycle started.                                              *)
OnlyLateSkipped ==
  \A s \in snapshots \ late :
    (\E k \in checkpoints : s.at <= k.end) =>
      \/ \E k \in checkpoints : s \in k.snaps
      \/ \E k \in checkpoints : k.first /\ s.at < k.start

-----------------------------------------------------------------------------
(* Strengthening the proofs use: a creator's periods do not overlap, and    *)
(* no snapshot carries the time at which a period ends.                     *)
RaceInv ==
  /\ RaceTypeOK
  /\ \A p \in Creators : now[p] < clock
  /\ \A k \in checkpoints : k.end < clock
  /\ \A k \in checkpoints : \A s \in k.snaps : k.start <= s.at /\ s.at <= k.end
  /\ \A s \in snapshots : s.at < clock
  /\ \A s \in snapshots : \A k \in checkpoints : s.at # k.end
  /\ \A k \in checkpoints : k.snaps \subseteq snapshots
  /\ \A j, k \in checkpoints : j.by = k.by /\ j.end < k.end => j.end <= k.start
  /\ \A p \in Creators : at[p] \in {"find", "save"} =>
       \A k \in checkpoints : k.by = p => k.end <= start[p]
  /\ \A p \in Creators : at[p] \in {"find", "save"} =>
       /\ \A s \in snapshots : s.at # now[p]
       /\ \A k \in checkpoints : k.end # now[p]
       /\ start[p] <= now[p]
       /\ Scorer \in Creators /\ at[Scorer] = "cycle" => now[p] # now[Scorer]
  /\ \A p \in Creators : at[p] = "save" =>
       /\ found[p] \subseteq snapshots
       /\ \A s \in found[p] : start[p] <= s.at /\ s.at <= now[p]
  /\ \A p, q \in Creators : at[p] \in {"find", "save"} /\ at[q] \in {"find", "save"} =>
       p = q \/ now[p] # now[q]
  /\ Scorer \in Creators /\ at[Scorer] = "cycle" =>
       \A k \in checkpoints : k.end # now[Scorer]

(* The periods leave no gap, and a period's snapshots are all of those in it *)
(* that were not committed late.                                            *)
NoGap ==
  \A k \in checkpoints : \A t \in Nat : t <= k.end =>
    \/ \E j \in checkpoints : j.start <= t /\ t <= j.end
    \/ \E j \in checkpoints : j.first /\ t < j.start

CoverInv ==
  /\ NoGap
  /\ \A p \in Creators : at[p] \in {"find", "save"} /\ ~first[p] =>
       \E k \in checkpoints : k.end = start[p]
  /\ \A p \in Creators : at[p] = "save" => \A s \in snapshots \ late :
       start[p] <= s.at /\ s.at <= now[p] => s \in found[p]
  /\ \A k \in checkpoints : \A s \in snapshots \ late :
       k.start <= s.at /\ s.at <= k.end => s \in k.snaps
=============================================================================
