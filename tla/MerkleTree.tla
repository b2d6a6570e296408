----------------------------- MODULE MerkleTree -----------------------------
(***************************************************************************)
(* The tamper evidence: the tree over the snapshots of a score cycle, the   *)
(* chain of the cycles, the tree over the cycles of a checkpoint, each node *)
(* a row and a commit of its own, and the proof that is read back from the  *)
(* rows for anyone who asks.                                                *)
(*                                                                         *)
(* SHA-256 is taken to be injective: a hash is the tuple of what was        *)
(* hashed, <<content>> for a snapshot and <<left, right>> for a node.       *)
(***************************************************************************)
EXTENDS Integers, FiniteSetsExt, SequencesExt

CONSTANTS
  Batches,     \* the sets of models, numbers, that a cycle has scored
  RoundModels, \* models that a tournament's rounds score too
  Summaries,   \* values of a snapshot's result_summary
  Interval,    \* least seconds between two checkpoints
  PageLimit,   \* snapshots the verifier fetches: limit=1000
  MaxClock,    \* bound: seconds in a behaviour
  MaxFaults,   \* bound: failed commits and crashes
  MaxRewrites  \* bound: snapshots that another process saves

ASSUME MerkleAssumption ==
  /\ \A S \in Batches : S # {} /\ S \subseteq Nat /\ IsFiniteSet(S)
  /\ RoundModels \subseteq Nat
  /\ Interval \in Nat
  /\ PageLimit \in Nat \ {0}
  /\ {MaxClock, MaxFaults, MaxRewrites} \subseteq Nat

VARIABLES
  clock,
  snapshots,    \* rows: [id -> content], an id is <<model, second>>
  cycles,       \* rows of merkle_cycles, in the order of created_at
  nodes,        \* rows of merkle_nodes
  committed,    \* ghost: [id -> content] when its cycle was committed
  checkpoints,  \* rows: [from, to, root], root <<>> until it is stored
  unsaved,      \* the node rows the running commit has still to save
  faults, rewrites

vars ==
  <<clock, snapshots, cycles, nodes, committed, checkpoints, unsaved, faults, rewrites>>

-----------------------------------------------------------------------------
(* The tree over a sequence of leaf hashes, level by level *)

(* How many nodes each level over n leaves has: a parent for each pair, and  *)
(* one for the last node of an odd level, which is its own right neighbour. *)
Widths(n) ==
  LET width[k \in 1..n] == IF k = 1 THEN n ELSE (width[k - 1] + 1) \div 2
  IN  width

(* The level of the root. *)
Height(n) ==
  LET w == Widths(n)
  IN  CHOOSE k \in 1..n : w[k] = 1 /\ \A l \in 1..n : w[l] = 1 => k <= l

Left(i) == 2 * i - 1
Right(i, width) == IF 2 * i <= width THEN 2 * i ELSE width

Levels(leaves) ==
  LET w == Widths(Len(leaves))
      level[k \in 1..Len(leaves)] ==
        IF k = 1 THEN leaves
        ELSE LET below == level[k - 1]
             IN  [i \in 1..w[k] |-> <<below[Left(i)], below[Right(i, w[k - 1])]>>]
  IN  level

Root(leaves) == Levels(leaves)[Height(Len(leaves))][1]

(* A row has its children by their positions one level down, a leaf none;   *)
(* only leaves of a cycle have a snapshot.                                  *)
NodeRow(tree, leaves, k, i, snapshotOf) ==
  [tree |-> tree, level |-> k, position |-> i, hash |-> Levels(leaves)[k][i],
   left |-> IF k = 1 THEN 0 ELSE Left(i),
   right |-> IF k = 1 THEN 0 ELSE Right(i, Widths(Len(leaves))[k - 1]),
   snapshot |-> IF k = 1 THEN snapshotOf[i] ELSE <<>>]

Places(n) == UNION {{k} \X (1..Widths(n)[k]) : k \in 1..Height(n)}

Rows(tree, leaves, snapshotOf) ==
  {NodeRow(tree, leaves, p[1], p[2], snapshotOf) : p \in Places(Len(leaves))}

(* Rows are saved level by level. *)
Earlier(m, n) == m.level < n.level \/ (m.level = n.level /\ m.position < n.position)

NodesOf(tree) == {n \in nodes : n.tree = tree}

-----------------------------------------------------------------------------
(* A snapshot's content; its times have a zone, which isoformat prints and  *)
(* so is part of what is hashed.                                            *)
Content(id, summary) ==
  [model |-> id[1], at |-> id[2], zone |-> TRUE, summary |-> summary]

(* Variant with an error: the summary is not part of the hash. *)
CanonicalHashOfPeriod(content) == <<[content EXCEPT !.summary = 0]>>

CanonicalHash(content) == <<content>>

(* The chained root: of the previous cycle's and of this cycle's tree. *)
Chained(previous, root) == IF previous = <<>> THEN root ELSE <<previous, root>>

PreviousRoot == IF cycles = <<>> THEN <<>> ELSE Last(cycles).chained

(* commit_cycle saves the cycle's row and then its nodes. *)
CycleRow(root) ==
  [at |-> clock, previous |-> PreviousRoot, root |-> root,
   chained |-> Chained(PreviousRoot, root)]

(* A snapshot saved replaces what was saved under its id. *)
SaveAll(rows, saved) ==
  [id \in DOMAIN saved \cup DOMAIN rows |->
     IF id \in DOMAIN saved THEN saved[id] ELSE rows[id]]

-----------------------------------------------------------------------------
Init ==
  /\ clock = 1
  /\ snapshots = <<>>
  /\ cycles = <<>>
  /\ nodes = {}
  /\ committed = <<>>
  /\ checkpoints = <<>>
  /\ unsaved = {}
  /\ faults = 0
  /\ rewrites = 0

(* A commit ends in the second it started in: a later second changes nothing *)
(* for it.                                                                  *)
Tick ==
  /\ clock < MaxClock
  /\ unsaved = {}
  /\ clock' = clock + 1
  /\ UNCHANGED <<snapshots, cycles, nodes, committed, checkpoints, unsaved, faults, rewrites>>

LastTo == IF checkpoints = <<>> THEN 0 ELSE Last(checkpoints).to

PeriodStart == IF checkpoints = <<>> THEN clock - Interval ELSE LastTo

(* The loop waits between two cycles. *)
NewCycle ==
  /\ unsaved = {}
  /\ cycles # <<>> => Last(cycles).at < clock
  /\ LastTo < clock

Sorted(S) == {f \in [1..Cardinality(S) -> S] : \A i, j \in DOMAIN f : i < j => f[i] < f[j]}

(* A cycle's snapshots have been saved; commit_cycle sorts them by model    *)
(* and saves the cycle's row.                                               *)
CommitCycle ==
  /\ NewCycle
  /\ \E S \in Batches : \E models \in Sorted(S), summary \in Summaries :
       LET ids    == [i \in DOMAIN models |-> <<models[i], clock>>]
           leaves == [i \in DOMAIN models |-> CanonicalHash(Content(ids[i], summary))]
           saved  == [id \in S \X {clock} |-> Content(id, summary)]
       IN  /\ snapshots' = SaveAll(snapshots, saved)
           /\ committed' = SaveAll(committed, saved)
           /\ cycles' = Append(cycles, CycleRow(Root(leaves)))
           /\ unsaved' = Rows(<<"cycle", Len(cycles) + 1>>, leaves, ids)
  /\ UNCHANGED <<clock, nodes, checkpoints, faults, rewrites>>

(* The next node row of the running commit; a checkpoint's root is stored   *)
(* in its row once all its nodes are.                                       *)
SaveNode ==
  /\ \E n \in unsaved :
       /\ \A m \in unsaved : ~Earlier(m, n)
       /\ nodes' = nodes \cup {n}
       /\ unsaved' = unsaved \ {n}
       /\ checkpoints' =
            IF n.tree[1] = "checkpoint" /\ unsaved = {n}
            THEN [checkpoints EXCEPT ![n.tree[2]].root = n.hash]
            ELSE checkpoints
  /\ UNCHANGED <<clock, snapshots, cycles, committed, faults, rewrites>>

(* The rows at the places of I, a stretch of the table, in their order. *)
Stretch(I) == IF I = {} THEN <<>> ELSE SubSeq(cycles, Min(I), Max(I))

(* Variant with an error: the end of the period is excluded. *)
CyclesBefore(from, to) ==
  Stretch({i \in DOMAIN cycles : cycles[i].at >= from /\ cycles[i].at < to})

CyclesIn(from, to) ==
  Stretch({i \in DOMAIN cycles : cycles[i].at >= from /\ cycles[i].at <= to})

(* A checkpoint of a period with a cycle: its row, then the tree over the   *)
(* period's chained roots, then its root.                                   *)
CommitCheckpoint ==
  /\ unsaved = {}
  /\ cycles # <<>>
  /\ Last(cycles).at >= PeriodStart
  /\ checkpoints = <<>> \/ clock >= LastTo + Interval
  /\ LET period == CyclesIn(PeriodStart, clock)
         leaves == [i \in DOMAIN period |-> period[i].chained]
     IN  /\ checkpoints' =
              Append(checkpoints, [from |-> PeriodStart, to |-> clock, root |-> <<>>])
         /\ unsaved' = IF leaves = <<>> THEN {}
                       ELSE Rows(<<"checkpoint", Len(checkpoints) + 1>>, leaves,
                                 [i \in DOMAIN leaves |-> <<>>])
  /\ UNCHANGED <<clock, snapshots, cycles, nodes, committed, faults, rewrites>>

(* A node that cannot be saved, or a crash: the rest of the commit is lost  *)
(* and nothing comes back to it.                                            *)
CommitFails ==
  /\ unsaved # {}
  /\ faults < MaxFaults
  /\ faults' = faults + 1
  /\ unsaved' = {}
  /\ UNCHANGED <<clock, snapshots, cycles, nodes, committed, checkpoints, rewrites>>

(* A round scored by the predict-worker saves a snapshot under the id of    *)
(* the model and the second, whoever has saved one before, and commits it   *)
(* nowhere.                                                                 *)
SaveOutsideCycle ==
  /\ rewrites < MaxRewrites
  /\ rewrites' = rewrites + 1
  /\ \E m \in RoundModels, summary \in Summaries :
       snapshots' = SaveAll(snapshots, [id \in {<<m, clock>>} |-> Content(id, summary)])
  /\ UNCHANGED <<clock, cycles, nodes, committed, checkpoints, unsaved, faults>>

Next ==
  \/ Tick \/ CommitCycle \/ SaveNode \/ CommitCheckpoint \/ CommitFails
  \/ SaveOutsideCycle

Spec == Init /\ [][Next]_vars

-----------------------------------------------------------------------------
(* generate_proof: from the leaf up through the parents that were saved,    *)
(* the sibling's hash and side at each.                                     *)

Sibling(rows, parent, n) ==
  LET isLeft == parent.left = n.position
      other  == IF isLeft THEN parent.right ELSE parent.left
  IN  [side |-> IF isLeft THEN "right" ELSE "left",
       hash |-> (CHOOSE r \in rows : r.level = n.level /\ r.position = other).hash]

ParentsOf(rows, n) ==
  {p \in rows : p.level = n.level + 1 /\ n.position \in {p.left, p.right}}

(* One level up, or where it ends. *)
Above(rows, n) ==
  LET parents == ParentsOf(rows, n)
  IN  IF parents = {} THEN n ELSE CHOOSE p \in parents : TRUE

Path(rows, leaf) ==
  LET highest == Max({n.level : n \in rows})
      up[k \in 1..highest] == IF k = 1 THEN leaf ELSE Above(rows, up[k - 1])
  IN  [k \in 1..up[highest].level - 1 |-> Sibling(rows, up[k + 1], up[k])]

(* verify_proof, of the service and of scripts/verify_merkle.py. *)
Folded(hash, path) ==
  LET current[i \in 0..Len(path)] ==
        IF i = 0 THEN hash
        ELSE LET below == current[i - 1]
             IN  IF path[i].side = "right" THEN <<below, path[i].hash>>
                 ELSE <<path[i].hash, below>>
  IN  current[Len(path)]

VerifyProof(hash, path, root) == Folded(hash, path) = root

-----------------------------------------------------------------------------
(* get_proof, and what verify_merkle.py makes of it. *)

LeavesOf(id) == {n \in nodes : n.snapshot = id}
HasProof(id) == LeavesOf(id) # {}
LeafOf(id)   == CHOOSE n \in LeavesOf(id) : TRUE
CycleOf(id)  == cycles[LeafOf(id).tree[2]]
ProofOf(id)  == Path(NodesOf(LeafOf(id).tree), LeafOf(id))

CheckpointsOf(cycle) ==
  {n.tree[2] : n \in {n \in nodes : /\ n.tree[1] = "checkpoint"
                                    /\ n.level = 1
                                    /\ n.hash = cycle.chained}}

(* The page has the oldest rows, those of one second in any order. *)
OnPage(id) ==
  Cardinality({other \in DOMAIN snapshots : other[2] <= id[2]}) <= PageLimit

(* The reports show a snapshot without the zone of its times. *)
StripTz(content) == [content EXCEPT !.zone = FALSE]

(* The verifier's checks, on a content it has for the snapshot. *)
Checks(id, content) ==
  /\ HasProof(id)
  /\ OnPage(id)
  /\ CanonicalHash(content) = LeafOf(id).hash
  /\ VerifyProof(CanonicalHash(content), ProofOf(id), CycleOf(id).root)
  /\ CycleOf(id).chained = Chained(CycleOf(id).previous, CycleOf(id).root)

(* verify_merkle.py hashes what the page shows. *)
Passes(id) == Checks(id, StripTz(snapshots[id]))

-----------------------------------------------------------------------------
(* Properties *)

RootSaved(id) == \E n \in NodesOf(LeafOf(id).tree) : n.hash = CycleOf(id).root

(* What is shown, its times read as of the zone they were stripped of. *)
InZone(shown) == [shown EXCEPT !.zone = TRUE]

(* docs/merkle.md:68: anyone can verify a snapshot by recomputing its hash  *)
(* from its data. Whoever puts the zone back into what the page shows can:  *)
(* the checks hold exactly when the cycle's tree was saved up to its root   *)
(* and the row is still what was committed; one that another process saved  *)
(* since, under the id of the same second, is seen.  The script puts        *)
(* nothing back (verify_merkle.py:97) and passes no snapshot, changed or    *)
(* not.                                                                     *)
ChangeIsSeen ==
  \A id \in DOMAIN snapshots : HasProof(id) /\ OnPage(id) =>
    /\ Checks(id, InZone(StripTz(snapshots[id])))
         <=> RootSaved(id) /\ snapshots[id] = committed[id]
    /\ ~Passes(id)

(* A checkpoint whose root is stored binds every cycle of its period: the   *)
(* checkpoint found for a cycle has it as a leaf, and from that leaf its    *)
(* rows lead to the stored root.                                            *)
RootsBindCycles ==
  \A k \in DOMAIN checkpoints : checkpoints[k].root # <<>> =>
    \A c \in {c \in ToSet(cycles) : c.at \in checkpoints[k].from .. checkpoints[k].to} :
      /\ k \in CheckpointsOf(c)
      /\ LET rows == NodesOf(<<"checkpoint", k>>)
             leaf == CHOOSE n \in rows : n.level = 1 /\ n.hash = c.chained
         IN  VerifyProof(c.chained, Path(rows, leaf), checkpoints[k].root)
=============================================================================
