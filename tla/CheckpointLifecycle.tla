------------------------ MODULE CheckpointLifecycle ------------------------
(***************************************************************************)
(* What happens to a checkpoint's row after it is created: the report-      *)
(* worker's confirm and status endpoints, each running in a thread with a   *)
(* session of its own, beside the score-worker that adds the Merkle root.   *)
(*                                                                         *)
(* A handler finds the row, checks it, changes its copy and saves the copy: *)
(* DBCheckpointRepository.save reads the row again and writes the columns   *)
(* in which the copy differs.  Nothing locks the row in between.            *)
(***************************************************************************)
EXTENDS Integers

CONSTANTS
  Checkpoints,
  Txs,          \* transaction hashes a client can confirm with
  Handlers,     \* threads that serve requests
  NoTx,
  MaxRequests   \* bound: accepted requests in a behaviour

ASSUME LifecycleAssumption == NoTx \notin Txs /\ MaxRequests \in Nat

Statuses == {"PENDING", "SUBMITTED", "CLAIMABLE", "PAID"}
Position(status) ==
  CASE status = "none"      -> 0
    [] status = "PENDING"   -> 1
    [] status = "SUBMITTED" -> 2
    [] status = "CLAIMABLE" -> 3
    [] status = "PAID"      -> 4

VARIABLES
  row,          \* [Checkpoints -> [status, tx, root]], status "none" before it
  handler,      \* [Handlers -> [at, checkpoint, copy, fresh]]
  requests,     \* requests accepted so far
  \* history, read by the properties only
  confirmed,    \* [Checkpoints -> hashes whose confirm was answered]
  stored,       \* [Checkpoints -> statuses the row has had]
  overlapped    \* [Checkpoints -> two requests for it were in progress at once]

history == <<confirmed, stored, overlapped>>
vars == <<row, handler, requests, history>>

Row     == [status : Statuses \cup {"none"}, tx : Txs \cup {NoTx}, root : BOOLEAN]
NoRow   == [status |-> "none", tx |-> NoTx, root |-> FALSE]
Handler == [at : {"idle", "changed", "refetched"}, checkpoint : Checkpoints,
            copy : Row, fresh : Row]

TypeOK ==
  /\ row \in [Checkpoints -> Row]
  /\ handler \in [Handlers -> Handler]
  /\ requests \in 0..MaxRequests
  /\ confirmed \in [Checkpoints -> SUBSET Txs]
  /\ stored \in [Checkpoints -> SUBSET Statuses]
  /\ overlapped \in [Checkpoints -> BOOLEAN]

Init ==
  /\ row = [c \in Checkpoints |-> NoRow]
  /\ handler \in [Handlers -> {h \in Handler : /\ h.at = "idle"
                                               /\ h.copy = NoRow /\ h.fresh = NoRow}]
  /\ \A h, g \in Handlers : handler[h] = handler[g]
  /\ requests = 0
  /\ confirmed = [c \in Checkpoints |-> {}]
  /\ stored = [c \in Checkpoints |-> {}]
  /\ overlapped = [c \in Checkpoints |-> FALSE]

-----------------------------------------------------------------------------
(* The score-worker *)

CreateCheckpoint(c) ==
  /\ row[c].status = "none"
  /\ row' = [row EXCEPT ![c].status = "PENDING"]
  /\ stored' = [stored EXCEPT ![c] = {"PENDING"}]
  /\ UNCHANGED <<handler, requests, confirmed, overlapped>>

(* update_merkle_root touches one column. *)
UpdateMerkleRoot(c) ==
  /\ row[c].status # "none"
  /\ ~row[c].root
  /\ row' = [row EXCEPT ![c].root = TRUE]
  /\ UNCHANGED <<handler, requests, history>>

-----------------------------------------------------------------------------
(* The endpoints.  A request for an unknown checkpoint, in the wrong status *)
(* or without a hash is refused and changes nothing.                        *)

Serves(h, c) == handler[h].at # "idle" /\ handler[h].checkpoint = c

Accept(h, c, copy) ==
  /\ handler[h].at = "idle"
  /\ requests < MaxRequests
  /\ requests' = requests + 1
  /\ handler' = [handler EXCEPT ![h] =
                   [at |-> "changed", checkpoint |-> c, copy |-> copy, fresh |-> NoRow]]
  /\ overlapped' = [overlapped EXCEPT ![c] = @ \/ \E g \in Handlers : Serves(g, c)]
  /\ UNCHANGED <<row, confirmed, stored>>

confirm_checkpoint(h, c, tx) ==
  /\ row[c].status = "PENDING"
  /\ Accept(h, c, [row[c] EXCEPT !.status = "SUBMITTED", !.tx = tx])

(* Variant with an error: any later status is accepted. *)
AnyLater(from, to) ==
  from \in Statuses /\ to \in Statuses /\ Position(to) > Position(from)

ValidTransition(from, to) ==
  \/ from = "PENDING"   /\ to = "SUBMITTED"
  \/ from = "SUBMITTED" /\ to = "CLAIMABLE"
  \/ from = "CLAIMABLE" /\ to = "PAID"

update_checkpoint_status(h, c, status) ==
  /\ ValidTransition(row[c].status, status)
  /\ Accept(h, c, [row[c] EXCEPT !.status = status])

(* The handler is done: its session and its copy are gone. *)
Release(h) ==
  handler' = [handler EXCEPT ![h] = [at |-> "idle", checkpoint |-> @.checkpoint,
                                     copy |-> NoRow, fresh |-> NoRow]]

(* save: session.get finds the row; it was not kept by the session, so it   *)
(* is read again.                                                           *)
Refetch(h) ==
  /\ handler[h].at = "changed"
  /\ handler' = [handler EXCEPT ![h].at = "refetched",
                                ![h].fresh = row[handler[h].checkpoint]]
  /\ UNCHANGED <<row, requests, history>>

Merged(c, copy, fresh) ==
  [row[c] EXCEPT
     !.status = IF copy.status # fresh.status THEN copy.status ELSE @,
     !.tx     = IF copy.tx # fresh.tx THEN copy.tx ELSE @]

(* Variant with an error: the whole row is written, as the handler found it. *)
CommitWholeRow(h) ==
  LET c == handler[h].checkpoint
      copy == handler[h].copy
  IN  /\ handler[h].at = "refetched"
      /\ row' = [row EXCEPT ![c] = copy]
      /\ stored' = [stored EXCEPT ![c] = @ \cup {copy.status}]
      /\ confirmed' = IF copy.tx # NoTx
                        THEN [confirmed EXCEPT ![c] = @ \cup {copy.tx}]
                        ELSE confirmed
      /\ Release(h)
      /\ UNCHANGED <<requests, overlapped>>

(* Variant with an error: the hash is not among the saved columns. *)
CommitStatusOnly(h) ==
  LET c == handler[h].checkpoint
      copy == handler[h].copy
  IN  /\ handler[h].at = "refetched"
      /\ row' = [row EXCEPT ![c].status = copy.status]
      /\ stored' = [stored EXCEPT ![c] = @ \cup {copy.status}]
      /\ confirmed' = IF copy.tx # NoTx
                        THEN [confirmed EXCEPT ![c] = @ \cup {copy.tx}]
                        ELSE confirmed
      /\ Release(h)
      /\ UNCHANGED <<requests, overlapped>>

(* save's commit, and the answer. *)
Commit(h) ==
  LET c == handler[h].checkpoint
      copy == handler[h].copy
  IN  /\ handler[h].at = "refetched"
      /\ row' = [row EXCEPT ![c] = Merged(c, copy, handler[h].fresh)]
      /\ stored' = [stored EXCEPT ![c] = @ \cup {copy.status}]
      /\ confirmed' = IF copy.tx # NoTx
                        THEN [confirmed EXCEPT ![c] = @ \cup {copy.tx}]
                        ELSE confirmed
      /\ Release(h)
      /\ UNCHANGED <<requests, overlapped>>

(* The database call fails, or the process stops: nothing is written. *)
Drop(h) ==
  /\ handler[h].at # "idle"
  /\ Release(h)
  /\ UNCHANGED <<row, requests, history>>

-----------------------------------------------------------------------------
ScoreWorker == \E c \in Checkpoints : CreateCheckpoint(c) \/ UpdateMerkleRoot(c)

ReportWorker ==
  \E h \in Handlers :
    \/ \E c \in Checkpoints : \/ \E tx \in Txs : confirm_checkpoint(h, c, tx)
                              \/ \E s \in Statuses : update_checkpoint_status(h, c, s)
    \/ Refetch(h) \/ Commit(h) \/ Drop(h)

Next == ScoreWorker \/ ReportWorker

Spec == Init /\ [][Next]_vars
-----------------------------------------------------------------------------
(* Properties *)

(* The Merkle root of a checkpoint stays, whatever the endpoints save at    *)
(* the same time: save does not write that column.                          *)
RootKept == [][\A c \in Checkpoints : row[c].root => row'[c].root]_row

(* A status is stored only after the one before it was: no interleaving of  *)
(* requests brings a checkpoint to PAID that was never CLAIMABLE.           *)
PredecessorStored ==
  \A c \in Checkpoints : \A t \in stored[c] : \A s \in Statuses :
    Position(s) < Position(t) => s \in stored[c]

(* docs/database-schema.md:167, "Status lifecycle: PENDING -> SUBMITTED ->  *)
(* CLAIMABLE -> PAID": one status at a time and never back, for a           *)
(* checkpoint whose requests come one after the other.                      *)
StatusAdvancesAlone ==
  [][\A c \in Checkpoints : ~overlapped[c] =>
       Position(row'[c].status) \in
         {Position(row[c].status), Position(row[c].status) + 1}]_row

(* README.md:494, "Record tx_hash": a hash whose confirm was answered stays *)
(* on the row, so no second one is answered, when requests for the          *)
(* checkpoint come one after the other.                                     *)
ConfirmedTxKeptAlone ==
  \A c \in Checkpoints : ~overlapped[c] => \A tx \in confirmed[c] : row[c].tx = tx

-----------------------------------------------------------------------------
(* Strengthenings the proofs use.  What a handler is about to save follows  *)
(* a status its checkpoint has had ...                                      *)
LifecycleInv ==
  /\ TypeOK
  /\ PredecessorStored
  /\ \A c \in Checkpoints :
       IF row[c].status = "none" THEN stored[c] = {} ELSE row[c].status \in stored[c]
  /\ \A h \in Handlers : handler[h].at # "idle" =>
       /\ row[handler[h].checkpoint].status # "none"
       /\ handler[h].copy.status \in Statuses
       /\ \A s \in Statuses :
            Position(s) < Position(handler[h].copy.status)
              => s \in stored[handler[h].checkpoint]

(* ... and a handler alone with its checkpoint saves a change to the row as *)
(* it is now.                                                               *)
Alone(c) ==
  /\ \A tx \in confirmed[c] : row[c].tx = tx
  /\ row[c].status \in {"none", "PENDING"} => confirmed[c] = {}
  /\ \A h \in Handlers : Serves(h, c) =>
       /\ \A g \in Handlers : Serves(g, c) => g = h
       /\ ValidTransition(row[c].status, handler[h].copy.status)
       /\ handler[h].copy.tx = row[c].tx \/ row[c].status = "PENDING"
       /\ handler[h].at = "refetched" =>
            /\ handler[h].fresh.status = row[c].status
            /\ handler[h].fresh.tx = row[c].tx

AloneInv == \A c \in Checkpoints : ~overlapped[c] => Alone(c)
=============================================================================
