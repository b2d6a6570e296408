------------------------- MODULE Checkpoints_proofs -------------------------
(* Theorems about checkpoints: about CheckpointLifecycle, for any number of *)
(* checkpoints, hashes, handlers and requests, and about CheckpointRace,    *)
(* for any number of snapshots and clock readings.                          *)
EXTENDS CheckpointLifecycle, CheckpointRace, TLAPS

(* A handler that is done is well formed, the others are as they were. *)
LEMMA ReleaseStep ==
  ASSUME TypeOK, NEW h \in Handlers, Release(h)
  PROVE  /\ handler' \in [Handlers -> Handler]
         /\ \A g \in Handlers : handler'[g].at # "idle" => handler'[g] = handler[g]
<1>1. NoRow \in Row
  BY LifecycleAssumption DEF NoRow, Row
<1>2. handler[h].checkpoint \in Checkpoints
  BY DEF TypeOK, Handler
<1>3. [at |-> "idle", checkpoint |-> handler[h].checkpoint,
       copy |-> NoRow, fresh |-> NoRow] \in Handler
  BY <1>1, <1>2 DEF Handler
<1> QED
  BY <1>3 DEF TypeOK, Release

(* The row a commit leaves: a row, with the root it had and a status that   *)
(* is the handler's or the one it had.                                      *)
LEMMA MergedRow ==
  ASSUME TypeOK, NEW c \in Checkpoints, NEW copy \in Row, NEW fresh \in Row
  PROVE  /\ Merged(c, copy, fresh) \in Row
         /\ Merged(c, copy, fresh).root = row[c].root
         /\ Merged(c, copy, fresh).status =
              IF copy.status # fresh.status THEN copy.status ELSE row[c].status
         /\ Merged(c, copy, fresh).tx =
              IF copy.tx # fresh.tx THEN copy.tx ELSE row[c].tx
<1>1. row[c] \in Row
  BY DEF TypeOK
<1> QED
  BY <1>1 DEF Merged, Row

(* An accepted request leaves the rows alone and puts the copy, with the    *)
(* status it was changed to, in an idle handler.                            *)
LEMMA AcceptStep ==
  ASSUME LifecycleInv, NEW h \in Handlers, NEW c \in Checkpoints, NEW copy \in Row,
         copy.status \in Statuses, row[c].status # "none",
         \A s \in Statuses : Position(s) < Position(copy.status) => s \in stored[c],
         Accept(h, c, copy)
  PROVE  LifecycleInv'
<1> USE LifecycleAssumption
<1>1. handler' \in [Handlers -> Handler]
  BY DEF LifecycleInv, TypeOK, Accept, Handler, Row, NoRow
<1>2. TypeOK'
  BY <1>1 DEF LifecycleInv, TypeOK, Accept
<1>3. ASSUME NEW g \in Handlers, handler'[g].at # "idle"
      PROVE  \/ g # h /\ handler'[g] = handler[g]
             \/ handler'[g].checkpoint = c /\ handler'[g].copy = copy
  BY <1>3 DEF LifecycleInv, TypeOK, Accept
<1>4. UNCHANGED <<row, stored>>
  BY DEF Accept
<1>5. ASSUME NEW g \in Handlers, handler'[g].at # "idle"
      PROVE  /\ row[handler'[g].checkpoint].status # "none"
             /\ handler'[g].copy.status \in Statuses
             /\ \A s \in Statuses :
                  Position(s) < Position(handler'[g].copy.status)
                    => s \in stored[handler'[g].checkpoint]
  <2>1. CASE g # h /\ handler'[g] = handler[g]
    BY <2>1, <1>5 DEF LifecycleInv
  <2>2. CASE handler'[g].checkpoint = c /\ handler'[g].copy = copy
    BY <2>2
  <2> QED
    BY <1>3, <1>5, <2>1, <2>2
<1> QED
  BY <1>2, <1>4, <1>5 DEF LifecycleInv, PredecessorStored

(* What a status is changed to has all its predecessors among the stored.   *)
LEMMA NextStatus ==
  ASSUME LifecycleInv, NEW c \in Checkpoints, NEW to \in Statuses,
         ValidTransition(row[c].status, to)
  PROVE  /\ row[c].status # "none"
         /\ \A s \in Statuses : Position(s) < Position(to) => s \in stored[c]
<1>1. row[c].status \in Statuses /\ row[c].status \in stored[c]
  BY DEF LifecycleInv, ValidTransition, Statuses
<1>2. ASSUME NEW s \in Statuses, Position(s) < Position(to)
      PROVE  s = row[c].status \/ Position(s) < Position(row[c].status)
  BY <1>2 DEF ValidTransition, Statuses, Position
<1>3. \A s \in Statuses : Position(s) < Position(row[c].status) => s \in stored[c]
  BY <1>1 DEF LifecycleInv, PredecessorStored
<1> QED
  BY <1>1, <1>2, <1>3 DEF Statuses

THEOREM LifecycleInvariant == Spec => []LifecycleInv
<1>1. Init => LifecycleInv
  <2> SUFFICES ASSUME Init PROVE LifecycleInv
    OBVIOUS
  <2>1. TypeOK
    BY LifecycleAssumption DEF Init, TypeOK, Row, NoRow
  <2> QED
    BY <2>1 DEF Init, LifecycleInv, PredecessorStored, NoRow
<1>2. LifecycleInv /\ [Next]_vars => LifecycleInv'
  <2> SUFFICES ASSUME LifecycleInv, [Next]_vars PROVE LifecycleInv'
    OBVIOUS
  <2>0. TypeOK
    BY DEF LifecycleInv
  <2>1. ASSUME NEW c \in Checkpoints, CreateCheckpoint(c) PROVE LifecycleInv'
    <3>1. row[c] \in Row /\ row'[c] \in Row /\ row'[c].status = "PENDING"
      BY <2>0, <2>1 DEF TypeOK, CreateCheckpoint, Row, Statuses
    <3>2. TypeOK'
      BY <2>0, <2>1, <3>1 DEF TypeOK, CreateCheckpoint, Statuses
    <3>3. \A d \in Checkpoints : d # c => row'[d] = row[d] /\ stored'[d] = stored[d]
      BY <2>0, <2>1 DEF TypeOK, CreateCheckpoint
    <3>4. stored'[c] = {"PENDING"} /\ row[c].status = "none"
      BY <2>0, <2>1 DEF TypeOK, CreateCheckpoint
    <3>5. PredecessorStored'
      <4> SUFFICES ASSUME NEW d \in Checkpoints, NEW t \in stored'[d],
                          NEW s \in Statuses, Position(s) < Position(t)
                   PROVE  s \in stored'[d]
        BY DEF PredecessorStored
      <4>1. CASE d = c
        BY <4>1, <3>4 DEF Statuses, Position
      <4>2. CASE d # c
        BY <4>2, <3>3 DEF LifecycleInv, PredecessorStored
      <4> QED
        BY <4>1, <4>2
    <3>6. \A h \in Handlers : handler[h].at # "idle" => handler[h].checkpoint # c
      BY <3>4 DEF LifecycleInv
    <3>7. handler' = handler /\ \A h \in Handlers : handler[h].checkpoint \in Checkpoints
      BY <2>0, <2>1 DEF TypeOK, Handler, CreateCheckpoint
    <3> QED
      BY <3>1, <3>2, <3>3, <3>4, <3>5, <3>6, <3>7 DEF LifecycleInv
  <2>2. ASSUME NEW c \in Checkpoints, UpdateMerkleRoot(c) PROVE LifecycleInv'
    <3>1. \A d \in Checkpoints : row'[d] \in Row /\ row'[d].status = row[d].status
      BY <2>0, <2>2 DEF TypeOK, UpdateMerkleRoot, Row
    <3>2. row' \in [Checkpoints -> Row]
      BY <2>0, <2>2, <3>1 DEF TypeOK, UpdateMerkleRoot
    <3>3. TypeOK'
      BY <2>0, <2>2, <3>2 DEF TypeOK, UpdateMerkleRoot, history
    <3>4. UNCHANGED <<handler, stored>>
      BY <2>2 DEF UpdateMerkleRoot, history
    <3>5. \A h \in Handlers : handler[h].checkpoint \in Checkpoints
      BY <2>0 DEF TypeOK, Handler
    <3> QED
      BY <3>1, <3>3, <3>4, <3>5 DEF LifecycleInv, PredecessorStored
  <2>3. ASSUME NEW h \in Handlers, NEW c \in Checkpoints, NEW tx \in Txs,
               confirm_checkpoint(h, c, tx)
        PROVE  LifecycleInv'
    <3> DEFINE copy == [row[c] EXCEPT !.status = "SUBMITTED", !.tx = tx]
    <3>1. copy \in Row /\ copy.status = "SUBMITTED"
      BY <2>0 DEF TypeOK, Row, Statuses
    <3>2. ValidTransition(row[c].status, "SUBMITTED") /\ "SUBMITTED" \in Statuses
      BY <2>3 DEF confirm_checkpoint, ValidTransition, Statuses
    <3>3. Accept(h, c, copy)
      BY <2>3 DEF confirm_checkpoint
    <3> HIDE DEF copy
    <3> QED
      BY <3>1, <3>2, <3>3, NextStatus, AcceptStep
  <2>4. ASSUME NEW h \in Handlers, NEW c \in Checkpoints, NEW s \in Statuses,
               update_checkpoint_status(h, c, s)
        PROVE  LifecycleInv'
    <3> DEFINE copy == [row[c] EXCEPT !.status = s]
    <3>1. copy \in Row /\ copy.status = s
      BY <2>0 DEF TypeOK, Row
    <3>2. ValidTransition(row[c].status, s) /\ Accept(h, c, copy)
      BY <2>4 DEF update_checkpoint_status
    <3> HIDE DEF copy
    <3> QED
      BY <3>1, <3>2, NextStatus, AcceptStep
  <2>5. ASSUME NEW h \in Handlers, Refetch(h) PROVE LifecycleInv'
    <3>1. handler' \in [Handlers -> Handler]
      BY <2>0, <2>5 DEF TypeOK, Refetch, Handler
    <3>2. TypeOK'
      BY <2>0, <2>5, <3>1 DEF TypeOK, Refetch, history
    <3>3. \A g \in Handlers : /\ handler'[g].checkpoint = handler[g].checkpoint
                              /\ handler'[g].copy = handler[g].copy
                              /\ handler'[g].at # "idle" => handler[g].at # "idle"
      BY <2>0, <2>5 DEF TypeOK, Refetch, Handler
    <3>4. UNCHANGED <<row, stored>>
      BY <2>5 DEF Refetch, history
    <3> QED
      BY <3>2, <3>3, <3>4 DEF LifecycleInv, PredecessorStored
  <2>6. ASSUME NEW h \in Handlers, Commit(h) PROVE LifecycleInv'
    <3> DEFINE c == handler[h].checkpoint
               copy == handler[h].copy
               fresh == handler[h].fresh
    <3>1. c \in Checkpoints /\ copy \in Row /\ fresh \in Row
      BY <2>0 DEF TypeOK, Handler
    <3>2. /\ row' = [row EXCEPT ![c] = Merged(c, copy, fresh)]
          /\ stored' = [stored EXCEPT ![c] = @ \cup {copy.status}]
          /\ handler[h].at = "refetched"
      BY <2>6 DEF Commit
    <3>3. /\ row[c].status # "none" /\ copy.status \in Statuses
          /\ \A s \in Statuses : Position(s) < Position(copy.status) => s \in stored[c]
      BY <3>2 DEF LifecycleInv
    <3>4. row' \in [Checkpoints -> Row]
      BY <2>0, <3>1, <3>2, MergedRow DEF TypeOK
    <3>5. stored' \in [Checkpoints -> SUBSET Statuses]
      BY <2>0, <3>1, <3>2, <3>3 DEF TypeOK
    <3>6. handler' \in [Handlers -> Handler]
      BY <2>0, <2>6, ReleaseStep DEF Commit
    <3>7. confirmed' \in [Checkpoints -> SUBSET Txs]
      <4>1. copy.tx \in Txs \cup {NoTx}
        BY <3>1 DEF Row
      <4> QED
        BY <2>0, <2>6, <3>1, <4>1 DEF TypeOK, Commit
    <3>8. TypeOK'
      BY <2>0, <2>6, <3>4, <3>5, <3>6, <3>7 DEF TypeOK, Commit
    <3>9. \A d \in Checkpoints :
            /\ d # c => row'[d] = row[d] /\ stored'[d] = stored[d]
            /\ stored[d] \subseteq stored'[d]
      BY <2>0, <3>1, <3>2 DEF TypeOK
    <3>10. /\ row'[c].status \in {copy.status, row[c].status}
           /\ stored'[c] = stored[c] \cup {copy.status}
      BY <2>0, <3>1, <3>2, MergedRow DEF TypeOK
    <3>11. row[c].status \in stored[c]
      BY <3>1, <3>3 DEF LifecycleInv
    <3>12. PredecessorStored'
      <4> SUFFICES ASSUME NEW d \in Checkpoints, NEW t \in stored'[d],
                          NEW s \in Statuses, Position(s) < Position(t)
                   PROVE  s \in stored'[d]
        BY DEF PredecessorStored
      <4>1. CASE t \in stored[d]
        BY <4>1, <3>9 DEF LifecycleInv, PredecessorStored
      <4>2. CASE d = c /\ t = copy.status
        BY <4>2, <3>3, <3>9
      <4> QED
        BY <4>1, <4>2, <3>9, <3>10
    <3>13. \A d \in Checkpoints :
             IF row'[d].status = "none" THEN stored'[d] = {}
             ELSE row'[d].status \in stored'[d]
      <4> SUFFICES ASSUME NEW d \in Checkpoints
                   PROVE  IF row'[d].status = "none" THEN stored'[d] = {}
                          ELSE row'[d].status \in stored'[d]
        OBVIOUS
      <4>1. CASE d = c
        BY <4>1, <3>3, <3>10, <3>11 DEF Statuses
      <4>2. CASE d # c
        BY <4>2, <3>9 DEF LifecycleInv
      <4> QED
        BY <4>1, <4>2
    <3>14. \A g \in Handlers : handler'[g].at # "idle" => handler'[g] = handler[g]
      BY <2>0, <2>6, ReleaseStep DEF Commit
    <3>15. \A d \in Checkpoints : row[d].status # "none" => row'[d].status # "none"
      BY <3>3, <3>9, <3>10 DEF Statuses
    <3>16. \A g \in Handlers : handler[g].checkpoint \in Checkpoints
      BY <2>0 DEF TypeOK, Handler
    <3> HIDE DEF c, copy, fresh
    <3>17. ASSUME NEW g \in Handlers, handler'[g].at # "idle"
           PROVE  /\ row'[handler'[g].checkpoint].status # "none"
                  /\ handler'[g].copy.status \in Statuses
                  /\ \A s \in Statuses :
                       Position(s) < Position(handler'[g].copy.status)
                         => s \in stored'[handler'[g].checkpoint]
      <4>1. handler'[g] = handler[g] /\ handler[g].at # "idle"
        BY <3>14, <3>17
      <4> QED
        BY <4>1, <3>9, <3>15, <3>16 DEF LifecycleInv
    <3> QED
      BY <3>8, <3>12, <3>13, <3>17 DEF LifecycleInv
  <2>7. ASSUME NEW h \in Handlers, Drop(h) PROVE LifecycleInv'
    <3>1. handler' \in [Handlers -> Handler]
      BY <2>0, <2>7, ReleaseStep DEF Drop
    <3>2. TypeOK'
      BY <2>0, <2>7, <3>1 DEF TypeOK, Drop, history
    <3>3. \A g \in Handlers : handler'[g].at # "idle" => handler'[g] = handler[g]
      BY <2>0, <2>7, ReleaseStep DEF Drop
    <3>4. UNCHANGED <<row, stored>>
      BY <2>7 DEF Drop, history
    <3> QED
      BY <3>2, <3>3, <3>4 DEF LifecycleInv, PredecessorStored
  <2>8. CASE UNCHANGED vars
    BY <2>8 DEF vars, LifecycleInv, TypeOK, PredecessorStored, history
  <2> QED
    BY <2>1, <2>2, <2>3, <2>4, <2>5, <2>6, <2>7, <2>8 DEF Next, ScoreWorker, ReportWorker
<1> QED
  BY <1>1, <1>2, PTL DEF Spec

(* Whatever the number of requests in flight, a status is stored only after *)
(* the one before it was.                                                   *)
THEOREM PredecessorsFirst == Spec => []PredecessorStored
<1>1. LifecycleInv => PredecessorStored
  BY DEF LifecycleInv
<1> QED
  BY <1>1, LifecycleInvariant, PTL

(* No endpoint ever takes a checkpoint's Merkle root away. *)
THEOREM RootStays == Spec => RootKept
<1>1. LifecycleInv /\ [Next]_vars =>
        [\A c \in Checkpoints : row[c].root => row'[c].root]_row
  <2> SUFFICES ASSUME LifecycleInv, [Next]_vars, NEW c \in Checkpoints
               PROVE  row' = row \/ (row[c].root => row'[c].root)
    OBVIOUS
  <2>0. TypeOK /\ row[c] \in Row
    BY DEF LifecycleInv, TypeOK
  <2>1. ASSUME NEW d \in Checkpoints, CreateCheckpoint(d) PROVE row[c].root => row'[c].root
    BY <2>0, <2>1 DEF TypeOK, CreateCheckpoint, Row
  <2>2. ASSUME NEW d \in Checkpoints, UpdateMerkleRoot(d) PROVE row[c].root => row'[c].root
    BY <2>0, <2>2 DEF TypeOK, UpdateMerkleRoot, Row
  <2>3. ASSUME NEW h \in Handlers, Commit(h) PROVE row[c].root => row'[c].root
    <3>1. /\ handler[h].checkpoint \in Checkpoints
          /\ handler[h].copy \in Row /\ handler[h].fresh \in Row
      BY <2>0 DEF TypeOK, Handler
    <3> QED
      BY <2>0, <2>3, <3>1, MergedRow DEF TypeOK, Commit
  <2>4. ASSUME NEW h \in Handlers,
               \/ Refetch(h) \/ Drop(h)
               \/ \E d \in Checkpoints : \/ \E tx \in Txs : confirm_checkpoint(h, d, tx)
                                         \/ \E s \in Statuses : update_checkpoint_status(h, d, s)
        PROVE  row' = row
    BY <2>4 DEF Refetch, Drop, confirm_checkpoint, update_checkpoint_status, Accept
  <2>5. CASE UNCHANGED vars
    BY <2>5 DEF vars
  <2> QED
    BY <2>1, <2>2, <2>3, <2>4, <2>5 DEF Next, ScoreWorker, ReportWorker
<1> QED
  BY <1>1, LifecycleInvariant, PTL DEF Spec, RootKept

-----------------------------------------------------------------------------
(* Requests that come one after the other *)

(* A checkpoint whose row's status and hash a step leaves alone, and whose  *)
(* handlers can only be done, is as it was.                                 *)
LEMMA AloneKept ==
  ASSUME NEW c \in Checkpoints, Alone(c),
         row'[c].status = row[c].status, row'[c].tx = row[c].tx,
         confirmed'[c] = confirmed[c],
         \A h \in Handlers : Serves(h, c)' => Serves(h, c) /\ handler'[h] = handler[h]
  PROVE  Alone(c)'
BY DEF Alone

LEMMA AloneAccept ==
  ASSUME LifecycleInv, AloneInv, NEW h \in Handlers, NEW c \in Checkpoints,
         NEW copy \in Row, Accept(h, c, copy),
         ValidTransition(row[c].status, copy.status),
         copy.tx = row[c].tx \/ row[c].status = "PENDING"
  PROVE  AloneInv'
<1>1. /\ handler[h].at = "idle"
      /\ handler'[h].at = "changed" /\ handler'[h].checkpoint = c
      /\ handler'[h].copy = copy
      /\ \A g \in Handlers : g # h => handler'[g] = handler[g]
      /\ UNCHANGED <<row, confirmed>>
  BY DEF LifecycleInv, TypeOK, Accept
<1>2. \A d \in Checkpoints : d # c => overlapped'[d] = overlapped[d]
  BY DEF LifecycleInv, TypeOK, Accept
<1>3. ~overlapped'[c] => ~overlapped[c] /\ \A g \in Handlers : ~Serves(g, c)
  <2> DEFINE met == overlapped[c] \/ \E g \in Handlers : Serves(g, c)
  <2>1. overlapped' = [overlapped EXCEPT ![c] = met]
    BY DEF Accept
  <2>2. overlapped'[c] = met
    BY <2>1 DEF LifecycleInv, TypeOK
  <2> QED
    BY <2>2
<1>4. ASSUME NEW d \in Checkpoints, ~overlapped'[d], d # c
      PROVE  Alone(d)'
  <2>1. Alone(d)
    BY <1>2, <1>4 DEF AloneInv
  <2>2. \A g \in Handlers : Serves(g, d)' => Serves(g, d) /\ handler'[g] = handler[g]
    BY <1>1, <1>4 DEF Serves
  <2> QED
    BY <1>1, <2>1, <2>2, AloneKept
<1>5. ASSUME ~overlapped'[c]
      PROVE  Alone(c)'
  <2>1. Alone(c) /\ \A g \in Handlers : ~Serves(g, c)
    BY <1>3, <1>5 DEF AloneInv
  <2>2. \A g \in Handlers : Serves(g, c)' => g = h
    BY <1>1, <2>1 DEF Serves
  <2> QED
    BY <1>1, <2>1, <2>2 DEF Alone
<1> QED
  BY <1>4, <1>5 DEF AloneInv

(* What a commit does to the row of a handler that is alone with it.        *)
LEMMA CommitAlone ==
  ASSUME LifecycleInv, AloneInv, NEW h \in Handlers, Commit(h),
         NEW c \in Checkpoints, c = handler[h].checkpoint, ~overlapped[c]
  PROVE  /\ ValidTransition(row[c].status, row'[c].status)
         /\ row'[c].tx = row[c].tx \/ row[c].status = "PENDING"
         /\ \A g \in Handlers : ~Serves(g, c)'
         /\ \A tx \in confirmed'[c] : tx \in confirmed[c] \/ tx = row'[c].tx
<1> DEFINE copy == handler[h].copy
           fresh == handler[h].fresh
<1>1. /\ copy \in Row /\ fresh \in Row /\ row[c] \in Row
      /\ handler[h].at = "refetched"
      /\ row' = [row EXCEPT ![c] = Merged(c, copy, fresh)]
  BY DEF LifecycleInv, TypeOK, Handler, Commit
<1>2. Alone(c) /\ Serves(h, c)
  BY <1>1 DEF AloneInv, Serves
<1>3. /\ fresh.status = row[c].status /\ fresh.tx = row[c].tx
      /\ ValidTransition(row[c].status, copy.status)
      /\ copy.tx = row[c].tx \/ row[c].status = "PENDING"
      /\ \A g \in Handlers : Serves(g, c) => g = h
  BY <1>1, <1>2 DEF Alone
<1>4. row'[c] = Merged(c, copy, fresh)
  BY <1>1 DEF LifecycleInv, TypeOK
<1>5. row'[c].status = copy.status /\ row'[c].tx = copy.tx
  <2>1. /\ row'[c].status = IF copy.status # fresh.status THEN copy.status ELSE row[c].status
        /\ row'[c].tx = IF copy.tx # fresh.tx THEN copy.tx ELSE row[c].tx
    BY <1>1, <1>4, MergedRow DEF LifecycleInv
  <2> QED
    BY <1>3, <2>1
<1>6. \A g \in Handlers : ~Serves(g, c)'
  <2>1. handler'[h].at = "idle" /\ \A g \in Handlers : g # h => handler'[g] = handler[g]
    BY DEF Commit, Release, LifecycleInv, TypeOK
  <2> QED
    BY <1>3, <2>1 DEF Serves
<1>7. \A tx \in confirmed'[c] : tx \in confirmed[c] \/ tx = copy.tx
  BY <1>1 DEF Commit, LifecycleInv, TypeOK
<1> QED
  BY <1>3, <1>5, <1>6, <1>7

(* A commit for one checkpoint leaves the others as they were. *)
LEMMA CommitOthers ==
  ASSUME TypeOK, NEW h \in Handlers, Commit(h),
         NEW d \in Checkpoints, d # handler[h].checkpoint
  PROVE  /\ row'[d] = row[d] /\ confirmed'[d] = confirmed[d]
         /\ \A g \in Handlers : Serves(g, d)' => Serves(g, d) /\ handler'[g] = handler[g]
<1>1. handler[h].checkpoint \in Checkpoints
  BY DEF TypeOK, Handler
<1>2. row'[d] = row[d] /\ confirmed'[d] = confirmed[d]
  BY <1>1 DEF Commit, TypeOK
<1>3. handler'[h].at = "idle" /\ \A g \in Handlers : g # h => handler'[g] = handler[g]
  BY DEF Commit, Release, TypeOK
<1> QED
  BY <1>2, <1>3 DEF Serves

THEOREM AloneInvariant == Spec => []AloneInv
<1>1. Init => AloneInv
  BY DEF Init, AloneInv, Alone, Serves
<1>2. LifecycleInv /\ AloneInv /\ [Next]_vars => AloneInv'
  <2> SUFFICES ASSUME LifecycleInv, AloneInv, [Next]_vars PROVE AloneInv'
    OBVIOUS
  <2>0. TypeOK
    BY DEF LifecycleInv
  <2>1. ASSUME NEW c \in Checkpoints, CreateCheckpoint(c) PROVE AloneInv'
    <3>1. /\ \A d \in Checkpoints : d # c => row'[d] = row[d]
          /\ row[c].status = "none" /\ row'[c].status = "PENDING"
          /\ UNCHANGED <<handler, confirmed, overlapped>>
      BY <2>0, <2>1 DEF TypeOK, CreateCheckpoint, Row
    <3>2. \A h \in Handlers : ~Serves(h, c)
      BY <3>1 DEF LifecycleInv, Serves
    <3>3. ~overlapped[c] => Alone(c)'
      BY <3>1, <3>2 DEF AloneInv, Alone, Serves
    <3>4. \A d \in Checkpoints : d # c /\ ~overlapped[d] => Alone(d)'
      BY <3>1, AloneKept DEF AloneInv, Serves
    <3> QED
      BY <3>1, <3>3, <3>4 DEF AloneInv
  <2>2. ASSUME NEW c \in Checkpoints, UpdateMerkleRoot(c) PROVE AloneInv'
    <3>1. /\ \A d \in Checkpoints : row'[d].status = row[d].status /\ row'[d].tx = row[d].tx
          /\ UNCHANGED <<handler, confirmed, overlapped>>
      BY <2>0, <2>2 DEF TypeOK, UpdateMerkleRoot, Row, history
    <3> QED
      BY <3>1, AloneKept DEF AloneInv, Serves
  <2>3. ASSUME NEW h \in Handlers, NEW c \in Checkpoints, NEW tx \in Txs,
               confirm_checkpoint(h, c, tx)
        PROVE  AloneInv'
    <3> DEFINE copy == [row[c] EXCEPT !.status = "SUBMITTED", !.tx = tx]
    <3>1. copy \in Row /\ copy.status = "SUBMITTED"
      BY <2>0 DEF TypeOK, Row, Statuses
    <3>2. ValidTransition(row[c].status, "SUBMITTED") /\ row[c].status = "PENDING"
      BY <2>3 DEF confirm_checkpoint, ValidTransition
    <3>3. Accept(h, c, copy)
      BY <2>3 DEF confirm_checkpoint
    <3> HIDE DEF copy
    <3> QED
      BY <3>1, <3>2, <3>3, AloneAccept
  <2>4. ASSUME NEW h \in Handlers, NEW c \in Checkpoints, NEW s \in Statuses,
               update_checkpoint_status(h, c, s)
        PROVE  AloneInv'
    <3> DEFINE copy == [row[c] EXCEPT !.status = s]
    <3>1. copy \in Row /\ copy.status = s /\ copy.tx = row[c].tx
      BY <2>0 DEF TypeOK, Row
    <3>2. ValidTransition(row[c].status, s) /\ Accept(h, c, copy)
      BY <2>4 DEF update_checkpoint_status
    <3> HIDE DEF copy
    <3> QED
      BY <3>1, <3>2, AloneAccept
  <2>5. ASSUME NEW h \in Handlers, Refetch(h) PROVE AloneInv'
    <3>1. /\ \A g \in Handlers : /\ handler'[g].checkpoint = handler[g].checkpoint
                                 /\ handler'[g].copy = handler[g].copy
                                 /\ g # h => handler'[g] = handler[g]
          /\ handler[h].at = "changed"
          /\ handler'[h].fresh = row[handler[h].checkpoint]
          /\ UNCHANGED <<row, confirmed, overlapped>>
      BY <2>0, <2>5 DEF TypeOK, Refetch, Handler, history
    <3>2. \A d \in Checkpoints : \A g \in Handlers : Serves(g, d)' => Serves(g, d)
      BY <3>1 DEF Serves
    <3> QED
      BY <3>1, <3>2 DEF AloneInv, Alone, Serves
  <2>6. ASSUME NEW h \in Handlers, Commit(h) PROVE AloneInv'
    <3>1. overlapped' = overlapped
      BY <2>6 DEF Commit
    <3>2. ASSUME NEW c \in Checkpoints, c = handler[h].checkpoint, ~overlapped[c]
          PROVE  Alone(c)'
      <4>1. /\ ValidTransition(row[c].status, row'[c].status)
            /\ row'[c].tx = row[c].tx \/ row[c].status = "PENDING"
            /\ \A g \in Handlers : ~Serves(g, c)'
            /\ \A tx \in confirmed'[c] : tx \in confirmed[c] \/ tx = row'[c].tx
        BY <2>6, <3>2, CommitAlone
      <4>2. Alone(c)
        BY <3>2 DEF AloneInv
      <4>3. row'[c].status \notin {"none", "PENDING"}
        BY <4>1 DEF ValidTransition
      <4>4. \A tx \in confirmed'[c] : row'[c].tx = tx
        BY <4>1, <4>2 DEF Alone
      <4> QED
        BY <4>1, <4>3, <4>4 DEF Alone
    <3>3. ASSUME NEW d \in Checkpoints, d # handler[h].checkpoint,
                 ~overlapped[d] PROVE Alone(d)'
      <4>1. Alone(d)
        BY <3>3 DEF AloneInv
      <4> QED
        BY <4>1, <2>0, <2>6, <3>3, CommitOthers, AloneKept
    <3> QED
      BY <3>1, <3>2, <3>3 DEF AloneInv
  <2>7. ASSUME NEW h \in Handlers, Drop(h) PROVE AloneInv'
    <3>1. /\ handler'[h].at = "idle" /\ \A g \in Handlers : g # h => handler'[g] = handler[g]
          /\ UNCHANGED <<row, confirmed, overlapped>>
      BY <2>0, <2>7 DEF Drop, Release, TypeOK, history
    <3>2. \A d \in Checkpoints : \A g \in Handlers :
            Serves(g, d)' => Serves(g, d) /\ handler'[g] = handler[g]
      BY <3>1 DEF Serves
    <3> QED
      BY <3>1, <3>2, AloneKept DEF AloneInv
  <2>8. CASE UNCHANGED vars
    BY <2>8 DEF vars, history, AloneInv, Alone, Serves
  <2> QED
    BY <2>1, <2>2, <2>3, <2>4, <2>5, <2>6, <2>7, <2>8 DEF Next, ScoreWorker, ReportWorker
<1> QED
  BY <1>1, <1>2, LifecycleInvariant, PTL DEF Spec

(* While requests for a checkpoint come one after the other, the hash whose *)
(* confirm was answered stays on its row.                                   *)
THEOREM ConfirmedStaysAlone == Spec => []ConfirmedTxKeptAlone
<1>1. AloneInv => ConfirmedTxKeptAlone
  BY DEF AloneInv, Alone, ConfirmedTxKeptAlone
<1> QED
  BY <1>1, AloneInvariant, PTL

(* ... and its status goes forward one position at a time.                  *)
THEOREM StatusAdvances == Spec => StatusAdvancesAlone
<1>1. LifecycleInv /\ AloneInv /\ [Next]_vars =>
        [\A c \in Checkpoints : ~overlapped[c] =>
           Position(row'[c].status) \in
             {Position(row[c].status), Position(row[c].status) + 1}]_row
  <2> SUFFICES ASSUME LifecycleInv, AloneInv, [Next]_vars,
                      NEW c \in Checkpoints, ~overlapped[c]
               PROVE  row' = row \/ Position(row'[c].status) \in
                        {Position(row[c].status), Position(row[c].status) + 1}
    OBVIOUS
  <2>0. TypeOK /\ row[c] \in Row
    BY DEF LifecycleInv, TypeOK
  <2>1. ASSUME NEW d \in Checkpoints, CreateCheckpoint(d)
        PROVE  \/ row'[c].status = row[c].status
               \/ row[c].status = "none" /\ row'[c].status = "PENDING"
    BY <2>0, <2>1 DEF TypeOK, CreateCheckpoint, Row
  <2>2. ASSUME NEW d \in Checkpoints, UpdateMerkleRoot(d)
        PROVE  row'[c].status = row[c].status
    BY <2>0, <2>2 DEF TypeOK, UpdateMerkleRoot, Row
  <2>3. ASSUME NEW h \in Handlers, Commit(h)
        PROVE  \/ row'[c].status = row[c].status
               \/ ValidTransition(row[c].status, row'[c].status)
    <3>1. CASE c = handler[h].checkpoint
      BY <2>3, <3>1, CommitAlone
    <3>2. CASE c # handler[h].checkpoint
      BY <2>0, <2>3, <3>2, CommitOthers
    <3> QED
      BY <3>1, <3>2
  <2>4. ASSUME NEW h \in Handlers,
               \/ Refetch(h) \/ Drop(h)
               \/ \E d \in Checkpoints : \/ \E tx \in Txs : confirm_checkpoint(h, d, tx)
                                         \/ \E s \in Statuses : update_checkpoint_status(h, d, s)
        PROVE  row' = row
    BY <2>4 DEF Refetch, Drop, confirm_checkpoint, update_checkpoint_status, Accept
  <2>5. CASE UNCHANGED vars
    BY <2>5 DEF vars
  <2>6. ASSUME \/ row'[c].status = row[c].status
               \/ row[c].status = "none" /\ row'[c].status = "PENDING"
               \/ ValidTransition(row[c].status, row'[c].status)
        PROVE  Position(row'[c].status) \in
                 {Position(row[c].status), Position(row[c].status) + 1}
    <3>1. ASSUME NEW from, NEW to, ValidTransition(from, to)
          PROVE  Position(to) = Position(from) + 1
      BY <3>1 DEF Position, ValidTransition
    <3>2. Position("PENDING") = Position("none") + 1
      BY DEF Position
    <3> QED
      BY <2>6, <3>1, <3>2
  <2> QED
    BY <2>1, <2>2, <2>3, <2>4, <2>5, <2>6 DEF Next, ScoreWorker, ReportWorker
<1> QED
  BY <1>1, LifecycleInvariant, AloneInvariant, PTL DEF Spec, StatusAdvancesAlone

-----------------------------------------------------------------------------
(* CheckpointRace: what holds however many processes create checkpoints. *)

LEMMA RaceStarts == RaceInit => RaceInv
BY DEF RaceInit, RaceInv, RaceTypeOK

(* What every step but the scorer's first and the clock readings leaves. *)
LEMMA RaceStartCycle == RaceInv /\ StartCycle => RaceInv'
<1> SUFFICES ASSUME RaceInv, StartCycle PROVE RaceInv'
  OBVIOUS
<1>1. RaceTypeOK'
  BY DEF RaceInv, RaceTypeOK, StartCycle
<1>2. /\ Scorer \in Creators /\ now'[Scorer] = clock /\ at'[Scorer] = "cycle"
      /\ \A p \in Creators : p # Scorer => now'[p] = now[p] /\ at'[p] = at[p]
      /\ at[Scorer] = "idle" /\ clock' = clock + 1 /\ clock \in Nat
      /\ UNCHANGED <<snapshots, checkpoints, start, found>>
  BY DEF RaceInv, RaceTypeOK, StartCycle
<1>3. \A p \in Creators : at'[p] \in {"find", "save"} => p # Scorer /\ at[p] = at'[p]
  BY <1>2
<1>4. \A p \in Creators : now'[p] < clock'
  BY <1>2 DEF RaceInv, RaceTypeOK
<1>5. (\A k \in checkpoints : k.end < clock')
  BY <1>2 DEF RaceInv, RaceTypeOK, Checkpoint
<1>6. (\A s \in snapshots : s.at < clock')
  BY <1>2 DEF RaceInv, RaceTypeOK, Snapshot
<1>7. \A k \in checkpoints : k.end # clock
  BY DEF RaceInv, RaceTypeOK, Checkpoint
<1>8. \A p \in Creators : at'[p] \in {"find", "save"} =>
        /\ \A s \in snapshots' : s.at # now'[p]
        /\ \A k \in checkpoints' : k.end # now'[p]
        /\ start'[p] <= now'[p]
        /\ Scorer \in Creators /\ at'[Scorer] = "cycle" => now'[p] # now'[Scorer]
  BY <1>2, <1>3 DEF RaceInv, RaceTypeOK
<1> QED
  BY <1>1, <1>2, <1>3, <1>4, <1>5, <1>6, <1>7, <1>8 DEF RaceInv

LEMMA RaceSaveSnapshot ==
  ASSUME RaceInv, NEW m \in Models, SaveSnapshot(m)
  PROVE  RaceInv'
<1> DEFINE s == [model |-> m, at |-> now[Scorer]]
<1>1. /\ Scorer \in Creators /\ at[Scorer] = "cycle" /\ s \in Snapshot
      /\ snapshots' = snapshots \cup {s}
      /\ UNCHANGED <<clock, checkpoints, at, now, start, first, found>>
  BY DEF RaceInv, RaceTypeOK, SaveSnapshot, Snapshot
<1>2. RaceTypeOK'
  <2>1. late' \subseteq late \cup {s}
    BY DEF SaveSnapshot
  <2> HIDE DEF s
  <2> QED
    BY <1>1, <2>1 DEF RaceInv, RaceTypeOK
<1>3. /\ s.at < clock
      /\ \A k \in checkpoints : s.at # k.end
      /\ \A p \in Creators : at[p] \in {"find", "save"} => s.at # now[p]
  BY <1>1 DEF RaceInv
<1> HIDE DEF s
<1> QED
  BY <1>1, <1>2, <1>3 DEF RaceInv

LEMMA RaceEndCycle == RaceInv /\ EndCycle => RaceInv'
<1> SUFFICES ASSUME RaceInv, EndCycle PROVE RaceInv'
  OBVIOUS
<1>1. RaceTypeOK'
  BY DEF RaceInv, RaceTypeOK, EndCycle
<1>2. /\ \A p \in Creators : at'[p] \in {"find", "save"} => at'[p] = at[p]
      /\ Scorer \in Creators => at'[Scorer] # "cycle"
      /\ UNCHANGED <<clock, snapshots, checkpoints, now, start, found>>
  BY DEF RaceInv, RaceTypeOK, EndCycle
<1> QED
  BY <1>1, <1>2 DEF RaceInv

LEMMA RaceReadLatest ==
  ASSUME RaceInv, NEW p \in Creators, ReadLatest(p)
  PROVE  RaceInv'
<1>1. /\ now' = [now EXCEPT ![p] = clock] /\ clock' = clock + 1
      /\ at' = [at EXCEPT ![p] = "find"]
      /\ UNCHANGED <<snapshots, checkpoints, found>>
  BY DEF ReadLatest
<1>2. PICK t \in Int : /\ start' = [start EXCEPT ![p] = t]
                       /\ t <= clock /\ \A k \in checkpoints : k.end <= t
  BY DEF ReadLatest, Latest, RaceInv, RaceTypeOK, Checkpoint
<1>3. RaceTypeOK'
  <2>1. first' \in [Creators -> BOOLEAN] /\ late' = late
    <3>1. CASE checkpoints = {}
      <4>1. first' = [first EXCEPT ![p] = TRUE] /\ late' = late
        BY <3>1 DEF ReadLatest
      <4> QED
        BY <4>1 DEF RaceInv, RaceTypeOK
    <3>2. CASE checkpoints # {}
      <4>1. first' = [first EXCEPT ![p] = FALSE] /\ late' = late
        BY <3>2 DEF ReadLatest
      <4> QED
        BY <4>1 DEF RaceInv, RaceTypeOK
    <3> QED
      BY <3>1, <3>2
  <2>2. /\ clock' \in Nat
        /\ at' \in [Creators -> {"idle", "cycle", "find", "save"}]
        /\ now' \in [Creators -> Nat]
        /\ start' \in [Creators -> Int]
    BY <1>1, <1>2 DEF RaceInv, RaceTypeOK
  <2>3. UNCHANGED <<snapshots, checkpoints, found>> /\ RaceTypeOK
    BY <1>1 DEF RaceInv
  <2> QED
    BY <2>1, <2>2, <2>3 DEF RaceTypeOK
<1>4. /\ now'[p] = clock /\ at'[p] = "find" /\ start'[p] = t /\ clock \in Nat
      /\ \A q \in Creators : q # p =>
           now'[q] = now[q] /\ at'[q] = at[q] /\ start'[q] = start[q]
  BY <1>1, <1>2 DEF RaceInv, RaceTypeOK
<1>5. /\ \A q \in Creators : now'[q] < clock'
      /\ \A k \in checkpoints : k.end < clock' /\ k.end # clock
      /\ \A s \in snapshots : s.at < clock' /\ s.at # clock
  BY <1>1, <1>4 DEF RaceInv, RaceTypeOK, Checkpoint, Snapshot
<1>6. \A q \in Creators : q # p => now'[q] # clock
  BY <1>4 DEF RaceInv, RaceTypeOK
<1>7. \A q \in Creators : at'[q] \in {"find", "save"} =>
        \A k \in checkpoints' : k.by = q => k.end <= start'[q]
  BY <1>1, <1>2, <1>4 DEF RaceInv
<1>8. \A q \in Creators : at'[q] \in {"find", "save"} =>
        /\ \A s \in snapshots' : s.at # now'[q]
        /\ \A k \in checkpoints' : k.end # now'[q]
        /\ start'[q] <= now'[q]
        /\ Scorer \in Creators /\ at'[Scorer] = "cycle" => now'[q] # now'[Scorer]
  <2> SUFFICES ASSUME NEW q \in Creators, at'[q] \in {"find", "save"}
               PROVE  /\ \A s \in snapshots' : s.at # now'[q]
                      /\ \A k \in checkpoints' : k.end # now'[q]
                      /\ start'[q] <= now'[q]
                      /\ Scorer \in Creators /\ at'[Scorer] = "cycle"
                           => now'[q] # now'[Scorer]
    OBVIOUS
  <2>1. CASE q = p
    BY <2>1, <1>1, <1>2, <1>4, <1>5, <1>6
  <2>2. CASE q # p
    BY <2>2, <1>1, <1>4 DEF RaceInv
  <2> QED
    BY <2>1, <2>2
<1>9. \A q \in Creators : at'[q] = "save" =>
        /\ found'[q] \subseteq snapshots'
        /\ \A s \in found'[q] : start'[q] <= s.at /\ s.at <= now'[q]
  BY <1>1, <1>4 DEF RaceInv
<1>10. \A q, r \in Creators : at'[q] \in {"find", "save"} /\ at'[r] \in {"find", "save"} =>
         q = r \/ now'[q] # now'[r]
  BY <1>4, <1>6 DEF RaceInv
<1>11. Scorer \in Creators /\ at'[Scorer] = "cycle" =>
         \A k \in checkpoints' : k.end # now'[Scorer]
  BY <1>1, <1>4 DEF RaceInv
<1> QED
  BY <1>1, <1>3, <1>5, <1>7, <1>8, <1>9, <1>10, <1>11 DEF RaceInv

LEMMA RaceFindSnapshots ==
  ASSUME RaceInv, NEW p \in Creators, FindSnapshots(p)
  PROVE  RaceInv'
<1>1. /\ found' = [found EXCEPT ![p] =
                     {s \in snapshots : start[p] <= s.at /\ s.at <= now[p]}]
      /\ UNCHANGED <<clock, snapshots, checkpoints, now, start>>
  BY DEF FindSnapshots
<1>2. /\ at[p] = "find" /\ at'[p] \in {"idle", "save"}
      /\ \A q \in Creators : q # p => at'[q] = at[q] /\ found'[q] = found[q]
      /\ found'[p] = {s \in snapshots : start[p] <= s.at /\ s.at <= now[p]}
  BY DEF FindSnapshots, RaceInv, RaceTypeOK
<1>3. RaceTypeOK'
  BY <1>1, <1>2 DEF FindSnapshots, RaceInv, RaceTypeOK
<1>4. \A q \in Creators : /\ at'[q] \in {"find", "save"} => at[q] \in {"find", "save"}
                          /\ at'[q] = "cycle" => at[q] = "cycle"
  BY <1>2
<1>5. \A q \in Creators : at'[q] = "save" =>
        /\ found'[q] \subseteq snapshots
        /\ \A s \in found'[q] : start[q] <= s.at /\ s.at <= now[q]
  BY <1>2 DEF RaceInv
<1> QED
  BY <1>1, <1>3, <1>4, <1>5 DEF RaceInv

LEMMA RaceSaveCheckpoint ==
  ASSUME RaceInv, NEW p \in Creators, SaveCheckpoint(p)
  PROVE  RaceInv'
<1> DEFINE k == [start |-> start[p], end |-> now[p], snaps |-> found[p],
                 by |-> p, first |-> first[p]]
<1>1. /\ at[p] = "save" /\ checkpoints' = checkpoints \cup {k}
      /\ UNCHANGED <<clock, snapshots, now, start, found>>
  BY DEF SaveCheckpoint
<1>2. k \in Checkpoint
  BY DEF RaceInv, RaceTypeOK, Checkpoint
<1>3. RaceTypeOK'
  BY <1>1, <1>2 DEF SaveCheckpoint, RaceInv, RaceTypeOK
<1>4. /\ at'[p] = "idle"
      /\ \A q \in Creators : q # p => at'[q] = at[q]
  BY DEF SaveCheckpoint, RaceInv, RaceTypeOK
<1>5. /\ k.end < clock /\ k.end = now[p] /\ k.by = p /\ k.start = start[p]
      /\ k.start <= k.end
      /\ k.snaps \subseteq snapshots
      /\ \A s \in k.snaps : k.start <= s.at /\ s.at <= k.end
      /\ \A s \in snapshots : s.at # k.end
      /\ \A j \in checkpoints : j.by = p => j.end <= k.start
  BY <1>1 DEF RaceInv
<1>6. \A q \in Creators : at'[q] \in {"find", "save"} =>
        q # p /\ at[q] = at'[q] /\ k.end # now[q]
  BY <1>1, <1>4, <1>5 DEF RaceInv
<1>7. Scorer \in Creators /\ at'[Scorer] = "cycle" =>
        at[Scorer] = "cycle" /\ k.end # now[Scorer]
  BY <1>1, <1>4, <1>5 DEF RaceInv
<1>8. \A i, j \in checkpoints' : i.by = j.by /\ i.end < j.end => i.end <= j.start
  <2> SUFFICES ASSUME NEW i \in checkpoints', NEW j \in checkpoints',
                      i.by = j.by, i.end < j.end
               PROVE  i.end <= j.start
    OBVIOUS
  <2>0. i \in Checkpoint /\ j \in Checkpoint
    BY <1>3 DEF RaceTypeOK
  <2>1. CASE i \in checkpoints /\ j \in checkpoints
    BY <2>1 DEF RaceInv
  <2>2. CASE i \in checkpoints /\ j = k
    BY <2>2, <1>5
  <2>3. CASE i = k /\ j \in checkpoints
    <3>1. j.end <= k.start
      BY <2>3, <1>5
    <3> QED
      BY <3>1, <2>3, <2>0, <1>2, <1>5 DEF Checkpoint
  <2>4. CASE i = k /\ j = k
    BY <2>4, <2>0 DEF Checkpoint
  <2> QED
    BY <1>1, <2>1, <2>2, <2>3, <2>4
<1> HIDE DEF k
<1>9. \A q \in Creators : at'[q] \in {"find", "save"} =>
        \A j \in checkpoints' : j.by = q => j.end <= start'[q]
  BY <1>1, <1>5, <1>6 DEF RaceInv
<1>10. \A q \in Creators : at'[q] \in {"find", "save"} =>
        /\ \A s \in snapshots' : s.at # now'[q]
        /\ \A j \in checkpoints' : j.end # now'[q]
        /\ start'[q] <= now'[q]
        /\ Scorer \in Creators /\ at'[Scorer] = "cycle" => now'[q] # now'[Scorer]
  BY <1>1, <1>6, <1>7 DEF RaceInv
<1>11. /\ \A q \in Creators : now'[q] < clock'
       /\ \A j \in checkpoints' : j.end < clock'
       /\ \A j \in checkpoints' : \A s \in j.snaps : j.start <= s.at /\ s.at <= j.end
       /\ \A s \in snapshots' : s.at < clock'
       /\ \A s \in snapshots' : \A j \in checkpoints' : s.at # j.end
       /\ \A j \in checkpoints' : j.snaps \subseteq snapshots'
  BY <1>1, <1>5 DEF RaceInv
<1>12. /\ \A q \in Creators : at'[q] = "save" =>
            /\ found'[q] \subseteq snapshots'
            /\ \A s \in found'[q] : start'[q] <= s.at /\ s.at <= now'[q]
       /\ \A q, r \in Creators : at'[q] \in {"find", "save"} /\ at'[r] \in {"find", "save"} =>
            q = r \/ now'[q] # now'[r]
       /\ Scorer \in Creators /\ at'[Scorer] = "cycle" =>
            \A j \in checkpoints' : j.end # now'[Scorer]
  BY <1>1, <1>6, <1>7 DEF RaceInv
<1> QED
  BY <1>3, <1>8, <1>9, <1>10, <1>11, <1>12 DEF RaceInv

LEMMA RaceFail ==
  ASSUME RaceInv, NEW p \in Creators, Fail(p)
  PROVE  RaceInv'
<1>1. RaceTypeOK'
  BY DEF RaceInv, RaceTypeOK, Fail
<1>2. /\ \A q \in Creators : at'[q] \in {"find", "save", "cycle"} => at'[q] = at[q]
      /\ UNCHANGED <<clock, snapshots, checkpoints, now, start, found>>
  BY DEF RaceInv, RaceTypeOK, Fail
<1> QED
  BY <1>1, <1>2 DEF RaceInv

THEOREM RaceInvariant == RaceSpec => []RaceInv
<1>1. RaceInv /\ UNCHANGED raceVars => RaceInv'
  BY DEF raceVars, RaceInv, RaceTypeOK
<1>2. RaceInv /\ [RaceNext]_raceVars => RaceInv'
  BY <1>1, RaceStartCycle, RaceSaveSnapshot, RaceEndCycle, RaceReadLatest,
     RaceFindSnapshots, RaceSaveCheckpoint, RaceFail DEF RaceNext, Create
<1> QED
  BY <1>2, RaceStarts, PTL DEF RaceSpec

(* However many processes create checkpoints and however they interleave,   *)
(* none of them rewards a snapshot in two of its own.                       *)
THEOREM NoCreatorPaysTwice == RaceSpec => []PaidOncePerCreator
<1>1. RaceInv => PaidOncePerCreator
  <2> SUFFICES ASSUME RaceInv, NEW j \in checkpoints, NEW k \in checkpoints,
                      j.by = k.by, j.end # k.end,
                      NEW s \in j.snaps \cap k.snaps
               PROVE  FALSE
    BY DEF PaidOncePerCreator
  <2>1. j \in Checkpoint /\ k \in Checkpoint /\ s \in Snapshot /\ s \in snapshots
    BY DEF RaceInv, RaceTypeOK
  <2>2. /\ j.start <= s.at /\ s.at <= j.end /\ k.start <= s.at /\ s.at <= k.end
        /\ s.at # j.end /\ s.at # k.end
    BY <2>1 DEF RaceInv
  <2>3. /\ j.end < k.end => j.end <= k.start
        /\ k.end < j.end => k.end <= j.start
    BY DEF RaceInv
  <2> QED
    BY <2>1, <2>2, <2>3 DEF Checkpoint, Snapshot
<1> QED
  BY <1>1, RaceInvariant, PTL

-----------------------------------------------------------------------------
(* The periods cover the time up to the last end, except what precedes a    *)
(* first period, and hold every snapshot that was not late.                 *)

LEMMA CoverReadLatest ==
  ASSUME RaceInv, CoverInv, NEW p \in Creators, ReadLatest(p)
  PROVE  CoverInv'
<1>1. /\ at' = [at EXCEPT ![p] = "find"] /\ now' = [now EXCEPT ![p] = clock]
      /\ first' = [first EXCEPT ![p] = checkpoints = {}]
      /\ UNCHANGED <<snapshots, checkpoints, found, late>>
  BY DEF ReadLatest
<1>2. /\ at'[p] = "find"
      /\ ~first'[p] => \E k \in checkpoints : k.end = start'[p]
      /\ \A q \in Creators : q # p =>
           at'[q] = at[q] /\ now'[q] = now[q] /\ first'[q] = first[q] /\ start'[q] = start[q]
  <2>1. /\ at'[p] = "find" /\ first'[p] = (checkpoints = {})
        /\ \A q \in Creators : q # p =>
             at'[q] = at[q] /\ now'[q] = now[q] /\ first'[q] = first[q]
    BY <1>1 DEF RaceInv, RaceTypeOK
  <2>2. \A q \in Creators : q # p => start'[q] = start[q]
    BY DEF ReadLatest, RaceInv, RaceTypeOK
  <2>3. checkpoints # {} => \E k \in checkpoints : k.end = start'[p]
    BY DEF ReadLatest, Latest, RaceInv, RaceTypeOK
  <2> QED
    BY <2>1, <2>2, <2>3
<1>3. NoGap'
  BY <1>1 DEF CoverInv, NoGap
<1>4. \A q \in Creators : at'[q] = "save" => q # p
  BY <1>2
<1> QED
  BY <1>1, <1>2, <1>3, <1>4 DEF CoverInv

LEMMA CoverFindSnapshots ==
  ASSUME RaceInv, CoverInv, NEW p \in Creators, FindSnapshots(p)
  PROVE  CoverInv'
<1>1. /\ at[p] = "find" /\ at'[p] \in {"idle", "save"}
      /\ \A q \in Creators : q # p => at'[q] = at[q] /\ found'[q] = found[q]
      /\ found'[p] = {s \in snapshots : start[p] <= s.at /\ s.at <= now[p]}
      /\ UNCHANGED <<snapshots, checkpoints, now, start, first, late>>
  BY DEF FindSnapshots, RaceInv, RaceTypeOK
<1>2. NoGap'
  BY <1>1 DEF CoverInv, NoGap
<1>3. \A q \in Creators : at'[q] \in {"find", "save"} => at[q] \in {"find", "save"}
  BY <1>1
<1>4. ASSUME NEW q \in Creators, at'[q] = "save", NEW s \in snapshots \ late,
             start[q] <= s.at, s.at <= now[q]
      PROVE  s \in found'[q]
  BY <1>1, <1>4 DEF CoverInv
<1> QED
  BY <1>1, <1>2, <1>3, <1>4 DEF CoverInv

LEMMA CoverSaveSnapshot ==
  ASSUME RaceInv, CoverInv, NEW m \in Models, SaveSnapshot(m)
  PROVE  CoverInv'
<1> DEFINE s == [model |-> m, at |-> now[Scorer]]
<1>1. /\ snapshots' = snapshots \cup {s}
      /\ UNCHANGED <<checkpoints, at, now, start, first, found>>
      /\ late' = IF GonePast(s.at) /\ s \notin snapshots THEN late \cup {s} ELSE late
  BY DEF SaveSnapshot
<1> HIDE DEF s
<1>2. NoGap'
  BY <1>1 DEF CoverInv, NoGap
<1>3. snapshots' \ late' \subseteq (snapshots \ late) \cup {s}
  BY <1>1
<1>4. s \in snapshots' \ late' => s \in snapshots \ late \/ ~GonePast(s.at)
  BY <1>1
<1>5. \A q \in Creators : at[q] = "save" => \A t \in snapshots' \ late' :
        start[q] <= t.at /\ t.at <= now[q] => t \in found[q]
  BY <1>3, <1>4 DEF CoverInv, GonePast
<1>6. \A k \in checkpoints : \A t \in snapshots' \ late' :
        k.start <= t.at /\ t.at <= k.end => t \in k.snaps
  BY <1>3, <1>4 DEF CoverInv, GonePast
<1> QED
  BY <1>1, <1>2, <1>5, <1>6 DEF CoverInv

LEMMA CoverSaveCheckpoint ==
  ASSUME RaceInv, CoverInv, NEW p \in Creators, SaveCheckpoint(p)
  PROVE  CoverInv'
<1> DEFINE k == [start |-> start[p], end |-> now[p], snaps |-> found[p],
                 by |-> p, first |-> first[p]]
<1>1. /\ at[p] = "save" /\ checkpoints' = checkpoints \cup {k}
      /\ UNCHANGED <<snapshots, now, start, first, found, late>>
  BY DEF SaveCheckpoint
<1>2. \A q \in Creators : at'[q] \in {"find", "save"} => at[q] = at'[q]
  BY DEF SaveCheckpoint, RaceInv, RaceTypeOK
<1>3. /\ k.start = start[p] /\ k.end = now[p] /\ k.snaps = found[p] /\ k.first = first[p]
      /\ start[p] \in Int /\ now[p] \in Nat
      /\ ~first[p] => \E j \in checkpoints : j.end = start[p]
  BY <1>1 DEF CoverInv, RaceInv, RaceTypeOK
<1>4. \A t \in snapshots \ late : k.start <= t.at /\ t.at <= k.end => t \in k.snaps
  BY <1>1, <1>3 DEF CoverInv
<1> HIDE DEF k
<1>5. ASSUME NEW t \in Nat, t <= k.end
      PROVE  \/ \E j \in checkpoints' : j.start <= t /\ t <= j.end
             \/ \E j \in checkpoints' : j.first /\ t < j.start
  <2>1. CASE k.start <= t
    BY <2>1, <1>1, <1>5
  <2>2. CASE t < k.start /\ k.first
    BY <2>2, <1>1
  <2>3. CASE t < k.start /\ ~k.first
    <3>1. PICK j \in checkpoints : j.end = start[p]
      BY <2>3, <1>3
    <3>2. t <= j.end
      BY <2>3, <3>1, <1>3
    <3> QED
      BY <3>2, <1>1 DEF CoverInv, NoGap
  <2> QED
    BY <2>1, <2>2, <2>3, <1>3
<1>6. NoGap'
  BY <1>1, <1>5 DEF CoverInv, NoGap
<1> QED
  BY <1>1, <1>2, <1>4, <1>6 DEF CoverInv

LEMMA CoverOther ==
  ASSUME RaceInv, CoverInv,
         \/ StartCycle \/ EndCycle
         \/ \E p \in Creators : Fail(p)
         \/ UNCHANGED raceVars
  PROVE  CoverInv'
<1>1. UNCHANGED <<snapshots, checkpoints, start, first, found, late>>
  BY DEF StartCycle, EndCycle, Fail, raceVars
<1>2. \A q \in Creators : at'[q] \in {"find", "save"} =>
        at[q] = at'[q] /\ now'[q] = now[q]
  BY DEF StartCycle, EndCycle, Fail, raceVars, RaceInv, RaceTypeOK
<1>3. NoGap'
  BY <1>1 DEF CoverInv, NoGap
<1> QED
  BY <1>1, <1>2, <1>3 DEF CoverInv

(* A snapshot that was committed in time and lies behind the end of a       *)
(* checkpoint is in some checkpoint, unless it precedes a first period.     *)
THEOREM OnlyLateAreSkipped == RaceSpec => []OnlyLateSkipped
<1>1. RaceInit => CoverInv
  BY DEF RaceInit, CoverInv, NoGap
<1>2. RaceInv /\ CoverInv /\ [RaceNext]_raceVars => CoverInv'
  BY CoverReadLatest, CoverFindSnapshots, CoverSaveSnapshot, CoverSaveCheckpoint,
     CoverOther DEF RaceNext, Create
<1>3. RaceInv /\ CoverInv => OnlyLateSkipped
  <2> SUFFICES ASSUME RaceInv, CoverInv, NEW s \in snapshots \ late,
                      NEW k \in checkpoints, s.at <= k.end
               PROVE  \/ \E j \in checkpoints : s \in j.snaps
                      \/ \E j \in checkpoints : j.first /\ s.at < j.start
    BY DEF OnlyLateSkipped
  <2>1. s.at \in Nat
    BY DEF RaceInv, RaceTypeOK, Snapshot
  <2> QED
    BY <2>1 DEF CoverInv, NoGap
<1> QED
  BY <1>1, <1>2, <1>3, RaceInvariant, PTL DEF RaceSpec
=============================================================================
