------------------------------ MODULE Trading ------------------------------
(***************************************************************************)
(* The trading pack's simulator inside the predict-worker.  Feed records    *)
(* mark positions to the market; after the models were called, the hook     *)
(* turns the predictions of a tick into orders, one after the other, and    *)
(* then saves the state of each model it changed, one commit per model.  A  *)
(* restart loads what was saved.                                           *)
(*                                                                         *)
(* Sizes are whole units and times ticks; a record arrives in the tick it   *)
(* is of.  Of a price it is kept whether it is zero: fees depend on sizes,  *)
(* carry on sizes and times, and an entry price of zero makes the order     *)
(* that would close the position fail.                                      *)
(***************************************************************************)
EXTENDS Integers, Sequences, FiniteSets

CONSTANTS
  Models,
  Assets,
  Worthless,     \* assets whose price may be zero
  Batches,       \* predictions a tick may make: sequences of [model, asset]
  Signals,       \* outputs of the models, negative for short
  Modes,         \* subset of {"delta", "order", "target"}
  MaxPosition,   \* max_position_size
  MaxPortfolio,  \* max_portfolio_size
  MaxClock,      \* bound: time
  MaxFaults      \* bound: crashes and failed commits

ASSUME TradingAssumption ==
  /\ IsFiniteSet(Assets)
  /\ Worthless \subseteq Assets
  /\ Batches \subseteq Seq([model : Models, asset : Assets])
  /\ Signals \subseteq Int
  /\ Modes \subseteq {"delta", "order", "target"}
  /\ MaxPosition \in Nat \ {0}
  /\ MaxPortfolio \in Nat /\ MaxPortfolio >= MaxPosition
  /\ MaxClock \in Nat
  /\ MaxFaults \in Nat

VARIABLES
  mode,      \* signal_mode of the configuration
  clock,
  accounts,  \* the engine: [Models -> account]
  rows,      \* trading_portfolio_state: [Models -> account]
  seen,      \* [Assets -> time of the last record of this process], 0 before it
  zero,      \* _last_price: the assets whose last price is zero
  phase,     \* "idle", "tick" after a record's mark, "orders" or "persist"
  todo,      \* predictions the hook has not come to
  dirty,     \* dirty_model_ids
  session,   \* "ok", or "failed" when it waits for a rollback
  faults

vars == <<mode, clock, accounts, rows, seen, zero, phase, todo, dirty, session, faults>>

(* A position.  "marked" is the engine's _last_mark_at; "charged" is        *)
(* history: the time up to which carry has been added to accrued_carry.     *)
(* "free" says that its entry price is zero.                                *)
Position == [side : {"flat", "long", "short"}, size : Nat, free : BOOLEAN,
             opened : Nat, marked : Nat, charged : Nat]

Flat == [side |-> "flat", size |-> 0, free |-> FALSE,
         opened |-> 0, marked |-> 0, charged |-> 0]

Opened(side, size, free, ts) ==
  [side |-> side, size |-> size, free |-> free,
   opened |-> ts, marked |-> ts, charged |-> ts]

(* What get_full_state returns: positions, the sizes on which fees were     *)
(* charged (portfolio_fees) and the sizes of the closed trades.  "wasted"   *)
(* is history: the sizes of the orders that failed after their fee.         *)
Account == [positions : [Assets -> Position], fees : Nat, closed : Nat, wasted : Nat]

NoAccount == [positions |-> [a \in Assets |-> Flat],
              fees |-> 0, closed |-> 0, wasted |-> 0]

TypeOK ==
  /\ mode \in Modes
  /\ clock \in Nat
  /\ accounts \in [Models -> Account]
  /\ rows \in [Models -> Account]
  /\ seen \in [Assets -> Nat]
  /\ zero \subseteq Worthless
  /\ phase \in {"idle", "tick", "orders", "persist"}
  /\ todo \in Seq([model : Models, asset : Assets])
  /\ dirty \subseteq Models
  /\ session \in {"ok", "failed"}
  /\ faults \in Nat

Init ==
  /\ mode \in Modes
  /\ clock = 1
  /\ accounts = [m \in Models |-> NoAccount]
  /\ rows = [m \in Models |-> NoAccount]
  /\ seen = [a \in Assets |-> 0]
  /\ zero = {}
  /\ phase = "idle"
  /\ todo = <<>>
  /\ dirty = {}
  /\ session = "ok"
  /\ faults = 0

-----------------------------------------------------------------------------
(* TradingEngine.apply_order *)

Lower(x, y) == IF x < y THEN x ELSE y
Opposite(side) == IF side = "long" THEN "short" ELSE "long"
Magnitude(s) == IF s < 0 THEN -s ELSE s
SideOf(s) == IF s > 0 THEN "long" ELSE "short"

(* The size of a set of positions: their units, counted. *)
Units(account, assets) == UNION {{a} \X (1..account.positions[a].size) : a \in assets}

Held(account, assets) == Cardinality(Units(account, assets))

PositionRoom(p, side) == IF p.side = side THEN MaxPosition - p.size ELSE MaxPosition

(* Variant with an error: a position about to be closed takes up room. *)
PortfolioRoomWithOwn(account, a, side) == MaxPortfolio - Held(account, Assets)

(* The position an opposite order will reduce takes up no room. *)
PortfolioRoom(account, a, side) ==
  LET reduced == account.positions[a].side = Opposite(side)
  IN  MaxPortfolio - Held(account, IF reduced THEN Assets \ {a} ELSE Assets)

(* Variant with an error: room in the portfolio is not looked at. *)
ExecutedOfPosition(account, a, side, size) ==
  Lower(size, PositionRoom(account.positions[a], side))

Executed(account, a, side, size) ==
  Lower(size, Lower(PositionRoom(account.positions[a], side),
                    PortfolioRoom(account, a, side)))

(* The entry price of an increased position is the average, weighted.       *)
After(p, side, size, free, ts) ==
  LET opposite == p.side = Opposite(side)
  IN  CASE p.side = "flat"            -> Opened(side, size, free, ts)
        [] p.side = side              -> [p EXCEPT !.size = @ + size, !.free = @ /\ free]
        [] opposite /\ size < p.size  -> [p EXCEPT !.size = @ - size]
        [] opposite /\ size = p.size  -> Flat
        [] opposite /\ size > p.size  -> Opened(side, size - p.size, free, ts)

(* The profit of a trade is a share of its entry price: with one of zero    *)
(* _compute_realized_pnl raises.                                            *)
Raises(account, a, side, size) ==
  /\ Executed(account, a, side, size) > 0
  /\ account.positions[a].side = Opposite(side)
  /\ account.positions[a].free

(* Variant with an error: the fee is that of the size asked for. *)
ApplyOrderFeeAsked(account, a, side, size, ts) ==
  LET p == account.positions[a]
      executed == Executed(account, a, side, size)
      charged == [account EXCEPT !.fees = @ + size]
  IN  IF executed <= 0 THEN account
      ELSE IF Raises(account, a, side, size) THEN [charged EXCEPT !.wasted = @ + size]
      ELSE [charged EXCEPT
             !.positions[a] = After(p, side, executed, a \in zero, ts),
             !.closed = @ + (IF p.side = Opposite(side) THEN Lower(executed, p.size) ELSE 0)]

(* The fee is charged before the trade is made. *)
ApplyOrder(account, a, side, size, ts) ==
  LET p == account.positions[a]
      executed == Executed(account, a, side, size)
      charged == [account EXCEPT !.fees = @ + executed]
  IN  IF executed <= 0 THEN account
      ELSE IF Raises(account, a, side, size) THEN [charged EXCEPT !.wasted = @ + executed]
      ELSE [charged EXCEPT
             !.positions[a] = After(p, side, executed, a \in zero, ts),
             !.closed = @ + (IF p.side = Opposite(side) THEN Lower(executed, p.size) ELSE 0)]

-----------------------------------------------------------------------------
(* SimulatorSink.apply_signal *)

(* The order that takes a position to a target; size 0 for none. *)
TargetOrder(p, signal) ==
  LET target == Magnitude(signal)
      side == SideOf(signal)
  IN  CASE p.side = "flat" -> [side |-> side, size |-> target]
        [] p.side # "flat" /\ signal = 0 ->
             [side |-> Opposite(p.side), size |-> p.size]
        [] p.side = side /\ signal # 0 /\ target >= p.size ->
             [side |-> side, size |-> target - p.size]
        [] p.side = side /\ signal # 0 /\ target < p.size ->
             [side |-> Opposite(side), size |-> p.size - target]
        [] OTHER -> [side |-> side, size |-> p.size + target]

OrderOf(p, signal) ==
  IF mode = "target" THEN TargetOrder(p, signal)
  ELSE [side |-> SideOf(signal), size |-> Magnitude(signal)]

(* apply_order refuses a size of 0; the order mode returns before it. *)
Refused(signal) == mode = "delta" /\ signal = 0

-----------------------------------------------------------------------------
(* The feed *)

Tick ==
  /\ clock < MaxClock
  /\ phase = "idle"
  /\ clock' = clock + 1
  /\ UNCHANGED <<mode, accounts, rows, seen, zero, phase, todo, dirty, session, faults>>

Marked(p, ts) ==
  IF p.side = "flat" THEN p ELSE [p EXCEPT !.marked = ts, !.charged = ts]

(* on_record, and mark_to_market of every model's position.  The feed's     *)
(* loop hands on only records later than the last one of the asset.         *)
OnRecord(a, free) ==
  /\ phase = "idle"
  /\ seen[a] < clock
  /\ free => a \in Worthless
  /\ seen' = [seen EXCEPT ![a] = clock]
  /\ zero' = IF free THEN zero \cup {a} ELSE zero \ {a}
  /\ accounts' = [m \in Models |->
                    [accounts[m] EXCEPT !.positions[a] = Marked(@, clock)]]
  /\ phase' = "tick"
  /\ UNCHANGED <<mode, clock, rows, todo, dirty, session, faults>>

(* No configuration is due, or the tick fails before the hook: the session  *)
(* is the worker's only one, and while it waits for a rollback no           *)
(* configuration can be read.                                               *)
NothingPredicted ==
  /\ phase = "tick"
  /\ phase' = "idle"
  /\ UNCHANGED <<mode, clock, accounts, rows, seen, zero, todo, dirty, session, faults>>

(* The commit of a feed record, an input or the predictions fails. *)
OtherCommitFails ==
  /\ phase \in {"idle", "tick"}
  /\ faults < MaxFaults
  /\ faults' = faults + 1
  /\ session' = "failed"
  /\ phase' = "idle"
  /\ UNCHANGED <<mode, clock, accounts, rows, seen, zero, todo, dirty>>

-----------------------------------------------------------------------------
(* on_predictions *)

(* The configurations that are due, in their order, and per configuration   *)
(* the models.                                                              *)
StartHook(batch) ==
  /\ phase = "tick"
  /\ session = "ok"
  /\ phase' = "orders"
  /\ todo' = batch
  /\ UNCHANGED <<mode, clock, accounts, rows, seen, zero, dirty, session, faults>>

(* No price yet, or an output that did not validate. *)
Skip ==
  /\ phase = "orders"
  /\ todo # <<>>
  /\ todo' = Tail(todo)
  /\ UNCHANGED <<mode, clock, accounts, rows, seen, zero, phase, dirty, session, faults>>

(* An output without the fields of the mode: an error, but for a target. *)
NoSignal ==
  /\ phase = "orders"
  /\ todo # <<>>
  /\ mode = "target"
  /\ seen[Head(todo).asset] > 0
  /\ dirty' = dirty \cup {Head(todo).model}
  /\ todo' = Tail(todo)
  /\ UNCHANGED <<mode, clock, accounts, rows, seen, zero, phase, session, faults>>

(* Variant with an error: a model left without a position is not marked.    *)
ApplySignalHeld(signal) ==
  /\ phase = "orders"
  /\ todo # <<>>
  /\ seen[Head(todo).asset] > 0
  /\ LET m == Head(todo).model
         a == Head(todo).asset
         order == OrderOf(accounts[m].positions[a], signal)
         raised == Raises(accounts[m], a, order.side, order.size)
     IN  /\ accounts' = IF Refused(signal) THEN accounts
                        ELSE [accounts EXCEPT ![m] =
                                ApplyOrder(@, a, order.side, order.size, clock)]
         /\ dirty' = IF Refused(signal) \/ raised \/ Held(accounts'[m], Assets) = 0
                     THEN dirty ELSE dirty \cup {m}
  /\ todo' = Tail(todo)
  /\ UNCHANGED <<mode, clock, rows, seen, zero, phase, session, faults>>

(* An order that is refused or fails does not mark its model.               *)
ApplySignal(signal) ==
  /\ phase = "orders"
  /\ todo # <<>>
  /\ seen[Head(todo).asset] > 0
  /\ LET m == Head(todo).model
         a == Head(todo).asset
         order == OrderOf(accounts[m].positions[a], signal)
         raised == Raises(accounts[m], a, order.side, order.size)
     IN  /\ accounts' = IF Refused(signal) THEN accounts
                        ELSE [accounts EXCEPT ![m] =
                                ApplyOrder(@, a, order.side, order.size, clock)]
         /\ dirty' = IF Refused(signal) \/ raised THEN dirty ELSE dirty \cup {m}
  /\ todo' = Tail(todo)
  /\ UNCHANGED <<mode, clock, rows, seen, zero, phase, session, faults>>

StartPersist ==
  /\ phase = "orders"
  /\ todo = <<>>
  /\ phase' = "persist"
  /\ UNCHANGED <<mode, clock, accounts, rows, seen, zero, todo, dirty, session, faults>>

SaveState(m) ==
  /\ phase = "persist"
  /\ m \in dirty
  /\ rows' = [rows EXCEPT ![m] = accounts[m]]
  /\ dirty' = dirty \ {m}
  /\ UNCHANGED <<mode, clock, accounts, seen, zero, phase, todo, session, faults>>

(* The exception leaves the hook and the tick; PredictSink logs it. *)
SaveStateFails ==
  /\ phase = "persist"
  /\ dirty # {}
  /\ faults < MaxFaults
  /\ faults' = faults + 1
  /\ session' = "failed"
  /\ dirty' = {}
  /\ phase' = "idle"
  /\ UNCHANGED <<mode, clock, accounts, rows, seen, zero, todo>>

FinishHook ==
  /\ phase = "persist"
  /\ dirty = {}
  /\ phase' = "idle"
  /\ UNCHANGED <<mode, clock, accounts, rows, seen, zero, todo, dirty, session, faults>>

-----------------------------------------------------------------------------
(* Restart *)

(* load_state takes opened_at for the time of the last mark. *)
Loaded(account) ==
  [account EXCEPT !.positions =
     [a \in Assets |-> [account.positions[a] EXCEPT !.marked = account.positions[a].opened]]]

Restart ==
  /\ faults < MaxFaults
  /\ faults' = faults + 1
  /\ accounts' = [m \in Models |-> Loaded(rows[m])]
  /\ seen' = [a \in Assets |-> 0]
  /\ zero' = {}
  /\ phase' = "idle"
  /\ todo' = <<>>
  /\ dirty' = {}
  /\ session' = "ok"
  /\ UNCHANGED <<mode, clock, rows>>

Hook ==
  \/ \E batch \in Batches : StartHook(batch)
  \/ Skip \/ NoSignal \/ StartPersist \/ FinishHook
  \/ \E signal \in Signals : ApplySignal(signal)
  \/ \E m \in Models : SaveState(m)

Next ==
  \/ Tick
  \/ \E a \in Assets, free \in BOOLEAN : OnRecord(a, free)
  \/ NothingPredicted
  \/ OtherCommitFails
  \/ Hook
  \/ SaveStateFails
  \/ Restart

Spec == Init /\ [][Next]_vars

-----------------------------------------------------------------------------
(* Properties *)

(* A position never exceeds its cap, nor the positions of a model together  *)
(* theirs, in the engine and in the rows it is restored from: orders in     *)
(* either direction, closings and turn-overs included                       *)
(* (TradingEngine.apply_order).                                             *)
WithinCaps ==
  \A m \in Models : \A account \in {accounts[m], rows[m]} :
    /\ \A a \in Assets : account.positions[a].size <= MaxPosition
    /\ Held(account, Assets) <= MaxPortfolio

(* Each unit paid a fee when it was bought and, if it was sold, another,    *)
(* and no other fee was charged than those of orders that failed on an      *)
(* entry price of zero: the fees of a model account for its open positions, *)
(* closed trades and failed orders, in the engine and in what is saved,     *)
(* whatever the caps cut off an order (apply_order, _apply_opposite_order,  *)
(* _compute_realized_pnl, save_state, load_state).                          *)
FeesMatchTrades ==
  \A m \in Models : \A account \in {accounts[m], rows[m]} :
    account.fees = Held(account, Assets) + 2 * account.closed + account.wasted

(* What a restart brings back, but for the fees of orders that failed.      *)
Settled(account) ==
  <<[a \in Assets |-> <<account.positions[a].side, account.positions[a].size,
                        account.positions[a].free, account.positions[a].opened>>],
    account.fees - account.wasted, account.closed>>

(* Between ticks what the hook did is saved, for every model: the score-    *)
(* worker and a restart see the engine's positions, unless a commit failed. *)
(* The fee of an order that failed is the one thing that may be missing:    *)
(* it is saved with the next order of the model that does not fail          *)
(* (on_predictions, _persist_state).                                        *)
SavedBetweenTicks ==
  phase \in {"idle", "tick"} /\ session = "ok" =>
    \A m \in Models : /\ Settled(accounts[m]) = Settled(rows[m])
                      /\ rows[m].wasted <= accounts[m].wasted

(* A position as a signed size. *)
Signed(p) == IF p.side = "short" THEN -p.size ELSE p.size

(* The sizes between where a target finds a position, or 0 if that is on    *)
(* the other side, and the target.                                          *)
OnTheWay(before, signal) ==
  LET start == IF signal # 0 /\ (before > 0) = (signal > 0) THEN before ELSE 0
  IN  Lower(start, signal)..(start + signal - Lower(start, signal))

(* In target mode a signal moves a position towards its target and never    *)
(* past it, whatever the caps leave of the order; a position on the other   *)
(* side of the target, or a target of 0, is closed completely.  Only a      *)
(* position whose entry price is zero cannot be reduced and stays as it is  *)
(* (SimulatorSink.apply_signal with TradingEngine.apply_order).             *)
TowardsTarget ==
  [][mode = "target" => \A signal \in Signals : ApplySignal(signal) =>
       LET m == Head(todo).model
           a == Head(todo).asset
           before == Signed(accounts[m].positions[a])
           after == Signed(accounts'[m].positions[a])
       IN  \/ after \in OnTheWay(before, signal)
           \/ accounts[m].positions[a].free /\ after = before]_vars

(* Each second of a position is charged once: the next mark starts where    *)
(* the last one ended.                                                      *)
CarryOnce ==
  \A m \in Models, a \in Assets :
    accounts[m].positions[a].marked = accounts[m].positions[a].charged
=============================================================================
