------------------------------- MODULE Trading -------------------------------
(***************************************************************************)
(* What the pipeline transactions and the positions loop do to the table   *)
(* of positions.  A handler is a pipeline transaction: the risk gate reads *)
(* the runtime settings, the open positions and today's losses, each in a  *)
(* statement of its own and without a lock; then execution selects the     *)
(* open positions of the symbol FOR UPDATE and inserts or increases one.   *)
(* A reconciler is the positions loop of a worker process: it reads the    *)
(* open positions, waits for the latest prices, and closes what they hit.  *)
(* The database runs READ COMMITTED: a statement sees what is committed    *)
(* when it starts, and an UPDATE or a locking read waits for the rows it   *)
(* wants and then sees their latest version.                               *)
(***************************************************************************)
EXTENDS Integers, Sequences, FiniteSetsExt

CONSTANTS
  None,            \* no stop_loss, or no take_profit
  Symbols,
  Signals,         \* the BUY and SELL signals the strategy steps can hand to the gate
  RuntimeSettings, \* the runtime settings an administrator can store
  Prices,          \* the prices the store can hold
  Handlers,        \* concurrent pipeline transactions
  Reconcilers,     \* worker processes, each with its positions loop
  PositionsCap,    \* the largest max_positions in RuntimeSettings, at least 1
  ExposureCap,     \* the largest exposure_cap in RuntimeSettings, at least 0
  OrderCap,        \* the largest cost of one of the Signals
  MaxOrders,       \* bound: a symbol with this many orders takes no more
  MaxDay           \* bound: the day

Sides == {"BUY", "SELL"}
Levels == Int \cup {None}

\* price and quantity of a signal are snapshot.price and metadata["quantity"]: the
\* webhook takes any number for either, and no step looks at their signs.
SignalType == [symbol : Symbols, side : Sides, price : Int, quantity : Int,
               stopLoss : Levels, takeProfit : Levels]

SettingsType == [killSwitch : BOOLEAN, maxPositions : Int, dailyLossLimit : Int,
                 minRewardRisk : Int,    \* in tenths
                 exposureCap : Int]

ASSUME SignalsAssumption == Signals \subseteq SignalType
ASSUME SettingsAssumption == /\ RuntimeSettings \subseteq SettingsType
                             /\ RuntimeSettings # {}
ASSUME PricesAssumption == Prices \subseteq Int
ASSUME ProcessesAssumption == IsFiniteSet(Handlers) /\ Handlers # {}
ASSUME CapAssumption == /\ PositionsCap \in Nat \ {0}
                        /\ \A s \in RuntimeSettings : s.maxPositions <= PositionsCap
ASSUME ExposureAssumption == /\ ExposureCap \in Nat /\ OrderCap \in Nat
                             /\ \A s \in RuntimeSettings : s.exposureCap <= ExposureCap
                             /\ \A s \in Signals : s.price * s.quantity <= OrderCap
ASSUME BoundsAssumption == MaxOrders \in Nat /\ MaxDay \in Nat

VARIABLES
  positions,       \* the committed rows, in the order of their commits
  settings,        \* settings:runtime in the store
  today,           \* the day, in UTC
  stage,           \* how far the transaction of a handler has come
  signal,          \* its signal
  seen,            \* the runtime settings its gate has read
  found,           \* the open rows its locking read found: locked when "filling"
  loaded,          \* the row it will increase, as loaded; none for an insert
  snapshot,        \* the rows a reconciler has loaded
  orders,          \* how many orders of a symbol are committed
  filled,          \* history: their quantity
  released,        \* history: the negative costs that closings have taken off the
                   \* exposure since the gate last let an order add to it
  sinceKill        \* history: orders committed since the kill switch was turned on

handlerVars == << stage, signal, seen, found, loaded >>
historyVars == << orders, filled, released, sinceKill >>
vars == << positions, settings, today, handlerVars, snapshot, historyVars >>

-----------------------------------------------------------------------------
Rows == DOMAIN positions
OpenRows == {n \in Rows : positions[n].status = "OPEN"}
OpenFor(symbol) == {n \in OpenRows : positions[n].symbol = symbol}

Cost(s) == s.price * s.quantity
Exposure == SumFunctionOnSet([n \in Rows |-> positions[n].cost], OpenRows)
ClosedToday == {n \in Rows : positions[n].status = "CLOSED" /\ positions[n].closedOn = today}
DailyResult == SumFunctionOnSet([n \in Rows |-> positions[n].realizedPnl], ClosedToday)
LockedByOther(h, n) == \E g \in Handlers \ {h} : stage[g] = "filling" /\ n \in found[g]

Abs(x) == IF x < 0 THEN -x ELSE x

\* A handler without a transaction keeps nothing of the last one.
NoSignal == [symbol |-> "none"]
NoSettings == [killSwitch |-> TRUE]
NoRow == [row |-> 0]

Idle(h) ==
  /\ stage' = [stage EXCEPT ![h] = "idle"]
  /\ signal' = [signal EXCEPT ![h] = NoSignal]
  /\ seen' = [seen EXCEPT ![h] = NoSettings]
  /\ found' = [found EXCEPT ![h] = {}]
  /\ loaded' = [loaded EXCEPT ![h] = NoRow]

Init ==
  /\ positions = << >>
  /\ settings \in RuntimeSettings
  /\ today = 0
  /\ stage = [h \in Handlers |-> "idle"]
  /\ signal = [h \in Handlers |-> NoSignal]
  /\ seen = [h \in Handlers |-> NoSettings]
  /\ found = [h \in Handlers |-> {}]
  /\ loaded = [h \in Handlers |-> NoRow]
  /\ snapshot = [r \in Reconcilers |-> << >>]
  /\ orders = [s \in Symbols |-> 0]
  /\ filled = [s \in Symbols |-> 0]
  /\ released = 0
  /\ sinceKill = 0

-----------------------------------------------------------------------------
(* RiskService.evaluate.  Every reason to reject makes execution raise and   *)
(* the transaction roll back (Rollback), so only an approval goes on.        *)
RewardCoversRisk(s, rt) ==
  LET risk == Abs(s.price - s.stopLoss)
      reward == Abs(s.takeProfit - s.price)
  IN  /\ s.stopLoss # None /\ s.takeProfit # None
      /\ risk > 0
      /\ 10 * reward >= rt.minRewardRisk * risk

\* Mutant of PassesSettings: the kill switch is not asked.
PassesLevels(s, rt) == RewardCoversRisk(s, rt)

\* The runtime settings are read once, from the store.
PassesSettings(s, rt) == ~rt.killSwitch /\ RewardCoversRisk(s, rt)

ReadSettings(h, s) ==
  /\ stage[h] = "idle"
  /\ PassesSettings(s, settings)
  /\ stage' = [stage EXCEPT ![h] = "settings"]
  /\ signal' = [signal EXCEPT ![h] = s]
  /\ seen' = [seen EXCEPT ![h] = settings]
  /\ UNCHANGED << positions, settings, today, found, loaded, snapshot, historyVars >>

\* Mutants of the two limits: one position too many, the own cost left out.
AtMostMaxPositions(rt) == Cardinality(OpenRows) <= rt.maxPositions
ExposureBelowCap(s, rt) == Exposure <= rt.exposureCap

\* One statement counts the open positions and adds up what they cost.
BelowMaxPositions(rt) == OpenRows = {} \/ Cardinality(OpenRows) < rt.maxPositions
BelowExposureCap(s, rt) == Exposure + Cost(s) <= rt.exposureCap

CountOpen(h) ==
  /\ stage[h] = "settings"
  /\ BelowMaxPositions(seen[h])
  /\ BelowExposureCap(signal[h], seen[h])
  /\ stage' = [stage EXCEPT ![h] = "counted"]
  /\ released' = IF Cost(signal[h]) > 0 THEN 0 ELSE released
  /\ UNCHANGED << positions, settings, today, signal, seen, found, loaded, snapshot >>
  /\ UNCHANGED << orders, filled, sinceKill >>

\* Another adds up the realized results of the day.
Approve(h) ==
  /\ stage[h] = "counted"
  /\ DailyResult > -seen[h].dailyLossLimit
  /\ stage' = [stage EXCEPT ![h] = "approved"]
  /\ UNCHANGED << positions, settings, today, signal, seen, found, loaded, snapshot, historyVars >>

-----------------------------------------------------------------------------
(* ExecutionService.execute with the paper broker, which fills every order   *)
(* at once.  The locking read finds rows when it starts ...                  *)
SelectOpen(h) ==
  /\ stage[h] = "approved"
  /\ stage' = [stage EXCEPT ![h] = "selecting"]
  /\ found' = [found EXCEPT ![h] = OpenFor(signal[h].symbol)]
  /\ UNCHANGED << positions, settings, today, signal, seen, loaded, snapshot, historyVars >>

\* Mutants: a read that does not lock, one that does not look at the row again.
NeverWaits(h) == TRUE
StaleRows(h) == found[h]

\* Mutant of Divisible: nobody looks at the divisor.
AnyQuantity(h, n) == TRUE

\* The new entry_price is the sum of the costs over the combined quantity.
Divisible(h, n) == positions[n].quantity + signal[h].quantity # 0

\* ... and returns, when no other transaction has them locked, those that are
\* still open.  Without any a row is inserted; one of the other side raises, and
\* so does a combined quantity of zero.
Lockable(h) == \A n \in found[h] : ~LockedByOther(h, n)
StillOpen(h) == found[h] \cap OpenRows

LockRows(h) ==
  /\ stage[h] = "selecting"
  /\ Lockable(h)
  /\ \/ StillOpen(h) = {} /\ UNCHANGED loaded
     \/ \E n \in StillOpen(h) :
          /\ positions[n].side = signal[h].side
          /\ Divisible(h, n)
          /\ loaded' = [loaded EXCEPT ![h] = [row |-> n, quantity |-> positions[n].quantity,
                                              cost |-> positions[n].cost]]
  /\ stage' = [stage EXCEPT ![h] = "filling"]
  /\ found' = [found EXCEPT ![h] = StillOpen(h)]
  /\ UNCHANGED << positions, settings, today, signal, seen, snapshot, historyVars >>

\* entry_price * quantity of the increased row is the sum of the two costs.
NewPosition(s) ==
  [symbol |-> s.symbol, side |-> s.side, quantity |-> s.quantity, cost |-> Cost(s),
   stopLoss |-> s.stopLoss, takeProfit |-> s.takeProfit,
   status |-> "OPEN", realizedPnl |-> 0, closedOn |-> 0]

Increased(h) ==
  [positions[loaded[h].row] EXCEPT !.quantity = loaded[h].quantity + signal[h].quantity,
                                   !.cost = loaded[h].cost + Cost(signal[h]),
                                   !.stopLoss = signal[h].stopLoss,
                                   !.takeProfit = signal[h].takeProfit]

CommitFill(h) ==
  /\ stage[h] = "filling"
  /\ orders[signal[h].symbol] < MaxOrders
  /\ positions' = IF loaded[h] = NoRow
                  THEN Append(positions, NewPosition(signal[h]))
                  ELSE [positions EXCEPT ![loaded[h].row] = Increased(h)]
  /\ orders' = [orders EXCEPT ![signal[h].symbol] = @ + 1]
  /\ filled' = [filled EXCEPT ![signal[h].symbol] = @ + signal[h].quantity]
  /\ sinceKill' = sinceKill + 1
  /\ Idle(h)
  /\ UNCHANGED << settings, today, snapshot, released >>

\* The gate rejects, a step raises, or the worker dies.
Rollback(h) ==
  /\ stage[h] # "idle"
  /\ Idle(h)
  /\ UNCHANGED << positions, settings, today, snapshot, historyVars >>

-----------------------------------------------------------------------------
(* PositionService.reconcile.                                                *)
ReadPositions(r) ==
  /\ snapshot[r] = << >>
  /\ OpenRows # {}
  /\ snapshot' = [snapshot EXCEPT ![r] = [n \in OpenRows |-> positions[n]]]
  /\ UNCHANGED << positions, settings, today, handlerVars, historyVars >>

Hits(p, price) ==
  \/ p.takeProfit # None /\ IF p.side = "BUY" THEN price >= p.takeProfit ELSE price <= p.takeProfit
  \/ p.stopLoss # None /\ IF p.side = "BUY" THEN price <= p.stopLoss ELSE price >= p.stopLoss

RealizedPnl(p, price) ==
  IF p.side = "SELL" THEN p.cost - price * p.quantity ELSE price * p.quantity - p.cost

\* Mutant of Closed: the row is written as it was loaded.
WholeRow(n, p, price) ==
  [p EXCEPT !.status = "CLOSED", !.realizedPnl = RealizedPnl(p, price), !.closedOn = today]

\* Only the three changed columns are written, whatever the row has become.
Closed(n, p, price) ==
  [positions[n] EXCEPT !.status = "CLOSED", !.realizedPnl = RealizedPnl(p, price),
                       !.closedOn = today]

\* What the exposure gains when these rows are closed, those of negative cost.
Refunds(closed) ==
  SumFunctionOnSet([n \in Rows |-> -positions[n].cost],
                   {n \in closed \cap OpenRows : positions[n].cost < 0})

\* Some symbols have a latest price, the others are passed over.
CommitClosings(r) ==
  \E known \in SUBSET Symbols : \E price \in [known -> Prices] :
    LET rows == snapshot[r]
        hit == {n \in DOMAIN rows : rows[n].symbol \in known
                                    /\ Hits(rows[n], price[rows[n].symbol])}
    IN  /\ rows # << >>
        /\ \A n \in hit : \A h \in Handlers : ~(stage[h] = "filling" /\ n \in found[h])
        /\ positions' = [n \in Rows |-> IF n \in hit
                                        THEN Closed(n, rows[n], price[rows[n].symbol])
                                        ELSE positions[n]]
        /\ snapshot' = [snapshot EXCEPT ![r] = << >>]
        /\ released' = released + Refunds(hit)
        /\ UNCHANGED << settings, today, handlerVars, orders, filled, sinceKill >>

-----------------------------------------------------------------------------
UpdateSettings(rt) ==
  /\ rt # settings
  /\ settings' = rt
  /\ sinceKill' = IF rt.killSwitch /\ ~settings.killSwitch THEN 0 ELSE sinceKill
  /\ UNCHANGED << positions, today, handlerVars, snapshot, orders, filled, released >>

Midnight ==
  /\ today < MaxDay
  /\ today' = today + 1
  /\ UNCHANGED << positions, settings, handlerVars, snapshot, historyVars >>

Next ==
  \/ \E h \in Handlers : \/ \E s \in Signals : ReadSettings(h, s)
                         \/ CountOpen(h) \/ Approve(h) \/ SelectOpen(h) \/ LockRows(h)
                         \/ CommitFill(h) \/ Rollback(h)
  \/ \E r \in Reconcilers : ReadPositions(r) \/ CommitClosings(r)
  \/ \E rt \in RuntimeSettings : UpdateSettings(rt)
  \/ Midnight

Spec == Init /\ [][Next]_vars

-----------------------------------------------------------------------------
\* entry_price is cost over quantity, so a row without quantity has no cost.
Position ==
  {p \in [symbol : Symbols, side : Sides, quantity : Int, cost : Int,
          stopLoss : Levels, takeProfit : Levels, status : {"OPEN", "CLOSED"},
          realizedPnl : Int, closedOn : Nat] : p.quantity = 0 => p.cost = 0}

Stages == {"idle", "settings", "counted", "approved", "selecting", "filling"}

\* The row a transaction has loaded.
LoadedType == {NoRow} \cup [row : Rows, quantity : Int, cost : Int]

TypeOK ==
  /\ positions \in Seq(Position)
  /\ settings \in RuntimeSettings
  /\ today \in Nat
  /\ stage \in [Handlers -> Stages]
  /\ signal \in [Handlers -> Signals \cup {NoSignal}]
  /\ seen \in [Handlers -> RuntimeSettings \cup {NoSettings}]
  /\ \A h \in Handlers : stage[h] # "idle" => signal[h] \in Signals /\ seen[h] \in RuntimeSettings
  /\ found \in [Handlers -> SUBSET Rows]
  /\ loaded \in [Handlers -> LoadedType]
  /\ DOMAIN snapshot = Reconcilers
  /\ \A r \in Reconcilers : /\ DOMAIN snapshot[r] \subseteq Rows
                           /\ \A n \in DOMAIN snapshot[r] : snapshot[r][n] \in Position
  /\ orders \in [Symbols -> Nat]
  /\ filled \in [Symbols -> Int]
  /\ released \in Nat
  /\ sinceKill \in Nat

\* RiskService checks max_positions without a lock, so several transactions can
\* pass on the same count: the limit holds up to one position for every other
\* transaction in flight, and no further.
OpenBound == Cardinality(OpenRows) <= PositionsCap + Cardinality(Handlers) - 1

\* RiskService checks exposure_cap without a lock too, and a position of negative
\* cost makes room for orders that outlive it.  Beyond the cap there is no more than
\* the largest order for every other transaction in flight, and what the closings of
\* such positions have given back since the gate last let an order add to the exposure.
ExposureBound == Exposure <= ExposureCap + (Cardinality(Handlers) - 1) * OrderCap + released

\* After the kill switch is turned on, only the transactions that had already
\* asked for it can still commit an order, one each.
KillSwitchDrains == settings.killSwitch => sinceKill <= Cardinality(Handlers)

\* No committed order is lost from the positions of its symbol, and none is
\* counted twice, however the transactions that increase a row overlap.
QuantityOf(symbol) ==
  SumFunctionOnSet([n \in Rows |-> positions[n].quantity],
                   {n \in Rows : positions[n].symbol = symbol})
FillsConserved == \A symbol \in Symbols : QuantityOf(symbol) = filled[symbol]

\* A closed position is not increased any more, and not opened again.
ClosedKeepsItsFills ==
  [][\A n \in Rows : positions[n].status = "CLOSED" =>
       /\ n \in Rows' /\ positions'[n].status = "CLOSED"
       /\ positions'[n].quantity = positions[n].quantity
       /\ positions'[n].cost = positions[n].cost]_vars

\* Transactions that overlap, and closings of rows read long ago, leave the
\* positions that orders and closings one at a time would: see PositionBook.
Entry(p) ==
  [symbol |-> p.symbol, side |-> p.side, quantity |-> p.quantity, cost |-> p.cost,
   stopLoss |-> p.stopLoss, takeProfit |-> p.takeProfit, status |-> p.status]
Book == INSTANCE PositionBook WITH Orders <- Signals, book <- [n \in Rows |-> Entry(positions[n])]
ImplementsBook == Book!Spec

\* backtest.py, simulate: "mirroring how the live pipeline holds one position
\* per symbol".
OnePositionPerSymbol == \A symbol \in Symbols : Cardinality(OpenFor(symbol)) <= 1
-----------------------------------------------------------------------------
(* The inductive invariant of the proofs.                                    *)

\* Transactions past the count of open positions, and past the kill switch.
Passed == {h \in Handlers : stage[h] \notin {"idle", "settings"}}
InFlight == {h \in Handlers : stage[h] # "idle"}

\* Each of them may still add a position, or an order.
CountInv == Cardinality(OpenRows) + Cardinality(Passed) <= PositionsCap + Cardinality(Handlers) - 1
KillInv == settings.killSwitch => sinceKill + Cardinality(InFlight) <= Cardinality(Handlers)

\* The rows a transaction has locked are open, and it increases one of them.
LocksInv ==
  \A h \in Handlers :
    /\ stage[h] = "filling" => found[h] \subseteq OpenRows
    /\ loaded[h] # NoRow => stage[h] = "filling" /\ loaded[h].row \in found[h]

\* Two transactions never hold the same row, the rows are of the symbol of the
\* signal, and the row that is increased is still what was loaded.
OwnRowsInv ==
  \A h \in Handlers :
    /\ stage[h] = "filling" => \A n \in found[h] : ~LockedByOther(h, n)
    /\ stage[h] \in {"selecting", "filling"} =>
         \A n \in found[h] : positions[n].symbol = signal[h].symbol
    /\ loaded[h] # NoRow => /\ loaded[h].quantity = positions[loaded[h].row].quantity
                            /\ loaded[h].cost = positions[loaded[h].row].cost

\* The gate has found both levels, and the row that is increased is of the side
\* of the signal and keeps a quantity.
OrdersInv ==
  \A h \in Handlers :
    /\ stage[h] # "idle" => signal[h].stopLoss # None /\ signal[h].takeProfit # None
    /\ loaded[h] # NoRow => /\ positions[loaded[h].row].side = signal[h].side
                            /\ loaded[h].quantity + signal[h].quantity # 0

\* Each transaction past the count may still add to the exposure, except that the
\* last one that counted has taken its own order into account.
Adding == {h \in Passed : Cost(signal[h]) > 0}
ExposureLimit == ExposureCap + (Cardinality(Handlers) - 1) * OrderCap + released
ExposureInv ==
  \/ Exposure + Cardinality(Adding) * OrderCap <= ExposureLimit
  \/ \E h \in Adding :
       Exposure + Cost(signal[h]) + (Cardinality(Adding) - 1) * OrderCap <= ExposureLimit

Inv == /\ TypeOK /\ CountInv /\ KillInv /\ LocksInv
       /\ OwnRowsInv /\ OrdersInv /\ ExposureInv /\ FillsConserved
=============================================================================
