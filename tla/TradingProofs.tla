---------------------------- MODULE TradingProofs ----------------------------
(***************************************************************************)
(* Proofs about Trading: for any number of transactions, reconcilers,      *)
(* symbols, signals and settings, the limit on open positions is exceeded  *)
(* by at most one position for every other transaction in flight, and that *)
(* on the exposure by the largest order and by what closed positions of    *)
(* negative cost had made room for; the kill switch lets only transactions *)
(* in flight commit; no fill is lost or counted twice, closed positions    *)
(* are final, and the table is the book of PositionBook.                   *)
(***************************************************************************)
EXTENDS Trading, FiniteInduction

\* What an order costs and what a closing realizes are numbers.
LEMMA Amounts ==
  /\ \A s \in Signals : Cost(s) \in Int /\ (s.quantity = 0 => Cost(s) = 0)
  /\ \A p \in Position, price \in Int : RealizedPnl(p, price) \in Int
<1>1. \A a, b \in Int : a * b \in Int /\ a * 0 = 0
  OBVIOUS
<1>2. \A s \in Signals : s.price \in Int /\ s.quantity \in Int
  BY SignalsAssumption DEF SignalType
<1>3. \A s \in Signals : Cost(s) \in Int /\ (s.quantity = 0 => Cost(s) = 0)
  BY <1>1, <1>2 DEF Cost
<1>4. ASSUME NEW p \in Position, NEW price \in Int
      PROVE  RealizedPnl(p, price) \in Int
  <2>1. p.cost \in Int /\ price * p.quantity \in Int
    BY <1>1 DEF Position
  <2> QED
    BY <2>1 DEF RealizedPnl
<1> QED
  BY <1>3, <1>4

\* A committed order leaves well-typed rows, and no fewer of them.
LEMMA FillRows ==
  ASSUME TypeOK, OrdersInv, NEW h \in Handlers, CommitFill(h)
  PROVE  /\ positions' \in Seq(Position)
         /\ Rows \subseteq Rows'
         /\ \A n \in Rows : /\ positions'[n].status = positions[n].status
                            /\ positions'[n].symbol = positions[n].symbol
                            /\ positions'[n].side = positions[n].side
         /\ OpenRows' \subseteq OpenRows \cup {Len(positions) + 1}
         /\ OpenRows \subseteq OpenRows'
         /\ \A n \in Rows : loaded[h] = NoRow \/ n # loaded[h].row => positions'[n] = positions[n]
<1>1. /\ signal[h] \in SignalType /\ Cost(signal[h]) \in Int
      /\ signal[h].quantity = 0 => Cost(signal[h]) = 0
  BY Amounts, SignalsAssumption DEF TypeOK, CommitFill
<1>2. Rows = 1 .. Len(positions) /\ Len(positions) \in Nat
  BY DEF TypeOK, Rows
<1>3. CASE loaded[h] = NoRow
  <2>1. NewPosition(signal[h]) \in Position
    BY <1>1 DEF NewPosition, Position, SignalType
  <2>2. positions' = Append(positions, NewPosition(signal[h]))
    BY <1>3 DEF CommitFill
  <2>3. /\ positions' \in Seq(Position)
        /\ Len(positions') = Len(positions) + 1
        /\ \A n \in 1 .. Len(positions) : positions'[n] = positions[n]
    BY <2>1, <2>2 DEF TypeOK
  <2>4. Rows' = 1 .. Len(positions) + 1
    BY <2>3 DEF Rows
  <2> QED
    BY <1>2, <2>3, <2>4 DEF OpenRows
<1>4. CASE loaded[h] # NoRow
  <2> DEFINE k == loaded[h].row
  <2>1. /\ loaded[h] \in [row : Rows, quantity : Int, cost : Int]
        /\ k \in Rows
    BY <1>4 DEF TypeOK, LoadedType
  <2>2. positions[k] \in Position
    BY <2>1 DEF TypeOK, Rows
  <2>3. /\ loaded[h].quantity + signal[h].quantity \in Int
        /\ loaded[h].quantity + signal[h].quantity # 0
        /\ loaded[h].cost + Cost(signal[h]) \in Int
    BY <1>1, <1>4, <2>1 DEF SignalType, OrdersInv
  <2>4. Increased(h) \in Position /\ Increased(h).status = positions[k].status
        /\ Increased(h).symbol = positions[k].symbol /\ Increased(h).side = positions[k].side
    BY <1>1, <2>2, <2>3 DEF Increased, Position, SignalType
  <2>5. positions' = [positions EXCEPT ![k] = Increased(h)]
    BY <1>4 DEF CommitFill
  <2>6. /\ positions' \in Seq(Position) /\ Rows' = Rows
        /\ \A n \in Rows : n # k => positions'[n] = positions[n]
        /\ positions'[k] = Increased(h)
    BY <2>1, <2>4, <2>5 DEF TypeOK, Rows
  <2>7. \A n \in Rows : /\ positions'[n].status = positions[n].status
                        /\ positions'[n].symbol = positions[n].symbol
                        /\ positions'[n].side = positions[n].side
    BY <2>4, <2>6
  <2>8. OpenRows' = OpenRows
    BY <2>6, <2>7 DEF OpenRows
  <2> QED
    BY <1>4, <2>6, <2>7, <2>8
<1> QED
  BY <1>3, <1>4

\* A closing leaves well-typed rows; an open one among them was not hit.
LEMMA ClosingRows ==
  ASSUME TypeOK, NEW r \in Reconcilers, CommitClosings(r)
  PROVE  /\ positions' \in Seq(Position)
         /\ Rows' = Rows
         /\ OpenRows' \subseteq OpenRows
         /\ \A n \in Rows : /\ positions'[n].status \in {positions[n].status, "CLOSED"}
                            /\ positions'[n].symbol = positions[n].symbol
                            /\ positions'[n].side = positions[n].side
                            /\ positions'[n].stopLoss = positions[n].stopLoss
                            /\ positions'[n].takeProfit = positions[n].takeProfit
                            /\ positions'[n].quantity = positions[n].quantity
                            /\ positions'[n].cost = positions[n].cost
         /\ \A h \in Handlers : stage[h] = "filling" /\ found[h] \subseteq OpenRows
                                 => found[h] \subseteq OpenRows'
         /\ \E ended \in SUBSET Rows : /\ released' = released + Refunds(ended)
                                       /\ OpenRows' = OpenRows \ ended
<1>1. PICK known \in SUBSET Symbols : \E price \in [known -> Prices] : 
        LET rows == snapshot[r]
            hit == {n \in DOMAIN rows : rows[n].symbol \in known
                                        /\ Hits(rows[n], price[rows[n].symbol])}
        IN  /\ released' = released + Refunds(hit)
            /\ \A n \in hit : \A h \in Handlers : ~(stage[h] = "filling" /\ n \in found[h])
            /\ positions' = [n \in Rows |-> IF n \in hit
                                            THEN Closed(n, rows[n], price[rows[n].symbol])
                                            ELSE positions[n]]
  BY DEF CommitClosings
<1>2. PICK price \in [known -> Prices] : 
        LET rows == snapshot[r]
            hit == {n \in DOMAIN rows : rows[n].symbol \in known
                                        /\ Hits(rows[n], price[rows[n].symbol])}
        IN  /\ released' = released + Refunds(hit)
            /\ \A n \in hit : \A h \in Handlers : ~(stage[h] = "filling" /\ n \in found[h])
            /\ positions' = [n \in Rows |-> IF n \in hit
                                            THEN Closed(n, rows[n], price[rows[n].symbol])
                                            ELSE positions[n]]
  BY <1>1
<1> DEFINE rows == snapshot[r]
           hit == {n \in DOMAIN rows : rows[n].symbol \in known
                                       /\ Hits(rows[n], price[rows[n].symbol])}
           closed(n) == Closed(n, rows[n], price[rows[n].symbol])
<1>3. \A n \in hit : n \in Rows /\ rows[n] \in Position /\ price[rows[n].symbol] \in Int
  BY PricesAssumption DEF TypeOK
<1>4. \A n \in Rows : positions[n] \in Position
  BY DEF TypeOK, Rows
<1>5. ASSUME NEW n \in hit
      PROVE  /\ closed(n) \in Position
             /\ closed(n).status = "CLOSED"
             /\ closed(n).symbol = positions[n].symbol
             /\ closed(n).side = positions[n].side
             /\ closed(n).stopLoss = positions[n].stopLoss
             /\ closed(n).takeProfit = positions[n].takeProfit
             /\ closed(n).quantity = positions[n].quantity
             /\ closed(n).cost = positions[n].cost
  <2>1. RealizedPnl(rows[n], price[rows[n].symbol]) \in Int
    BY <1>3, Amounts
  <2>2. positions[n] \in Position /\ today \in Nat
    BY <1>3, <1>4 DEF TypeOK
  <2> QED
    BY <2>1, <2>2 DEF Closed, Position
<1> HIDE DEF closed, hit, rows
<1>6. positions' = [n \in Rows |-> IF n \in hit THEN closed(n) ELSE positions[n]]
  BY <1>2 DEF closed, hit, rows
<1>7. /\ Rows = 1 .. Len(positions) /\ Len(positions) \in Nat /\ Rows' = Rows
      /\ positions' \in [1 .. Len(positions) -> Position]
  BY <1>4, <1>5, <1>6 DEF TypeOK, Rows
<1>8. positions' \in Seq(Position)
  BY <1>7
<1>9. \A n \in Rows : positions'[n] = IF n \in hit THEN closed(n) ELSE positions[n]
  BY <1>6
<1>10. \A n \in hit : \A h \in Handlers : ~(stage[h] = "filling" /\ n \in found[h])
  BY <1>2 DEF hit, rows
<1>11. OpenRows' = OpenRows \ hit
  BY <1>5, <1>7, <1>9 DEF OpenRows
<1>12. hit \in SUBSET Rows /\ released' = released + Refunds(hit)
  BY <1>2, <1>3 DEF hit, rows
<1> QED
  BY <1>5, <1>7, <1>8, <1>9, <1>10, <1>11, <1>12

\* There are finitely many open positions.
LEMMA OpenCount ==
  ASSUME TypeOK
  PROVE  IsFiniteSet(OpenRows) /\ Cardinality(OpenRows) \in Nat
<1>1. IsFiniteSet(1 .. Len(positions))
  BY FS_Interval DEF TypeOK
<1>2. OpenRows \subseteq 1 .. Len(positions)
  BY DEF TypeOK, OpenRows, Rows
<1> QED
  BY <1>1, <1>2, FS_Subset, FS_CardinalityType

\* There are finitely many rows, and their quantities and costs are numbers.
LEMMA RowsFinite ==
  ASSUME TypeOK
  PROVE  /\ Rows = 1 .. Len(positions) /\ Len(positions) \in Nat /\ IsFiniteSet(Rows)
         /\ \A n \in Rows : positions[n] \in Position
         /\ \A n \in Rows : positions[n].quantity \in Int /\ positions[n].cost \in Int
<1>1. Rows = 1 .. Len(positions) /\ Len(positions) \in Nat
  BY DEF TypeOK, Rows
<1>2. \A n \in Rows : positions[n] \in Position
  BY DEF TypeOK, Rows
<1>3. IsFiniteSet(1 .. Len(positions))
  BY <1>1, FS_Interval
<1>4. \A n \in Rows : positions[n].quantity \in Int /\ positions[n].cost \in Int
  BY <1>2 DEF Position
<1> QED
  BY <1>1, <1>2, <1>3, <1>4

\* The exposure is a number.
LEMMA ExposureType ==
  ASSUME TypeOK
  PROVE  Exposure \in Int
<1> DEFINE costs == [n \in Rows |-> positions[n].cost]
<1>1. IsFiniteSet(OpenRows) /\ \A n \in OpenRows : costs[n] \in Int
  BY OpenCount, RowsFinite DEF OpenRows
<1> HIDE DEF costs
<1>2. SumFunctionOnSet(costs, OpenRows) \in Int
  BY <1>1, SumType
<1> QED
  BY <1>2 DEF Exposure, costs

LEMMA ExposureTypeAfter ==
  ASSUME TypeOK'
  PROVE  Exposure' \in Int
<1> DEFINE costs == [n \in Rows |-> positions[n].cost]
<1>1. /\ Rows' = 1 .. Len(positions') /\ Len(positions') \in Nat
      /\ \A n \in Rows' : positions'[n] \in Position
  BY DEF TypeOK, Rows
<1>2. OpenRows' \subseteq Rows' /\ IsFiniteSet(1 .. Len(positions'))
  BY <1>1, FS_Interval DEF OpenRows
<1>3. IsFiniteSet(OpenRows')
  BY <1>1, <1>2, FS_Subset
<1>4. \A n \in OpenRows' : costs'[n] \in Int
  BY <1>1, <1>2 DEF Position
<1> HIDE DEF costs
<1>5. SumFunctionOnSet(costs', OpenRows') \in Int
  BY <1>3, <1>4, SumType
<1> QED
  BY <1>5 DEF Exposure, costs

\* What closings release is counted in full.
LEMMA RefundsType ==
  ASSUME TypeOK, NEW ended \in SUBSET Rows
  PROVE  Refunds(ended) \in Nat
<1> DEFINE refunds == [n \in Rows |-> -positions[n].cost]
           T == {n \in ended \cap OpenRows : positions[n].cost < 0}
<1>1. IsFiniteSet(T)
  <2>1. T \subseteq OpenRows
    OBVIOUS
  <2> HIDE DEF T
  <2> QED
    BY <2>1, OpenCount, FS_Subset
<1>2. \A n \in T : refunds[n] \in Nat
  <2>1. \A n \in T : n \in Rows /\ positions[n].cost \in Int /\ positions[n].cost < 0
    BY RowsFinite
  <2>2. \A c \in Int : c < 0 => -c \in Nat
    OBVIOUS
  <2> QED
    BY <2>1, <2>2
<1>3. Refunds(ended) = SumFunctionOnSet(refunds, T)
  BY DEF Refunds
<1> HIDE DEF refunds, T
<1> QED
  BY <1>1, <1>2, <1>3, SumNat

\* A closing adds to the exposure no more than the negative costs that it counts as
\* released.
LEMMA ClosingsRelease ==
  ASSUME TypeOK, NEW r \in Reconcilers, CommitClosings(r)
  PROVE  /\ Exposure' \in Int /\ released' \in Nat
         /\ Exposure' - released' <= Exposure - released
<1> DEFINE costs == [n \in Rows |-> positions[n].cost]
           refunds == [n \in Rows |-> -positions[n].cost]
           sum(f, S) == SumFunctionOnSet(f, S)
<1>1. PICK ended \in SUBSET Rows : released' = released + Refunds(ended) /\ OpenRows' = OpenRows \ ended
  BY ClosingRows
<1> DEFINE gone == ended \cap OpenRows
           T == {n \in gone : costs[n] < 0}
<1>2. /\ IsFiniteSet(OpenRows) /\ OpenRows \subseteq Rows
      /\ \A n \in Rows : costs[n] \in Int /\ refunds[n] = -costs[n]
  BY OpenCount, RowsFinite DEF OpenRows
<1>3. costs' = costs
  BY ClosingRows
<1>4. /\ gone \in SUBSET OpenRows /\ OpenRows \ gone = OpenRows'
      /\ IsFiniteSet(gone) /\ IsFiniteSet(OpenRows')
  <2>1. gone \in SUBSET OpenRows /\ OpenRows \ gone = OpenRows'
    BY <1>1
  <2> HIDE DEF gone
  <2> QED
    BY <1>2, <2>1, FS_Subset
<1>5. Refunds(ended) = sum(refunds, T)
  <2>1. T = {n \in ended \cap OpenRows : positions[n].cost < 0}
    BY <1>2
  <2> QED
    BY <2>1 DEF Refunds
<1>6. Exposure = sum(costs, OpenRows) /\ Exposure' = sum(costs, OpenRows')
  BY <1>3 DEF Exposure
<1> HIDE DEF costs, refunds, gone
<1>7. sum(costs, OpenRows) = sum(costs, OpenRows') + sum(costs, gone)
  <2>1. \A n \in OpenRows : costs[n] \in Int
    BY <1>2
  <2> QED
    BY <1>2, <1>4, <2>1, SumOfParts
<1>8. 0 <= sum(costs, gone) + sum(refunds, T)
  <2>1. \A n \in gone : costs[n] \in Int /\ refunds[n] = -costs[n]
    BY <1>2, <1>4
  <2> QED
    BY <1>4, <2>1, SumOfNegatives
<1>9. sum(costs, gone) \in Int /\ sum(costs, OpenRows') \in Int
  <2>1. (\A n \in gone : costs[n] \in Int) /\ (\A n \in OpenRows' : costs[n] \in Int)
    BY <1>2, <1>4
  <2> QED
    BY <1>4, <2>1, SumType
<1>10. sum(refunds, T) \in Nat /\ released \in Nat
  BY <1>5, RefundsType DEF TypeOK
<1> HIDE DEF sum, T
<1> QED
  BY <1>1, <1>5, <1>6, <1>7, <1>8, <1>9, <1>10

-----------------------------------------------------------------------------
\* Every transaction of a handler that ends is forgotten.
LEMMA IdleTypes ==
  ASSUME TypeOK, NEW h \in Handlers, Idle(h)
  PROVE  /\ stage' \in [Handlers -> Stages]
         /\ signal' \in [Handlers -> Signals \cup {NoSignal}]
         /\ seen' \in [Handlers -> RuntimeSettings \cup {NoSettings}]
         /\ \A g \in Handlers : stage'[g] # "idle" =>
              signal'[g] \in Signals /\ seen'[g] \in RuntimeSettings
         /\ found' \in [Handlers -> SUBSET Rows]
         /\ loaded' \in [Handlers -> LoadedType]
         /\ stage'[h] = "idle" /\ found'[h] = {} /\ loaded'[h] = NoRow
         /\ \A g \in Handlers \ {h} : /\ stage'[g] = stage[g] /\ found'[g] = found[g]
                                      /\ loaded'[g] = loaded[g]
  BY DEF TypeOK, Idle, Stages, LoadedType

\* TypeOK is preserved by every step.
LEMMA TypeStep ==
  ASSUME TypeOK, OrdersInv, [Next]_vars
  PROVE  TypeOK'
<1> USE DEF TypeOK
<1>1. ASSUME NEW h \in Handlers, NEW s \in Signals, ReadSettings(h, s)
      PROVE  TypeOK'
  BY <1>1 DEF ReadSettings, Stages, Rows, LoadedType, historyVars
<1>2. ASSUME NEW h \in Handlers, CountOpen(h) \/ Approve(h)
      PROVE  TypeOK'
  <2>1. /\ UNCHANGED << positions, settings, today, signal, seen, found, loaded, snapshot >>
        /\ UNCHANGED << orders, filled, sinceKill, Rows, LoadedType >>
        /\ stage' \in [Handlers -> Stages] /\ stage[h] # "idle"
        /\ \A g \in Handlers \ {h} : stage'[g] = stage[g]
    BY <1>2 DEF CountOpen, Approve, Stages, Rows, LoadedType, historyVars
  <2>2. released' \in Nat
    BY <1>2 DEF CountOpen, Approve, historyVars
  <2> QED
    BY <2>1, <2>2
<1>3. ASSUME NEW h \in Handlers, SelectOpen(h)
      PROVE  TypeOK'
  BY <1>3 DEF SelectOpen, OpenFor, OpenRows, Stages, Rows, LoadedType, historyVars
<1>4. ASSUME NEW h \in Handlers, LockRows(h)
      PROVE  TypeOK'
  <2>1. StillOpen(h) \subseteq Rows
    BY DEF StillOpen, OpenRows
  <2>2. \A n \in Rows : positions[n] \in Position
    BY DEF Rows
  <2>3. loaded' \in [Handlers -> LoadedType]
    <3>1. CASE UNCHANGED loaded
      BY <3>1
    <3>2. ASSUME NEW n \in StillOpen(h),
                 loaded' = [loaded EXCEPT ![h] = [row |-> n, quantity |-> positions[n].quantity,
                                                  cost |-> positions[n].cost]]
          PROVE  loaded' \in [Handlers -> LoadedType]
      <4>1. positions[n].quantity \in Int /\ positions[n].cost \in Int /\ n \in Rows
        BY <2>1, <2>2 DEF Position
      <4> QED
        BY <3>2, <4>1 DEF LoadedType
    <3> QED
      BY <1>4, <3>1, <3>2 DEF LockRows
  <2>4. UNCHANGED << Rows, LoadedType >>
    BY <1>4 DEF LockRows, Rows, LoadedType
  <2> QED
    BY <1>4, <2>1, <2>3, <2>4 DEF LockRows, Stages, historyVars
<1>5. ASSUME NEW h \in Handlers, CommitFill(h)
      PROVE  TypeOK'
  <2>1. /\ positions' \in Seq(Position)
        /\ Rows \subseteq Rows'
    BY <1>5, FillRows
  <2>2. Idle(h) /\ UNCHANGED << settings, today, snapshot >>
    BY <1>5 DEF CommitFill
  <2>3. signal[h] \in SignalType
    BY <1>5, SignalsAssumption DEF CommitFill
  <2>4. /\ orders' \in [Symbols -> Nat] /\ filled' \in [Symbols -> Int]
        /\ released' \in Nat /\ sinceKill' \in Nat
    BY <1>5, <2>3 DEF CommitFill, SignalType
  <2>5. found' \in [Handlers -> SUBSET Rows'] /\ loaded' \in [Handlers -> LoadedType']
    BY <2>1, <2>2, IdleTypes DEF LoadedType
  <2> QED
    BY <2>1, <2>2, <2>4, <2>5, IdleTypes
<1>6. ASSUME NEW h \in Handlers, Rollback(h)
      PROVE  TypeOK'
  <2>1. UNCHANGED << Rows, LoadedType >>
    BY <1>6 DEF Rollback, Rows, LoadedType
  <2> QED
    BY <1>6, <2>1, IdleTypes DEF Rollback, historyVars
<1>7. ASSUME NEW r \in Reconcilers, ReadPositions(r)
      PROVE  TypeOK'
  <2>1. UNCHANGED << Rows, LoadedType >>
    BY <1>7 DEF ReadPositions, Rows, LoadedType
  <2>2. \A n \in Rows : positions[n] \in Position
    BY DEF Rows
  <2> QED
    BY <1>7, <2>1, <2>2 DEF ReadPositions, OpenRows, handlerVars, historyVars
<1>8. ASSUME NEW r \in Reconcilers, CommitClosings(r)
      PROVE  TypeOK'
  <2>1. positions' \in Seq(Position) /\ UNCHANGED << Rows, LoadedType >>
    BY <1>8, ClosingRows DEF LoadedType
  <2>2. /\ snapshot' = [snapshot EXCEPT ![r] = << >>]
        /\ UNCHANGED << settings, today, handlerVars, orders, filled, sinceKill >>
    BY <1>8 DEF CommitClosings
  <2>3. /\ DOMAIN snapshot' = Reconcilers
        /\ \A q \in Reconcilers : DOMAIN snapshot'[q] = {} \/ snapshot'[q] = snapshot[q]
    BY <2>2
  <2>4. \A q \in Reconcilers : /\ DOMAIN snapshot'[q] \subseteq Rows
                             /\ \A n \in DOMAIN snapshot'[q] : snapshot'[q][n] \in Position
    BY <2>3
  <2>5. released' \in Nat
    BY <1>8, ClosingsRelease
  <2> QED
    BY <2>1, <2>2, <2>3, <2>4, <2>5 DEF handlerVars
<1>9. ASSUME NEW rt \in RuntimeSettings, UpdateSettings(rt)
      PROVE  TypeOK'
  BY <1>9 DEF UpdateSettings, Rows, LoadedType, handlerVars
<1>10. CASE Midnight
  BY <1>10 DEF Midnight, Rows, LoadedType, handlerVars, historyVars
<1>11. CASE UNCHANGED vars
  BY <1>11 DEF vars, Rows, LoadedType, handlerVars, historyVars
<1> QED
  BY <1>1, <1>2, <1>3, <1>4, <1>5, <1>6, <1>7, <1>8, <1>9, <1>10, <1>11 DEF Next

-----------------------------------------------------------------------------
\* A transaction holds at most one place among those in flight.
LEMMA FlightCounts ==
  /\ IsFiniteSet(Passed) /\ Cardinality(Passed) \in Nat
  /\ IsFiniteSet(InFlight) /\ Cardinality(InFlight) \in Nat
  /\ Cardinality(Handlers) \in Nat
  /\ Cardinality(Passed) <= Cardinality(Handlers)
  /\ Cardinality(InFlight) <= Cardinality(Handlers)
<1>1. Passed \subseteq Handlers /\ InFlight \subseteq Handlers
  BY DEF Passed, InFlight
<1> QED
  BY <1>1, ProcessesAssumption, FS_Subset, FS_CardinalityType

\* The end of a transaction gives its place up.
LEMMA EndOfFlight ==
  ASSUME TypeOK, NEW h \in Handlers, Idle(h)
  PROVE  /\ Passed' = Passed \ {h}
         /\ InFlight' = InFlight \ {h}
  BY IdleTypes DEF Passed, InFlight

\* CountInv is preserved: a count that passes leaves room for one position.
LEMMA CountStep ==
  ASSUME TypeOK, OrdersInv, TypeOK', CountInv, [Next]_vars
  PROVE  CountInv'
<1> USE CapAssumption
<1>1. /\ IsFiniteSet(Passed) /\ Cardinality(Passed) \in Nat
      /\ IsFiniteSet(OpenRows) /\ Cardinality(OpenRows) \in Nat
      /\ Cardinality(Handlers) \in Nat
  BY FlightCounts, OpenCount
<1>2. /\ IsFiniteSet(Passed') /\ Cardinality(Passed') \in Nat
      /\ Cardinality(Passed') <= Cardinality(Handlers)
      /\ IsFiniteSet(OpenRows') /\ Cardinality(OpenRows') \in Nat
  <2>1. Passed' \subseteq Handlers
    BY DEF Passed
  <2>2. IsFiniteSet(1 .. Len(positions')) /\ OpenRows' \subseteq 1 .. Len(positions')
    <3>1. Len(positions') \in Nat /\ OpenRows' \subseteq 1 .. Len(positions')
      BY DEF TypeOK, OpenRows, Rows
    <3> QED
      BY <3>1, FS_Interval
  <2> QED
    BY <2>1, <2>2, ProcessesAssumption, FS_Subset, FS_CardinalityType
<1>3. ASSUME OpenRows' \subseteq OpenRows, Passed' \subseteq Passed
      PROVE  CountInv'
  <2>1. Cardinality(OpenRows') <= Cardinality(OpenRows) /\ Cardinality(Passed') <= Cardinality(Passed)
    BY <1>1, <1>3, FS_Subset
  <2> QED
    BY <1>1, <1>2, <2>1 DEF CountInv
<1>4. ASSUME NEW h \in Handlers, CountOpen(h)
      PROVE  CountInv'
  <2>1. OpenRows' = OpenRows
    BY <1>4 DEF CountOpen, OpenRows, Rows
  <2>2. Cardinality(OpenRows) <= PositionsCap - 1
    <3>1. seen[h] \in RuntimeSettings /\ seen[h].maxPositions \in Int
      BY <1>4, SettingsAssumption DEF TypeOK, CountOpen, SettingsType
    <3>2. CASE OpenRows = {}
      BY <3>2, FS_EmptySet
    <3> QED
      BY <1>1, <1>4, <3>1, <3>2 DEF CountOpen, BelowMaxPositions
  <2> QED
    BY <1>1, <1>2, <2>1, <2>2 DEF CountInv
<1>5. ASSUME NEW h \in Handlers, CommitFill(h)
      PROVE  CountInv'
  <2>1. h \in Passed /\ Passed' = Passed \ {h}
    BY <1>5, EndOfFlight DEF CommitFill, Passed
  <2>2. Cardinality(Passed') = Cardinality(Passed) - 1
    BY <1>1, <2>1, FS_RemoveElement
  <2>3. Cardinality(OpenRows') <= Cardinality(OpenRows) + 1
    <3>1. OpenRows' \subseteq OpenRows \cup {Len(positions) + 1}
      BY <1>5, FillRows
    <3> DEFINE Grown == OpenRows \cup {Len(positions) + 1}
    <3>2. /\ IsFiniteSet(Grown)
          /\ Cardinality(Grown) = IF Len(positions) + 1 \in OpenRows THEN Cardinality(OpenRows)
                                                                     ELSE Cardinality(OpenRows) + 1
      BY <1>1, FS_AddElement
    <3>3. Cardinality(OpenRows') <= Cardinality(Grown)
      BY <3>1, <3>2, FS_Subset
    <3> HIDE DEF Grown
    <3> QED
      BY <1>1, <1>2, <3>2, <3>3
  <2> QED
    BY <1>1, <1>2, <2>2, <2>3 DEF CountInv
<1>6. ASSUME NEW h \in Handlers,
             (\E s \in Signals : ReadSettings(h, s)) \/ Approve(h) \/ SelectOpen(h) \/ LockRows(h)
      PROVE  CountInv'
  <2>1. OpenRows' = OpenRows
    BY <1>6 DEF ReadSettings, Approve, SelectOpen, LockRows, OpenRows, Rows
  <2>2. Passed' \subseteq Passed
    BY <1>6 DEF TypeOK, ReadSettings, Approve, SelectOpen, LockRows, Passed
  <2> QED
    BY <1>3, <2>1, <2>2
<1>7. ASSUME NEW h \in Handlers, Rollback(h)
      PROVE  CountInv'
  BY <1>3, <1>7, EndOfFlight DEF Rollback, OpenRows, Rows
<1>8. ASSUME NEW r \in Reconcilers, CommitClosings(r)
      PROVE  CountInv'
  <2>1. UNCHANGED Passed
    BY <1>8 DEF CommitClosings, handlerVars, Passed
  <2> QED
    BY <1>3, <1>8, <2>1, ClosingRows
<1>9. CASE (\E r \in Reconcilers : ReadPositions(r)) \/ (\E rt \in RuntimeSettings : UpdateSettings(rt))
           \/ Midnight \/ UNCHANGED vars
  BY <1>3, <1>9 DEF ReadPositions, UpdateSettings, Midnight, vars, handlerVars, Passed, OpenRows, Rows
<1> QED
  BY <1>4, <1>5, <1>6, <1>7, <1>8, <1>9 DEF Next

\* KillInv is preserved: no transaction passes the switch while it is on.
LEMMA KillStep ==
  ASSUME TypeOK, TypeOK', KillInv, [Next]_vars
  PROVE  KillInv'
<1>1. /\ IsFiniteSet(InFlight) /\ Cardinality(InFlight) \in Nat
      /\ Cardinality(InFlight) <= Cardinality(Handlers)
      /\ Cardinality(Handlers) \in Nat /\ sinceKill \in Nat
  BY FlightCounts DEF TypeOK
<1>2. ASSUME NEW h \in Handlers, NEW s \in Signals, ReadSettings(h, s)
      PROVE  KillInv'
  BY <1>2 DEF ReadSettings, PassesSettings, KillInv
<1>3. ASSUME NEW h \in Handlers, CountOpen(h) \/ Approve(h) \/ SelectOpen(h) \/ LockRows(h)
      PROVE  KillInv'
  <2>1. UNCHANGED << settings, sinceKill >>
    BY <1>3 DEF CountOpen, Approve, SelectOpen, LockRows, historyVars
  <2>2. InFlight' = InFlight
    BY <1>3 DEF TypeOK, CountOpen, Approve, SelectOpen, LockRows, InFlight
  <2> QED
    BY <2>1, <2>2 DEF KillInv
<1>4. ASSUME NEW h \in Handlers, CommitFill(h)
      PROVE  KillInv'
  <2>1. h \in InFlight /\ InFlight' = InFlight \ {h}
    BY <1>4, EndOfFlight DEF CommitFill, InFlight
  <2>2. Cardinality(InFlight') = Cardinality(InFlight) - 1
    BY <1>1, <2>1, FS_RemoveElement
  <2>3. settings' = settings /\ sinceKill' = sinceKill + 1
    BY <1>4 DEF CommitFill
  <2> QED
    BY <1>1, <2>2, <2>3 DEF KillInv
<1>5. ASSUME NEW h \in Handlers, Rollback(h)
      PROVE  KillInv'
  <2>1. InFlight' \subseteq InFlight /\ UNCHANGED << settings, sinceKill >>
    BY <1>5, EndOfFlight DEF Rollback, historyVars
  <2>2. Cardinality(InFlight') \in Nat /\ Cardinality(InFlight') <= Cardinality(InFlight)
    BY <1>1, <2>1, FS_Subset, FS_CardinalityType
  <2> QED
    BY <1>1, <2>1, <2>2 DEF KillInv
<1>6. ASSUME NEW rt \in RuntimeSettings, UpdateSettings(rt)
      PROVE  KillInv'
  <2>1. InFlight' = InFlight
    BY <1>6 DEF UpdateSettings, handlerVars, InFlight
  <2> QED
    BY <1>1, <1>6, <2>1 DEF UpdateSettings, KillInv
<1>7. CASE (\E r \in Reconcilers : ReadPositions(r) \/ CommitClosings(r)) \/ Midnight \/ UNCHANGED vars
  BY <1>7 DEF ReadPositions, CommitClosings, Midnight, vars, handlerVars, historyVars, InFlight, KillInv
<1> QED
  BY <1>2, <1>3, <1>4, <1>5, <1>6, <1>7 DEF Next

\* LocksInv is preserved: nobody closes a row that a transaction has locked.
LEMMA LocksStep ==
  ASSUME TypeOK, OrdersInv, LocksInv, [Next]_vars
  PROVE  LocksInv'
<1>1. ASSUME NEW h \in Handlers, LockRows(h)
      PROVE  LocksInv'
  <2>1. OpenRows' = OpenRows
    BY <1>1 DEF LockRows, OpenRows, Rows
  <2>2. found'[h] \subseteq OpenRows /\ (loaded'[h] # NoRow => loaded'[h].row \in found'[h])
    <3>1. found'[h] = StillOpen(h)
      BY <1>1 DEF LockRows, TypeOK
    <3>2. CASE UNCHANGED loaded /\ StillOpen(h) = {}
      BY <1>1, <3>1, <3>2 DEF LockRows, StillOpen, TypeOK, LocksInv
    <3>3. ASSUME NEW n \in StillOpen(h),
                 loaded' = [loaded EXCEPT ![h] = [row |-> n, quantity |-> positions[n].quantity,
                                                  cost |-> positions[n].cost]]
          PROVE  loaded'[h].row = n
      BY <3>3 DEF TypeOK
    <3> QED
      BY <1>1, <3>1, <3>2, <3>3 DEF LockRows, StillOpen
  <2>3. /\ stage'[h] = "filling"
        /\ \A g \in Handlers \ {h} : /\ stage'[g] = stage[g] /\ found'[g] = found[g]
                                     /\ loaded'[g] = loaded[g]
    BY <1>1 DEF LockRows, TypeOK
  <2> QED
    BY <2>1, <2>2, <2>3 DEF LocksInv
<1>2. ASSUME NEW h \in Handlers,
             (\E s \in Signals : ReadSettings(h, s)) \/ CountOpen(h) \/ Approve(h) \/ SelectOpen(h)
      PROVE  LocksInv'
  BY <1>2 DEF TypeOK, LocksInv, ReadSettings, CountOpen, Approve, SelectOpen, OpenRows, Rows
<1>3. ASSUME NEW h \in Handlers, CommitFill(h)
      PROVE  LocksInv'
  <2>1. OpenRows \subseteq OpenRows' /\ Idle(h)
    BY <1>3, FillRows DEF CommitFill
  <2> QED
    BY <2>1, IdleTypes DEF LocksInv
<1>4. ASSUME NEW h \in Handlers, Rollback(h)
      PROVE  LocksInv'
  <2>1. OpenRows = OpenRows' /\ Idle(h)
    BY <1>4 DEF Rollback, OpenRows, Rows
  <2> QED
    BY <2>1, IdleTypes DEF LocksInv
<1>5. ASSUME NEW r \in Reconcilers, CommitClosings(r)
      PROVE  LocksInv'
  <2>1. UNCHANGED << stage, found, loaded >>
    BY <1>5 DEF CommitClosings, handlerVars
  <2> QED
    BY <1>5, <2>1, ClosingRows DEF LocksInv
<1>6. CASE (\E r \in Reconcilers : ReadPositions(r)) \/ (\E rt \in RuntimeSettings : UpdateSettings(rt))
           \/ Midnight \/ UNCHANGED vars
  BY <1>6 DEF ReadPositions, UpdateSettings, Midnight, vars, handlerVars, OpenRows, Rows, LocksInv
<1> QED
  BY <1>1, <1>2, <1>3, <1>4, <1>5, <1>6 DEF Next

\* An order is a new row, or changes the row that its transaction has locked.
LEMMA FillChange ==
  ASSUME TypeOK, OrdersInv, LocksInv, OwnRowsInv, NEW h \in Handlers, CommitFill(h)
  PROVE  \/ LET k == Len(positions) + 1 IN
            /\ k \notin Rows /\ Rows' = Rows \cup {k} /\ OpenRows' = OpenRows \cup {k}
            /\ positions'[k] = NewPosition(signal[h])
            /\ \A n \in Rows : positions'[n] = positions[n]
         \/ \E k \in OpenRows :
              /\ Rows' = Rows /\ OpenRows' = OpenRows /\ k \in found[h]
              /\ positions[k].symbol = signal[h].symbol
              /\ positions'[k].symbol = signal[h].symbol
              /\ positions'[k].quantity = positions[k].quantity + signal[h].quantity
              /\ positions'[k].cost = positions[k].cost + Cost(signal[h])
              /\ \A n \in Rows \ {k} : positions'[n] = positions[n]
<1>1. signal[h] \in SignalType /\ Cost(signal[h]) \in Int /\ stage[h] = "filling"
  BY Amounts, SignalsAssumption DEF TypeOK, CommitFill
<1>2. CASE loaded[h] = NoRow
  <2> DEFINE k == Len(positions) + 1
  <2>1. positions' = Append(positions, NewPosition(signal[h]))
    BY <1>2 DEF CommitFill
  <2>2. Len(positions') = k /\ positions' \in Seq(Position)
    BY <2>1, FillRows DEF TypeOK
  <2>3. Rows' = 1 .. k
    BY <2>2 DEF Rows
  <2>4. k \notin Rows /\ Rows' = Rows \cup {k}
    BY <2>3, RowsFinite
  <2>5. positions'[k] = NewPosition(signal[h]) /\ \A n \in Rows : positions'[n] = positions[n]
    BY <2>1, RowsFinite DEF TypeOK
  <2>6. positions'[k].status = "OPEN"
    BY <2>5 DEF NewPosition
  <2> HIDE DEF k
  <2>7. OpenRows' = OpenRows \cup {k}
    BY <2>4, <2>5, <2>6 DEF OpenRows
  <2> QED
    BY <2>4, <2>5, <2>7 DEF k
<1>3. CASE loaded[h] # NoRow
  <2> DEFINE k == loaded[h].row
  <2>1. k \in found[h] /\ k \in OpenRows
    BY <1>1, <1>3 DEF LocksInv
  <2>2. k \in Rows /\ positions[k] \in Position
    BY <2>1, RowsFinite DEF OpenRows
  <2>3. positions' = [positions EXCEPT ![k] = Increased(h)]
    BY <1>3 DEF CommitFill
  <2>4. /\ Rows' = Rows /\ positions'[k] = Increased(h)
        /\ \A n \in Rows \ {k} : positions'[n] = positions[n]
    BY <2>2, <2>3 DEF TypeOK, Rows
  <2>5. /\ loaded[h].quantity = positions[k].quantity /\ loaded[h].cost = positions[k].cost
        /\ positions[k].symbol = signal[h].symbol
    BY <1>1, <1>3, <2>1 DEF OwnRowsInv
  <2>6. /\ Increased(h).symbol = positions[k].symbol /\ Increased(h).status = positions[k].status
        /\ Increased(h).quantity = loaded[h].quantity + signal[h].quantity
        /\ Increased(h).cost = loaded[h].cost + Cost(signal[h])
    BY <2>2 DEF Increased, Position
  <2> HIDE DEF k
  <2>7. OpenRows' = OpenRows
    BY <2>1, <2>4, <2>6 DEF OpenRows
  <2> QED
    BY <2>1, <2>4, <2>5, <2>6, <2>7
<1> QED
  BY <1>2, <1>3

\* OwnRowsInv is preserved: a row that a transaction has locked and loaded stays
\* as it was, and nobody else can lock it.
LEMMA OwnRowsStep ==
  ASSUME TypeOK, OrdersInv, LocksInv, OwnRowsInv, [Next]_vars
  PROVE  OwnRowsInv'
<1>1. ASSUME NEW h \in Handlers, LockRows(h)
      PROVE  OwnRowsInv'
  <2>1. /\ positions' = positions /\ signal' = signal
        /\ stage[h] = "selecting" /\ stage'[h] = "filling"
        /\ found'[h] = StillOpen(h) /\ StillOpen(h) \subseteq found[h]
        /\ \A n \in found[h] : ~LockedByOther(h, n)
        /\ \A g \in Handlers \ {h} : /\ stage'[g] = stage[g] /\ found'[g] = found[g]
                                     /\ loaded'[g] = loaded[g]
    BY <1>1 DEF LockRows, Lockable, StillOpen, TypeOK
  <2>2. \A n \in found'[h] : /\ positions[n].symbol = signal[h].symbol
                             /\ \A g \in Handlers \ {h} : stage[g] = "filling" => n \notin found[g]
    BY <2>1 DEF OwnRowsInv, LockedByOther
  <2>3. loaded'[h] # NoRow => /\ loaded'[h].quantity = positions[loaded'[h].row].quantity
                              /\ loaded'[h].cost = positions[loaded'[h].row].cost
    <3>1. CASE UNCHANGED loaded
      BY <3>1 DEF OwnRowsInv
    <3>2. ASSUME NEW n \in StillOpen(h),
                 loaded' = [loaded EXCEPT ![h] = [row |-> n, quantity |-> positions[n].quantity,
                                                  cost |-> positions[n].cost]]
          PROVE  /\ loaded'[h].quantity = positions[loaded'[h].row].quantity
                 /\ loaded'[h].cost = positions[loaded'[h].row].cost
      <4>1. loaded'[h] = [row |-> n, quantity |-> positions[n].quantity,
                          cost |-> positions[n].cost]
        BY <3>2 DEF TypeOK
      <4> QED
        BY <4>1
    <3>3. \/ UNCHANGED loaded
          \/ \E n \in StillOpen(h) :
               loaded' = [loaded EXCEPT ![h] = [row |-> n, quantity |-> positions[n].quantity,
                                                cost |-> positions[n].cost]]
      BY <1>1 DEF LockRows
    <3> QED
      BY <3>1, <3>2, <3>3
  <2>4. ASSUME NEW g \in Handlers
        PROVE  /\ stage'[g] = "filling" => \A n \in found'[g] : ~LockedByOther(g, n)'
               /\ stage'[g] \in {"selecting", "filling"} =>
                    \A n \in found'[g] : positions[n].symbol = signal[g].symbol
               /\ loaded'[g] # NoRow => /\ loaded'[g].quantity = positions[loaded'[g].row].quantity
                                        /\ loaded'[g].cost = positions[loaded'[g].row].cost
    <3>1. CASE g = h
      BY <2>1, <2>2, <2>3, <3>1 DEF LockedByOther
    <3>2. CASE g # h
      BY <2>1, <2>2, <3>2 DEF LockedByOther, OwnRowsInv
    <3> QED
      BY <3>1, <3>2
  <2> QED
    BY <2>1, <2>4 DEF OwnRowsInv
<1>2. ASSUME NEW h \in Handlers, SelectOpen(h)
      PROVE  OwnRowsInv'
  BY <1>2 DEF TypeOK, OwnRowsInv, LockedByOther, SelectOpen, OpenFor
<1>3. ASSUME NEW h \in Handlers,
             (\E s \in Signals : ReadSettings(h, s)) \/ CountOpen(h) \/ Approve(h)
      PROVE  OwnRowsInv'
  BY <1>3 DEF TypeOK, OwnRowsInv, LockedByOther, ReadSettings, CountOpen, Approve
<1>4. ASSUME NEW h \in Handlers, Idle(h), signal' = [signal EXCEPT ![h] = NoSignal],
             \A g \in Handlers \ {h} : \A n \in found[g] : positions'[n].symbol = positions[n].symbol,
             \A g \in Handlers \ {h} : loaded[g] # NoRow =>
               /\ positions'[loaded[g].row].quantity = positions[loaded[g].row].quantity
               /\ positions'[loaded[g].row].cost = positions[loaded[g].row].cost
      PROVE  OwnRowsInv'
  <2>1. \A g \in Handlers \ {h} : signal'[g] = signal[g]
    BY <1>4 DEF TypeOK
  <2> QED
    BY <1>4, <2>1, IdleTypes DEF OwnRowsInv, LockedByOther
<1>5. ASSUME NEW h \in Handlers, CommitFill(h)
      PROVE  OwnRowsInv'
  <2>1. Idle(h) /\ signal' = [signal EXCEPT ![h] = NoSignal] /\ stage[h] = "filling"
    BY <1>5 DEF CommitFill, Idle
  <2>2. \A g \in Handlers : found[g] \subseteq Rows
    BY DEF TypeOK
  <2>3. \A g \in Handlers : \A n \in found[g] : positions'[n].symbol = positions[n].symbol
    BY <1>5, <2>2, FillRows
  <2>4. ASSUME NEW g \in Handlers \ {h}, loaded[g] # NoRow
        PROVE  positions'[loaded[g].row] = positions[loaded[g].row]
    <3>1. stage[g] = "filling" /\ loaded[g].row \in found[g] /\ loaded[g].row \in Rows
      BY <2>2, <2>4 DEF LocksInv
    <3>2. loaded[g].row \notin found[h]
      BY <2>1, <3>1 DEF OwnRowsInv, LockedByOther
    <3> QED
      BY <1>5, <3>1, <3>2, FillChange
  <2> QED
    BY <1>4, <2>1, <2>3, <2>4
<1>6. ASSUME NEW h \in Handlers, Rollback(h)
      PROVE  OwnRowsInv'
  BY <1>4, <1>6 DEF Rollback, Idle
<1>7. ASSUME NEW r \in Reconcilers, CommitClosings(r)
      PROVE  OwnRowsInv'
  <2>1. UNCHANGED << stage, signal, found, loaded >>
    BY <1>7 DEF CommitClosings, handlerVars
  <2>2. \A h \in Handlers : /\ found[h] \subseteq Rows
                            /\ loaded[h] # NoRow => loaded[h].row \in Rows
    BY DEF TypeOK, LocksInv
  <2> QED
    BY <1>7, <2>1, <2>2, ClosingRows DEF OwnRowsInv, LockedByOther
<1>8. CASE (\E r \in Reconcilers : ReadPositions(r)) \/ (\E rt \in RuntimeSettings : UpdateSettings(rt))
           \/ Midnight \/ UNCHANGED vars
  BY <1>8 DEF ReadPositions, UpdateSettings, Midnight, vars, handlerVars, OwnRowsInv, LockedByOther
<1> QED
  BY <1>1, <1>2, <1>3, <1>5, <1>6, <1>7, <1>8 DEF Next

-----------------------------------------------------------------------------
\* OrdersInv is preserved: the gate has looked at the levels, the locking read at
\* the side of the row, and no step changes the side of a row.
LEMMA OrdersStep ==
  ASSUME TypeOK, LocksInv, OrdersInv, [Next]_vars
  PROVE  OrdersInv'
<1> DEFINE HasLevels(s) == s.stopLoss # None /\ s.takeProfit # None
<1>1. ASSUME NEW h \in Handlers, NEW s \in Signals, ReadSettings(h, s)
      PROVE  OrdersInv'
  <2>1. HasLevels(s)
    BY <1>1 DEF ReadSettings, PassesSettings, RewardCoversRisk
  <2>2. /\ signal'[h] = s /\ \A g \in Handlers \ {h} : signal'[g] = signal[g] /\ stage'[g] = stage[g]
        /\ UNCHANGED << positions, loaded >>
    BY <1>1 DEF ReadSettings, TypeOK
  <2>3. loaded[h] = NoRow
    BY <1>1 DEF ReadSettings, LocksInv
  <2> QED
    BY <2>1, <2>2, <2>3 DEF OrdersInv
<1>2. ASSUME NEW h \in Handlers, LockRows(h)
      PROVE  OrdersInv'
  <2>1. UNCHANGED << positions, signal >> /\ stage[h] # "idle"
    BY <1>2 DEF LockRows
  <2>2. \A g \in Handlers \ {h} : loaded'[g] = loaded[g] /\ stage'[g] = stage[g]
    BY <1>2 DEF LockRows, TypeOK
  <2>3. \/ loaded'[h] = loaded[h]
        \/ /\ positions[loaded'[h].row].side = signal[h].side
           /\ loaded'[h].quantity + signal[h].quantity # 0
    <3>1. ASSUME NEW n \in StillOpen(h), positions[n].side = signal[h].side, Divisible(h, n),
                 loaded' = [loaded EXCEPT ![h] = [row |-> n, quantity |-> positions[n].quantity,
                                                  cost |-> positions[n].cost]]
          PROVE  /\ positions[loaded'[h].row].side = signal[h].side
                 /\ loaded'[h].quantity + signal[h].quantity # 0
      <4>1. loaded'[h] = [row |-> n, quantity |-> positions[n].quantity, cost |-> positions[n].cost]
        BY <3>1 DEF TypeOK
      <4>2. loaded'[h].row = n /\ loaded'[h].quantity = positions[n].quantity
        BY <4>1
      <4> QED
        BY <3>1, <4>2 DEF Divisible
    <3> QED
      BY <1>2, <3>1 DEF LockRows
  <2> QED
    BY <2>1, <2>2, <2>3 DEF OrdersInv
<1>3. ASSUME NEW h \in Handlers, CountOpen(h) \/ Approve(h) \/ SelectOpen(h)
      PROVE  OrdersInv'
  BY <1>3 DEF TypeOK, OrdersInv, CountOpen, Approve, SelectOpen
<1>4. ASSUME NEW h \in Handlers, Idle(h),
             \A g \in Handlers : loaded[g] # NoRow =>
               positions'[loaded[g].row].side = positions[loaded[g].row].side
      PROVE  OrdersInv'
  <2>1. \A g \in Handlers \ {h} : signal'[g] = signal[g]
    BY <1>4 DEF Idle, TypeOK
  <2>2. /\ stage'[h] = "idle" /\ loaded'[h] = NoRow
        /\ \A g \in Handlers \ {h} : stage'[g] = stage[g] /\ loaded'[g] = loaded[g]
    BY <1>4, IdleTypes
  <2> QED
    BY <1>4, <2>1, <2>2 DEF OrdersInv
<1>5. \A h \in Handlers : loaded[h] # NoRow => loaded[h].row \in Rows
  BY DEF LocksInv, OpenRows
<1>6. ASSUME NEW h \in Handlers, CommitFill(h)
      PROVE  OrdersInv'
  BY <1>4, <1>5, <1>6, FillRows DEF CommitFill
<1>7. ASSUME NEW h \in Handlers, Rollback(h)
      PROVE  OrdersInv'
  BY <1>4, <1>7 DEF Rollback
<1>8. ASSUME NEW r \in Reconcilers, CommitClosings(r)
      PROVE  OrdersInv'
  <2>1. UNCHANGED << stage, signal, loaded >>
    BY <1>8 DEF CommitClosings, handlerVars
  <2> QED
    BY <1>5, <1>8, <2>1, ClosingRows DEF OrdersInv
<1>9. CASE (\E r \in Reconcilers : ReadPositions(r)) \/ (\E rt \in RuntimeSettings : UpdateSettings(rt))
           \/ Midnight \/ UNCHANGED vars
  BY <1>9 DEF ReadPositions, UpdateSettings, Midnight, vars, handlerVars, OrdersInv
<1> QED
  BY <1>1, <1>2, <1>3, <1>6, <1>7, <1>8, <1>9 DEF Next

-----------------------------------------------------------------------------
\* The orders of a symbol are in its rows: an order adds its quantity to one of
\* them, or brings a row of its own, and a closing keeps the quantities.
LEMMA FillsStep ==
  ASSUME TypeOK, OrdersInv, TypeOK', LocksInv, OwnRowsInv, FillsConserved, [Next]_vars
  PROVE  FillsConserved'
<1> DEFINE quantities == [n \in Rows |-> positions[n].quantity]
           of(symbol) == {n \in Rows : positions[n].symbol = symbol}
<1>1. /\ \A n \in Rows : quantities[n] \in Int
      /\ \A symbol : IsFiniteSet(of(symbol)) /\ of(symbol) \subseteq Rows
  <2>1. \A symbol : of(symbol) \subseteq Rows
    OBVIOUS
  <2> QED
    BY <2>1, RowsFinite, FS_Subset
<1>2. \A n \in Rows' : quantities'[n] = positions'[n].quantity /\ quantities'[n] \in Int
  <2>1. \A n \in Rows' : positions'[n] \in Position
    BY DEF TypeOK, Rows
  <2> QED
    BY <2>1 DEF Position
<1>3. ASSUME NEW h \in Handlers, CommitFill(h), NEW symbol \in Symbols
      PROVE  QuantityOf(symbol)' = filled'[symbol]
  <2> DEFINE s == signal[h]
  <2>1. s.symbol \in Symbols /\ s.quantity \in Int
    BY <1>3, SignalsAssumption DEF TypeOK, CommitFill, SignalType
  <2>2. filled'[symbol] = IF symbol = s.symbol THEN filled[symbol] + s.quantity
                                               ELSE filled[symbol]
    BY <1>3, <2>1 DEF TypeOK, CommitFill
  <2>3. QuantityOf(symbol) = filled[symbol] /\ filled[symbol] \in Int
    BY DEF FillsConserved, TypeOK
  <2>4. CASE LET k == Len(positions) + 1 IN
               /\ k \notin Rows /\ Rows' = Rows \cup {k} /\ OpenRows' = OpenRows \cup {k}
               /\ positions'[k] = NewPosition(s)
               /\ \A n \in Rows : positions'[n] = positions[n]
    <3> DEFINE k == Len(positions) + 1
    <3>1. positions'[k].symbol = s.symbol /\ positions'[k].quantity = s.quantity
      BY <2>4 DEF NewPosition
    <3> HIDE DEF s
    <3>2. of(symbol)' = IF symbol = s.symbol THEN of(symbol) \cup {k} ELSE of(symbol)
      BY <2>4, <3>1
    <3>3. k \notin of(symbol) /\ of(symbol) \subseteq Rows'
      BY <2>4
    <3>4. \A n \in of(symbol) : quantities'[n] = quantities[n] /\ quantities[n] \in Int
      BY <1>1, <1>2, <2>4, <3>3
    <3>5. quantities'[k] = s.quantity
      BY <1>2, <2>4, <3>1
    <3> HIDE DEF quantities, of, k
    <3>6. SumFunctionOnSet(quantities', of(symbol)) = SumFunctionOnSet(quantities, of(symbol))
      BY <1>1, <3>4, SumSame
    <3>7. SumFunctionOnSet(quantities', of(symbol) \cup {k})
            = SumFunctionOnSet(quantities', of(symbol)) + quantities'[k]
      <4>1. \A n \in of(symbol) \cup {k} : quantities'[n] \in Int
        BY <2>1, <3>4, <3>5
      <4> QED
        BY <1>1, <3>3, <4>1, SumAdds
    <3>8. QuantityOf(symbol)' = SumFunctionOnSet(quantities', of(symbol)')
      BY DEF QuantityOf, quantities, of
    <3>9. QuantityOf(symbol) = SumFunctionOnSet(quantities, of(symbol))
      BY DEF QuantityOf, quantities, of
    <3> QED
      BY <2>2, <2>3, <3>2, <3>5, <3>6, <3>7, <3>8, <3>9
  <2>5. ASSUME NEW k \in OpenRows,
               Rows' = Rows,
               positions[k].symbol = s.symbol,
               positions'[k].symbol = s.symbol,
               positions'[k].quantity = positions[k].quantity + s.quantity,
               \A n \in Rows \ {k} : positions'[n] = positions[n]
        PROVE  QuantityOf(symbol)' = filled'[symbol]
    <3>1. k \in Rows
      BY DEF OpenRows
    <3>2. of(symbol)' = of(symbol)
      BY <2>5, <3>1
    <3>3. \A n \in of(symbol) \ {k} : quantities'[n] = quantities[n]
      BY <1>2, <2>5
    <3>4. quantities'[k] = quantities[k] + s.quantity /\ quantities[k] \in Int
      BY <1>1, <1>2, <2>5, <3>1
    <3>5. k \in of(symbol) <=> symbol = s.symbol
      BY <2>5, <3>1
    <3>6. \A n \in of(symbol) : quantities[n] \in Int
      BY <1>1
    <3> HIDE DEF quantities, of, s
    <3>7. CASE symbol = s.symbol
      <4>1. SumFunctionOnSet(quantities', of(symbol))
              = SumFunctionOnSet(quantities, of(symbol)) + (quantities'[k] - quantities[k])
        <5>1. quantities'[k] \in Int /\ k \in of(symbol) /\ IsFiniteSet(of(symbol))
          BY <1>1, <2>1, <3>4, <3>5, <3>7
        <5> QED
          BY <3>3, <3>6, <5>1, SumChanges
      <4>2. quantities'[k] - quantities[k] = s.quantity
        BY <2>1, <3>4
      <4> QED
        BY <2>2, <2>3, <3>2, <3>7, <4>1, <4>2 DEF QuantityOf, quantities, of
    <3>8. CASE symbol # s.symbol
      <4>1. \A n \in of(symbol) : quantities'[n] = quantities[n]
        BY <3>3, <3>5, <3>8
      <4>2. SumFunctionOnSet(quantities', of(symbol)) = SumFunctionOnSet(quantities, of(symbol))
        BY <1>1, <3>6, <4>1, SumSame
      <4> QED
        BY <2>2, <2>3, <3>2, <3>8, <4>2 DEF QuantityOf, quantities, of
    <3> QED
      BY <3>7, <3>8
  <2> QED
    BY <1>3, <2>4, <2>5, FillChange
<1>4. ASSUME NEW r \in Reconcilers, CommitClosings(r), NEW symbol \in Symbols
      PROVE  QuantityOf(symbol)' = filled'[symbol]
  <2>1. /\ Rows' = Rows /\ filled' = filled
        /\ \A n \in Rows : /\ positions'[n].symbol = positions[n].symbol
                           /\ positions'[n].quantity = positions[n].quantity
    BY <1>4, ClosingRows DEF CommitClosings, historyVars
  <2>2. of(symbol)' = of(symbol) /\ quantities' = quantities
    BY <2>1
  <2> QED
    BY <2>1, <2>2 DEF FillsConserved, QuantityOf
<1>5. CASE UNCHANGED << positions, filled >>
  BY <1>5 DEF FillsConserved, QuantityOf, Rows
<1> QED
  BY <1>3, <1>4, <1>5 DEF FillsConserved, Next, ReadSettings, CountOpen, Approve, SelectOpen,
     LockRows, Rollback, ReadPositions, UpdateSettings, Midnight, vars, historyVars

-----------------------------------------------------------------------------
\* An order adds its cost to the exposure.
LEMMA OrderAddsCost ==
  ASSUME TypeOK, OrdersInv, TypeOK', LocksInv, OwnRowsInv, NEW h \in Handlers, CommitFill(h)
  PROVE  Exposure' = Exposure + Cost(signal[h])
<1> DEFINE costs == [n \in Rows |-> positions[n].cost]
           s == signal[h]
<1>1. Cost(s) \in Int
  BY Amounts DEF TypeOK, CommitFill
<1>2. /\ IsFiniteSet(OpenRows) /\ OpenRows \subseteq Rows
      /\ \A n \in Rows : costs[n] = positions[n].cost /\ costs[n] \in Int
  BY OpenCount, RowsFinite DEF OpenRows
<1>3. \A n \in Rows' : costs'[n] = positions'[n].cost
  OBVIOUS
<1>4. CASE LET k == Len(positions) + 1 IN
             /\ k \notin Rows /\ Rows' = Rows \cup {k} /\ OpenRows' = OpenRows \cup {k}
             /\ positions'[k] = NewPosition(s)
             /\ \A n \in Rows : positions'[n] = positions[n]
  <2> DEFINE k == Len(positions) + 1
  <2>1. positions'[k].cost = Cost(s)
    BY <1>4 DEF NewPosition
  <2> HIDE DEF s
  <2>2. costs'[k] = Cost(s) /\ k \notin OpenRows
    BY <1>2, <1>3, <1>4, <2>1
  <2>3. \A n \in OpenRows : costs'[n] = costs[n] /\ costs[n] \in Int
    BY <1>2, <1>3, <1>4
  <2>4. OpenRows' = OpenRows \cup {k}
    BY <1>4
  <2> HIDE DEF costs, k
  <2>5. SumFunctionOnSet(costs', OpenRows) = SumFunctionOnSet(costs, OpenRows)
    BY <1>2, <2>3, SumSame
  <2>6. SumFunctionOnSet(costs', OpenRows \cup {k}) = SumFunctionOnSet(costs', OpenRows) + costs'[k]
    <3>1. \A n \in OpenRows \cup {k} : costs'[n] \in Int
      BY <1>1, <2>2, <2>3
    <3> QED
      BY <1>2, <2>2, <3>1, SumAdds
  <2> QED
    BY <2>2, <2>4, <2>5, <2>6 DEF Exposure, costs, s
<1>5. ASSUME NEW k \in OpenRows,
             Rows' = Rows, OpenRows' = OpenRows,
             positions'[k].cost = positions[k].cost + Cost(s),
             \A n \in Rows \ {k} : positions'[n] = positions[n]
      PROVE  Exposure' = Exposure + Cost(s)
  <2> HIDE DEF s
  <2>1. k \in Rows /\ costs'[k] = costs[k] + Cost(s)
    BY <1>2, <1>3, <1>5
  <2>2. \A n \in OpenRows \ {k} : costs'[n] = costs[n]
    BY <1>2, <1>3, <1>5
  <2>3. \A n \in OpenRows : costs[n] \in Int
    BY <1>2
  <2> HIDE DEF costs
  <2>4. costs'[k] \in Int /\ costs'[k] - costs[k] = Cost(s)
    BY <1>1, <2>1, <2>3
  <2>5. SumFunctionOnSet(costs', OpenRows)
          = SumFunctionOnSet(costs, OpenRows) + (costs'[k] - costs[k])
    BY <1>2, <2>2, <2>3, <2>4, SumChanges
  <2> QED
    BY <1>5, <2>4, <2>5 DEF Exposure, costs
<1> QED
  BY <1>4, <1>5, FillChange

\* What is known of the numbers in ExposureInv.
LEMMA ExposureNumbers ==
  ASSUME TypeOK
  PROVE  /\ Exposure \in Int /\ OrderCap \in Nat /\ ExposureLimit \in Int /\ released \in Nat
         /\ IsFiniteSet(Adding) /\ Cardinality(Adding) \in Nat
         /\ Cardinality(Adding) * OrderCap \in Nat
         /\ (Cardinality(Adding) - 1) * OrderCap = Cardinality(Adding) * OrderCap - OrderCap
         /\ \A h \in Adding : Cost(signal[h]) \in Nat /\ Cost(signal[h]) <= OrderCap
<1>1. \A a, b \in Nat : a * b \in Nat /\ (a - 1) * b = a * b - b
  OBVIOUS
<1>2. \A a, b \in Int : a * b \in Int
  OBVIOUS
<1>3. /\ Cardinality(Handlers) - 1 \in Int /\ ExposureCap \in Nat /\ OrderCap \in Nat
      /\ released \in Nat
  BY FlightCounts, ExposureAssumption DEF TypeOK
<1>4. (Cardinality(Handlers) - 1) * OrderCap \in Int
  BY <1>2, <1>3
<1>5. ExposureLimit \in Int
  BY <1>3, <1>4 DEF ExposureLimit
<1>6. \A h \in Adding : Cost(signal[h]) \in Nat /\ Cost(signal[h]) <= OrderCap
  <2>1. \A h \in Adding : signal[h] \in Signals /\ Cost(signal[h]) > 0
    BY DEF Adding, Passed, TypeOK
  <2>2. \A s \in Signals : Cost(s) \in Int /\ Cost(s) <= OrderCap
    BY Amounts, ExposureAssumption DEF Cost
  <2> QED
    BY <2>1, <2>2
<1>7. IsFiniteSet(Adding) /\ Cardinality(Adding) \in Nat
  <2>1. Adding \subseteq Passed
    BY DEF Adding
  <2> QED
    BY <2>1, FlightCounts, FS_Subset, FS_CardinalityType
<1> QED
  BY <1>1, <1>3, <1>5, <1>6, <1>7, ExposureType

\* ExposureInv is preserved: a transaction that ends gives up the place it held,
\* with its order or without it, one that counts has seen all the others, and what
\* a closing adds it has released.
LEMMA ExposureStep ==
  ASSUME TypeOK, OrdersInv, TypeOK', LocksInv, OwnRowsInv, ExposureInv, [Next]_vars
  PROVE  ExposureInv'
<1> DEFINE P == Cardinality(Adding) * OrderCap
           P1 == Cardinality(Adding') * OrderCap
           L == ExposureCap + (Cardinality(Handlers) - 1) * OrderCap
<1>1. /\ Exposure \in Int /\ Exposure' \in Int /\ released \in Nat /\ released' \in Nat /\ OrderCap \in Nat
      /\ P \in Nat /\ P1 \in Nat /\ L \in Int
  <2>1. Exposure \in Int /\ released \in Nat /\ released' \in Nat /\ OrderCap \in Nat /\ P \in Nat
    BY ExposureNumbers DEF TypeOK
  <2>2. Cardinality(Adding') \in Nat
    <3>1. Adding' \subseteq Handlers
      BY DEF Adding, Passed
    <3> QED
      BY <3>1, ProcessesAssumption, FS_Subset, FS_CardinalityType
  <2>3. P1 \in Nat
    <3>1. \A a, b \in Nat : a * b \in Nat
      OBVIOUS
    <3> QED
      BY <2>2, <3>1, ExposureAssumption
  <2>4. L \in Int
    <3>1. \A a, b \in Int : a * b \in Int
      OBVIOUS
    <3> QED
      BY <3>1, FlightCounts, ExposureAssumption
  <2>5. Exposure' \in Int
    BY ExposureTypeAfter
  <2> QED
    BY <2>1, <2>3, <2>4, <2>5
<1>2. /\ (Cardinality(Adding) - 1) * OrderCap = P - OrderCap
       /\ (Cardinality(Adding') - 1) * OrderCap = P1 - OrderCap
  <2>1. Cardinality(Adding') \in Nat /\ Cardinality(Adding) \in Nat
    <3>1. Adding' \subseteq Handlers /\ Adding \subseteq Handlers
      BY DEF Adding, Passed
    <3> QED
      BY <3>1, ProcessesAssumption, FS_Subset, FS_CardinalityType
  <2>2. \A a, b \in Nat : (a - 1) * b = a * b - b
    OBVIOUS
  <2> QED
    BY <2>1, <2>2, ExposureAssumption
<1>3. \A h \in Adding : Cost(signal[h]) \in Nat /\ Cost(signal[h]) <= OrderCap
  BY ExposureNumbers
<1>4. PICK e1 \in Int, r1 \in Nat : e1 = Exposure' /\ r1 = released'
  BY <1>1
<1>5. \/ Exposure + P <= L + released
      \/ \E h \in Adding : Exposure + Cost(signal[h]) + (P - OrderCap) <= L + released
  BY <1>2 DEF ExposureInv, ExposureLimit
<1>6. ASSUME e1 + P1 <= L + r1
      PROVE  ExposureInv'
  BY <1>6, <1>4 DEF ExposureInv, ExposureLimit
<1>7. ASSUME NEW h \in Adding', signal'[h] = signal[h],
             e1 + Cost(signal[h]) + (P1 - OrderCap) <= L + r1
      PROVE  ExposureInv'
  BY <1>7, <1>2, <1>4 DEF ExposureInv, ExposureLimit, Cost
<1> HIDE DEF P, P1, L
\* A transaction that was going to add to the exposure ends.
<1>8. ASSUME NEW h \in Adding, Adding' = Adding \ {h}, \A g \in Adding' : signal'[g] = signal[g],
             r1 = released, e1 <= Exposure + Cost(signal[h])
      PROVE  ExposureInv'
  <2>1. P1 = P - OrderCap
    <3>1. Cardinality(Adding') = Cardinality(Adding) - 1
      BY <1>8, ExposureNumbers, FS_RemoveElement
    <3>2. P1 = (Cardinality(Adding) - 1) * OrderCap
      BY <3>1 DEF P1
    <3> QED
      BY <1>2, <3>2
  <2>2. CASE Exposure + P <= L + released
    <3>1. Cost(signal[h]) \in Nat /\ Cost(signal[h]) <= OrderCap
      BY <1>3
    <3>2. e1 + P1 <= L + r1
      BY <1>1, <1>8, <2>1, <2>2, <3>1
    <3> QED
      BY <1>6, <3>2
  <2>3. ASSUME NEW g \in Adding, Exposure + Cost(signal[g]) + (P - OrderCap) <= L + released
        PROVE  ExposureInv'
    <3>1. /\ Cost(signal[g]) \in Nat /\ Cost(signal[h]) \in Nat
          /\ Cost(signal[h]) <= OrderCap
      BY <1>3
    <3>2. CASE g = h
      <4>1. e1 <= Exposure + Cost(signal[g])
        BY <1>8, <3>2
      <4>2. e1 + P1 <= L + r1
        BY <1>1, <1>8, <2>1, <2>3, <3>1, <4>1
      <4> QED
        BY <1>6, <4>2
    <3>3. CASE g # h
      <4>1. e1 + Cost(signal[g]) + (P1 - OrderCap) <= L + r1
        BY <1>1, <1>8, <2>1, <2>3, <3>1
      <4> QED
        BY <1>7, <1>8, <3>3, <4>1
    <3> QED
      BY <3>2, <3>3
  <2> QED
    BY <1>5, <2>2, <2>3
\* Nothing is added that is not released.
<1>9. ASSUME Adding' = Adding, \A g \in Adding : signal'[g] = signal[g],
             e1 - r1 <= Exposure - released
      PROVE  ExposureInv'
  <2>1. P1 = P
    BY <1>9 DEF P, P1
  <2>2. CASE Exposure + P <= L + released
    <3>1. e1 + P1 <= L + r1
      BY <1>1, <1>9, <2>1, <2>2
    <3> QED
      BY <1>6, <3>1
  <2>3. ASSUME NEW g \in Adding, Exposure + Cost(signal[g]) + (P - OrderCap) <= L + released
        PROVE  ExposureInv'
    <3>1. Cost(signal[g]) \in Nat
      BY <1>3
    <3>2. e1 + Cost(signal[g]) + (P1 - OrderCap) <= L + r1
      BY <1>1, <1>9, <2>1, <2>3, <3>1
    <3> QED
      BY <1>7, <1>9, <3>2
  <2> QED
    BY <1>5, <2>2, <2>3
<1>10. ASSUME NEW h \in Handlers, CountOpen(h)
      PROVE  ExposureInv'
  <2> DEFINE c == Cost(signal[h])
  <2>1. /\ e1 = Exposure /\ signal' = signal /\ h \notin Passed /\ Passed' = Passed \cup {h}
        /\ r1 = IF c > 0 THEN 0 ELSE released
    BY <1>10, <1>4 DEF CountOpen, Exposure, OpenRows, Rows, Passed, TypeOK
  <2>2. c \in Int
    BY <1>10, Amounts DEF TypeOK, CountOpen
  <2>3. CASE c > 0
    <3>1. h \in Adding' /\ signal'[h] = signal[h]
      BY <2>1, <2>3 DEF Adding, Cost
    <3>2. Exposure + c <= ExposureCap
      <4>1. seen[h] \in RuntimeSettings /\ seen[h].exposureCap \in Int
        BY <1>10, SettingsAssumption DEF TypeOK, CountOpen, SettingsType
      <4>2. Exposure + c <= seen[h].exposureCap
        BY <1>10 DEF CountOpen, BelowExposureCap
      <4>3. seen[h].exposureCap <= ExposureCap /\ ExposureCap \in Nat
        BY <4>1, ExposureAssumption
      <4> HIDE DEF c
      <4> QED
        BY <1>1, <2>2, <4>1, <4>2, <4>3
    <3>3. ExposureCap + (P1 - OrderCap) <= L
      <4>1. /\ Cardinality(Adding') \in Nat /\ Cardinality(Adding') <= Cardinality(Handlers)
            /\ Cardinality(Handlers) \in Nat
        <5>1. Adding' \subseteq Handlers
          BY DEF Adding, Passed
        <5> QED
          BY <5>1, ProcessesAssumption, FS_Subset, FS_CardinalityType
      <4>2. \A a, b \in Int, k \in Nat : a <= b => a * k <= b * k /\ a * k \in Int /\ b * k \in Int
        OBVIOUS
      <4>3. Cardinality(Adding') - 1 <= Cardinality(Handlers) - 1
        BY <4>1
      <4>4. /\ (Cardinality(Adding') - 1) * OrderCap <= (Cardinality(Handlers) - 1) * OrderCap
            /\ (Cardinality(Handlers) - 1) * OrderCap \in Int
        BY <4>1, <4>2, <4>3, ExposureAssumption
      <4> QED
        BY <1>1, <1>2, <4>4, ExposureAssumption DEF L
    <3>4. e1 + c + (P1 - OrderCap) <= L + r1
      <4> HIDE DEF c
      <4> QED
        BY <1>1, <2>1, <2>2, <2>3, <3>2, <3>3, ExposureAssumption
    <3> QED
      BY <1>7, <3>1, <3>4
  <2>4. CASE ~(c > 0)
    <3>1. Adding' = Adding
      BY <2>1, <2>4 DEF Adding, Cost
    <3> QED
      BY <1>1, <1>9, <2>1, <2>4, <3>1
  <2> QED
    BY <2>3, <2>4
\* A transaction ends, with its order or without it.
<1>11. ASSUME NEW h \in Handlers, Passed' = Passed \ {h}, signal' = [signal EXCEPT ![h] = NoSignal],
             r1 = released, e1 = Exposure \/ (h \in Passed /\ e1 = Exposure + Cost(signal[h]))
      PROVE  ExposureInv'
  <2>1. \A g \in Handlers \ {h} : signal'[g] = signal[g]
    BY <1>11 DEF TypeOK
  <2>2. Adding' = Adding \ {h} /\ \A g \in Adding' : signal'[g] = signal[g]
    BY <1>11, <2>1 DEF Adding, Passed, Cost
  <2>3. CASE h \in Adding
    <3>1. e1 <= Exposure + Cost(signal[h])
      BY <1>1, <1>11, <1>3, <2>3
    <3> QED
      BY <1>8, <1>11, <2>2, <2>3, <3>1
  <2>4. CASE h \notin Adding
    <3>1. e1 <= Exposure
      <4>1. h \in Passed => Cost(signal[h]) \in Int /\ ~(Cost(signal[h]) > 0)
        BY <2>4, Amounts DEF Adding, Passed, TypeOK
      <4> QED
        BY <1>1, <1>11, <4>1
    <3>2. e1 - r1 <= Exposure - released
      BY <1>1, <1>11, <3>1
    <3> QED
      BY <1>9, <2>2, <2>4, <3>2
  <2> QED
    BY <2>3, <2>4
<1>12. ASSUME NEW h \in Handlers, CommitFill(h)
      PROVE  ExposureInv'
  <2>1. h \in Passed /\ Passed' = Passed \ {h}
    BY <1>12, EndOfFlight DEF CommitFill, Passed
  <2>2. e1 = Exposure + Cost(signal[h])
    BY <1>12, <1>4, OrderAddsCost
  <2>3. signal' = [signal EXCEPT ![h] = NoSignal] /\ r1 = released
    BY <1>12, <1>4 DEF CommitFill, Idle
  <2> QED
    BY <1>11, <2>1, <2>2, <2>3
<1>13. ASSUME NEW h \in Handlers, Rollback(h)
       PROVE  ExposureInv'
  <2>1. Passed' = Passed \ {h} /\ e1 = Exposure
    BY <1>13, <1>4, EndOfFlight DEF Rollback, Exposure, OpenRows, Rows
  <2>2. signal' = [signal EXCEPT ![h] = NoSignal] /\ r1 = released
    BY <1>13, <1>4 DEF Rollback, Idle, historyVars
  <2> QED
    BY <1>11, <2>1, <2>2
<1>14. ASSUME NEW h \in Handlers,
              (\E s \in Signals : ReadSettings(h, s)) \/ Approve(h) \/ SelectOpen(h) \/ LockRows(h)
       PROVE  ExposureInv'
  <2>1. e1 = Exposure /\ r1 = released
    BY <1>14, <1>4 DEF ReadSettings, Approve, SelectOpen, LockRows, Exposure, OpenRows, Rows, historyVars
  <2>2. Passed' = Passed /\ \A g \in Passed : signal'[g] = signal[g]
    BY <1>14 DEF TypeOK, ReadSettings, Approve, SelectOpen, LockRows, Passed
  <2>3. Adding' = Adding /\ \A g \in Adding : signal'[g] = signal[g]
    BY <2>2 DEF Adding, Cost
  <2> QED
    BY <1>1, <1>9, <2>1, <2>3
<1>15. ASSUME NEW r \in Reconcilers, CommitClosings(r)
       PROVE  ExposureInv'
  <2>1. Adding' = Adding /\ signal' = signal
    BY <1>15 DEF CommitClosings, handlerVars, Passed, Adding, Cost
  <2>2. e1 - r1 <= Exposure - released
    BY <1>15, <1>4, ClosingsRelease
  <2> QED
    BY <1>9, <2>1, <2>2
<1>16. CASE (\E r \in Reconcilers : ReadPositions(r)) \/ (\E rt \in RuntimeSettings : UpdateSettings(rt))
            \/ Midnight \/ UNCHANGED vars
  <2>1. UNCHANGED << positions, stage, signal, released >>
    BY <1>16 DEF ReadPositions, UpdateSettings, Midnight, vars, handlerVars, historyVars
  <2>2. Adding' = Adding /\ signal' = signal /\ e1 = Exposure /\ r1 = released
    BY <2>1, <1>4 DEF Adding, Passed, Cost, Exposure, OpenRows, Rows
  <2> QED
    BY <1>1, <1>9, <2>2
<1> QED
  BY <1>10, <1>12, <1>13, <1>14, <1>15, <1>16 DEF Next

-----------------------------------------------------------------------------
\* The inductive invariant holds in every reachable state.
THEOREM InvHolds == Spec => []Inv
<1>1. Init => Inv
  <2> SUFFICES ASSUME Init PROVE Inv
    OBVIOUS
  <2>1. /\ positions = << >> /\ Rows = {} /\ OpenRows = {}
        /\ Passed = {} /\ Adding = {} /\ InFlight = {}
    BY DEF Init, Rows, OpenRows, Passed, Adding, InFlight
  <2>2. TypeOK
    BY <2>1 DEF Init, TypeOK, Stages, LoadedType
  <2>3. /\ Cardinality(OpenRows) = 0 /\ Cardinality(InFlight) = 0
        /\ Cardinality(Passed) = 0 /\ Cardinality(Adding) = 0
    BY <2>1, FS_EmptySet
  <2>4. CountInv /\ KillInv
    BY <2>3, FlightCounts, CapAssumption DEF Init, CountInv, KillInv
  <2>5. LocksInv /\ OwnRowsInv
    BY DEF Init, LocksInv, OwnRowsInv
  <2>6. Exposure = 0 /\ \A symbol \in Symbols : QuantityOf(symbol) = 0
    <3>1. \A symbol \in Symbols : {n \in Rows : positions[n].symbol = symbol} = {}
      BY <2>1
    <3> QED
      BY <2>1, <3>1, SumOfNone DEF Exposure, QuantityOf
  <2>7. ExposureInv
    <3>1. (Cardinality(Handlers) - 1) * OrderCap \in Nat
      <4>1. Cardinality(Handlers) - 1 \in Nat
        BY ProcessesAssumption, FS_EmptySet, FS_CardinalityType
      <4>2. \A a, b \in Nat : a * b \in Nat
        OBVIOUS
      <4> QED
        BY <4>1, <4>2, ExposureAssumption
    <3>2. Exposure + Cardinality(Adding) * OrderCap = 0
      BY <2>3, <2>6, ExposureAssumption
    <3>3. 0 <= ExposureLimit
      BY <3>1, ExposureAssumption DEF Init, ExposureLimit
    <3> QED
      BY <3>2, <3>3 DEF ExposureInv
  <2>8. FillsConserved
    BY <2>6 DEF Init, FillsConserved
  <2>9. OrdersInv
    BY DEF Init, OrdersInv
  <2> QED
    BY <2>2, <2>4, <2>5, <2>7, <2>8, <2>9 DEF Inv
<1>2. Inv /\ [Next]_vars => Inv'
  BY TypeStep, CountStep, KillStep, LocksStep, OwnRowsStep, OrdersStep, FillsStep,
     ExposureStep DEF Inv
<1> QED
  BY <1>1, <1>2, PTL DEF Spec

\* Every variable keeps its type.
THEOREM TypeCorrect == Spec => []TypeOK
<1>1. Inv => TypeOK
  BY DEF Inv
<1> QED
  BY <1>1, InvHolds, PTL

\* However many transactions pass the gate on the same count of positions, the
\* limit is exceeded by less than their number.
THEOREM OpenBoundHolds == Spec => []OpenBound
<1>1. Inv => OpenBound
  <2> SUFFICES ASSUME Inv PROVE OpenBound
    OBVIOUS
  <2>1. Cardinality(OpenRows) \in Nat /\ Cardinality(Passed) \in Nat /\ Cardinality(Handlers) \in Nat
    BY FlightCounts, OpenCount DEF Inv
  <2> QED
    BY <2>1, CapAssumption DEF Inv, CountInv, OpenBound
<1> QED
  BY <1>1, InvHolds, PTL

\* The kill switch stops everything but the transactions in flight.
THEOREM KillSwitchDrainsHolds == Spec => []KillSwitchDrains
<1>1. Inv => KillSwitchDrains
  <2> SUFFICES ASSUME Inv PROVE KillSwitchDrains
    OBVIOUS
  <2>1. Cardinality(InFlight) \in Nat /\ Cardinality(Handlers) \in Nat /\ sinceKill \in Nat
    BY FlightCounts DEF Inv, TypeOK
  <2> QED
    BY <2>1 DEF Inv, KillInv, KillSwitchDrains
<1> QED
  BY <1>1, InvHolds, PTL

\* The exposure cap is exceeded by no more than the largest order for each of the
\* other transactions in flight, and what closings of negative costs have given back.
THEOREM ExposureBoundHolds == Spec => []ExposureBound
<1>1. Inv => ExposureBound
  <2> SUFFICES ASSUME Inv PROVE ExposureBound
    OBVIOUS
  <2>1. /\ Exposure \in Int /\ OrderCap \in Nat /\ ExposureLimit \in Int
        /\ Cardinality(Adding) * OrderCap \in Nat
        /\ \A h \in Adding : Cost(signal[h]) \in Nat
    BY ExposureNumbers DEF Inv
  <2>2. \A h \in Adding : (Cardinality(Adding) - 1) * OrderCap \in Nat
    <3>1. ASSUME NEW h \in Adding PROVE Cardinality(Adding) - 1 \in Nat
      BY ExposureNumbers, FS_EmptySet DEF Inv
    <3>2. \A a, b \in Nat : a * b \in Nat
      OBVIOUS
    <3> QED
      BY <2>1, <3>1, <3>2
  <2>3. Exposure <= ExposureLimit
    <3>1. CASE Exposure + Cardinality(Adding) * OrderCap <= ExposureLimit
      BY <2>1, <3>1
    <3>2. ASSUME NEW h \in Adding,
                 Exposure + Cost(signal[h]) + (Cardinality(Adding) - 1) * OrderCap <= ExposureLimit
          PROVE  Exposure <= ExposureLimit
      BY <2>1, <2>2, <3>2
    <3> QED
      BY <3>1, <3>2 DEF Inv, ExposureInv
  <2> QED
    BY <2>3 DEF ExposureBound, ExposureLimit
<1> QED
  BY <1>1, InvHolds, PTL

\* The quantity in the positions of a symbol is the quantity of its committed
\* orders: none is lost or counted twice when transactions overlap.
THEOREM FillsConservedHolds == Spec => []FillsConserved
<1>1. Inv => FillsConserved
  BY DEF Inv
<1> QED
  BY <1>1, InvHolds, PTL

\* No transaction and no reconciler changes what a closed position bought, or
\* opens it again: the row that an order increases is locked and open.
THEOREM ClosedKeepsItsFillsHolds == Spec => ClosedKeepsItsFills
<1> DEFINE Final(n) == /\ n \in Rows' /\ positions'[n].status = "CLOSED"
                       /\ positions'[n].quantity = positions[n].quantity
                       /\ positions'[n].cost = positions[n].cost
           Finality == \A n \in Rows : positions[n].status = "CLOSED" => Final(n)
<1>1. Inv /\ [Next]_vars => Finality
  <2> SUFFICES ASSUME Inv, [Next]_vars, NEW n \in Rows, positions[n].status = "CLOSED"
               PROVE  Final(n)
    OBVIOUS
  <2>1. CASE UNCHANGED positions
    BY <2>1 DEF Rows
  <2>2. ASSUME NEW h \in Handlers, CommitFill(h)
        PROVE  Final(n)
    <3>1. loaded[h] = NoRow \/ n # loaded[h].row
      BY DEF Inv, LocksInv, OpenRows
    <3> QED
      BY <2>2, <3>1, FillRows DEF Inv
  <2>3. ASSUME NEW r \in Reconcilers, CommitClosings(r)
        PROVE  Final(n)
    BY <2>3, ClosingRows DEF Inv
  <2> QED
    BY <2>1, <2>2, <2>3 DEF Next, ReadSettings, CountOpen, Approve, SelectOpen, LockRows, Rollback,
       ReadPositions, UpdateSettings, Midnight, vars
<1> QED
  BY <1>1, InvHolds, PTL DEF Spec, ClosedKeepsItsFills
-----------------------------------------------------------------------------
\* A sequence that is longer by one element is what Append makes.
LEMMA LongerByOne ==
  ASSUME NEW S, NEW s \in Seq(S), NEW t \in Seq(S), NEW e \in S,
         Len(t) = Len(s) + 1, t[Len(t)] = e, \A i \in 1 .. Len(s) : t[i] = s[i]
  PROVE  t = Append(s, e)
<1>1. Append(s, e) \in Seq(S) /\ Len(Append(s, e)) = Len(t)
  OBVIOUS
<1>2. \A i \in 1 .. Len(t) : t[i] = Append(s, e)[i]
  OBVIOUS
<1> QED
  BY <1>1, <1>2

\* The book is a sequence with an entry for each row.
Entries == [n \in Rows |-> Entry(positions[n])]
EntryType == {Entry(p) : p \in Position}

LEMMA EntriesType ==
  ASSUME NEW p \in Seq(Position)
  PROVE  LET entries == [n \in DOMAIN p |-> Entry(p[n])]
         IN  entries \in Seq(EntryType) /\ Len(entries) = Len(p)
<1> DEFINE entries == [n \in DOMAIN p |-> Entry(p[n])]
<1>1. DOMAIN p = 1 .. Len(p) /\ Len(p) \in Nat /\ \A n \in DOMAIN p : Entry(p[n]) \in EntryType
  BY DEF EntryType
<1>2. entries \in [1 .. Len(p) -> EntryType]
  BY <1>1
<1> QED
  BY <1>1, <1>2

\* Every step is a step of the book, or leaves it as it is: a commit adds its
\* order to the position as it is then, a closing ends rows and writes nothing
\* else of what it had loaded.
LEMMA BookStep ==
  ASSUME Inv, TypeOK', [Next]_vars
  PROVE  [Book!Next]_Entries
<1>1. TypeOK /\ LocksInv /\ OwnRowsInv /\ OrdersInv
  BY DEF Inv
<1>2. /\ DOMAIN Entries = Rows /\ \A n \in Rows : Entries[n] = Entry(positions[n])
      /\ DOMAIN Entries' = Rows' /\ \A n \in Rows' : Entries'[n] = Entry(positions'[n])
  BY DEF Entries
<1>3. ASSUME NEW h \in Handlers, CommitFill(h)
      PROVE  Book!Next
  <2> DEFINE s == signal[h]
  <2>1. s \in Signals /\ stage[h] = "filling" /\ Book!Protected(s)
    BY <1>1, <1>3 DEF CommitFill, TypeOK, OrdersInv, Book!Protected
  <2>2. CASE loaded[h] = NoRow
    <3>1. positions' = Append(positions, NewPosition(s))
      BY <1>3, <2>2 DEF CommitFill
    <3>2. /\ Len(positions') = Len(positions) + 1 /\ positions'[Len(positions')] = NewPosition(s)
          /\ \A n \in Rows : positions'[n] = positions[n]
      BY <1>1, <3>1 DEF TypeOK, Rows
    <3>3. Entry(NewPosition(s)) = Book!Line(s)
      BY DEF Entry, NewPosition, Cost, Book!Line
    <3>4. Rows = 1 .. Len(positions) /\ Rows' = 1 .. Len(positions') /\ Len(positions) \in Nat
      BY <1>1, <3>2 DEF TypeOK, Rows
    <3>5. /\ Entries'[Len(positions')] = Book!Line(s) /\ \A n \in Rows : Entries'[n] = Entries[n]
      BY <1>2, <3>2, <3>3, <3>4
    <3>6. /\ Entries \in Seq(EntryType) /\ Len(Entries) = Len(positions)
          /\ Entries' \in Seq(EntryType) /\ Len(Entries') = Len(positions')
      BY <1>1, EntriesType DEF TypeOK, Entries, Rows
    <3>7. Book!Line(s) \in EntryType
      BY <3>2, <3>4, <3>5, <3>6
    <3>8. Entries' = Append(Entries, Book!Line(s))
      BY <3>2, <3>4, <3>5, <3>6, <3>7, LongerByOne
    <3>9. Book!Open(s)
      BY <2>1, <3>8 DEF Book!Open, Entries
    <3> QED
      BY <2>1, <3>9 DEF Book!Next
  <2>3. CASE loaded[h] # NoRow
    <3> DEFINE k == loaded[h].row
    <3>1. /\ k \in OpenRows /\ k \in Rows /\ positions[k] \in Position /\ positions[k].status = "OPEN"
          /\ positions[k].symbol = s.symbol /\ positions[k].side = s.side
          /\ loaded[h].quantity = positions[k].quantity /\ loaded[h].cost = positions[k].cost
          /\ positions[k].quantity + s.quantity # 0
      BY <1>1, <2>1, <2>3 DEF LocksInv, OwnRowsInv, OrdersInv, OpenRows, TypeOK, Rows
    <3>2. positions' = [positions EXCEPT ![k] = Increased(h)]
      BY <1>3, <2>3 DEF CommitFill
    <3>3. /\ Rows' = Rows /\ positions'[k] = Increased(h)
          /\ \A n \in Rows \ {k} : positions'[n] = positions[n]
      BY <1>1, <3>1, <3>2 DEF TypeOK, Rows
    <3>4. Entry(Increased(h)) = Book!Grown(Entry(positions[k]), s)
      <4>1. /\ Increased(h).symbol = positions[k].symbol /\ Increased(h).side = positions[k].side
            /\ Increased(h).quantity = positions[k].quantity + s.quantity
            /\ Increased(h).cost = positions[k].cost + s.price * s.quantity
            /\ Increased(h).stopLoss = s.stopLoss /\ Increased(h).takeProfit = s.takeProfit
            /\ Increased(h).status = positions[k].status
        BY <3>1 DEF Increased, Position, Cost
      <4> HIDE DEF k, s
      <4> QED
        BY <4>1 DEF Entry, Book!Grown
    <3>5. Entries' = [Entries EXCEPT ![k] = Book!Grown(Entries[k], s)]
      <4>1. \A n \in Rows : Entries'[n] = IF n = k THEN Book!Grown(Entries[k], s) ELSE Entries[n]
        BY <1>2, <3>1, <3>3, <3>4
      <4> QED
        BY <1>2, <3>3, <4>1 DEF Entries
    <3>6. /\ Entries[k].status = "OPEN" /\ Entries[k].symbol = s.symbol /\ Entries[k].side = s.side
          /\ Entries[k].quantity + s.quantity # 0
      <4>1. Entries[k] = Entry(positions[k])
        BY <1>2, <3>1
      <4> QED
        BY <3>1, <4>1 DEF Entry
    <3>7. Book!Add(s, k)
      BY <2>1, <3>5, <3>6 DEF Book!Add, Entries
    <3> QED
      BY <1>2, <2>1, <3>1, <3>7 DEF Book!Next, Entries
  <2> QED
    BY <2>2, <2>3
<1>4. ASSUME NEW r \in Reconcilers, CommitClosings(r)
      PROVE  Book!Next
  <2> DEFINE ended == {n \in Rows : positions'[n].status # positions[n].status}
  <2>1. /\ Rows' = Rows
        /\ \A n \in Rows : /\ positions'[n].status \in {positions[n].status, "CLOSED"}
                           /\ positions'[n].symbol = positions[n].symbol
                           /\ positions'[n].side = positions[n].side
                           /\ positions'[n].stopLoss = positions[n].stopLoss
                           /\ positions'[n].takeProfit = positions[n].takeProfit
                           /\ positions'[n].quantity = positions[n].quantity
                           /\ positions'[n].cost = positions[n].cost
    BY <1>1, <1>4, ClosingRows
  <2>2. ASSUME NEW n \in Rows
        PROVE  Entry(positions'[n]) = IF n \in ended THEN [Entry(positions[n]) EXCEPT !.status = "CLOSED"]
                                                     ELSE Entry(positions[n])
    <3>1. CASE n \in ended
      <4>1. positions'[n].status = "CLOSED"
        BY <2>1, <3>1
      <4> QED
        BY <2>1, <3>1, <4>1 DEF Entry
    <3>2. CASE n \notin ended
      BY <2>1, <3>2 DEF Entry
    <3> QED
      BY <3>1, <3>2
  <2> HIDE DEF ended
  <2>3. Entries' = [n \in Rows |-> IF n \in ended THEN [Entries[n] EXCEPT !.status = "CLOSED"] ELSE Entries[n]]
    <3>1. \A n \in Rows : Entries'[n] = IF n \in ended THEN [Entries[n] EXCEPT !.status = "CLOSED"]
                                                       ELSE Entries[n]
      BY <1>2, <2>1, <2>2
    <3> QED
      BY <1>2, <2>1, <3>1 DEF Entries
  <2>4. ended \in SUBSET Rows
    BY DEF ended
  <2>5. Book!Close(ended)
    BY <1>2, <2>3 DEF Book!Close, Entries
  <2> QED
    BY <1>2, <2>4, <2>5 DEF Book!Next, Entries
<1>5. CASE UNCHANGED positions
  BY <1>5 DEF Entries, Rows
<1> QED
  BY <1>3, <1>4, <1>5 DEF Next, ReadSettings, CountOpen, Approve, SelectOpen, LockRows, Rollback,
     ReadPositions, UpdateSettings, Midnight, vars

\* Trading implements PositionBook: however the transactions of the gate, of
\* execution and of the positions loops overlap, the table is what orders and
\* closings leave that come one after another.
THEOREM ImplementsBookHolds == Spec => ImplementsBook
<1>1. Init => Book!Init
  BY DEF Init, Rows, Book!Init
<1>2. Inv /\ TypeOK' /\ [Next]_vars => [Book!Next]_Entries
  BY BookStep
<1> QED
  BY <1>1, <1>2, InvHolds, TypeCorrect, PTL DEF Spec, ImplementsBook, Book!Spec, Entries
=============================================================================
