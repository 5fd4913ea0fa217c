--------------------------- MODULE TrainingProofs ---------------------------
(***************************************************************************)
(* Proofs about Training: the types, and that no look-ahead reaches a      *)
(* fold, its score, the backtest or a decision, whatever the history, the  *)
(* widths, the folds and the forecasts.                                    *)
(***************************************************************************)
EXTENDS Training, FiniteInduction

(***************************************************************************)
(* The features.  Every series looks at bars up to its row, and those of a *)
(* feature are numbers within the warm-up.                                 *)
(***************************************************************************)

Past == {i \in Int : i <= 0}
Series(n) == [ahead : Past, first : 0 .. n]

LEMMA MaxIn ==
  ASSUME NEW S, S # {}, NEW a \in Int, NEW b \in Int, S \subseteq a .. b
  PROVE  Max(S) \in a .. b /\ \A x \in S : x <= Max(S)
<1>1. S \subseteq Int /\ \A x \in S : x <= b
  OBVIOUS
<1> QED
  BY <1>1, MaxBelow

LEMMA OfSeries ==
  ASSUME NEW n \in Nat, NEW S \in SUBSET Series(n), S # {}
  PROVE  Of(S) \in Series(n)
<1> DEFINE A == {s.ahead : s \in S}
           F == {s.first : s \in S}
<1>1. \A s \in S : s.ahead \in Past /\ s.first \in 0 .. n
  BY DEF Series
<1>2. 0 \in Int /\ A # {} /\ A \subseteq Int /\ \A x \in A : x <= 0
  BY <1>1 DEF Past
<1>3. 0 \in Int /\ n \in Int /\ F # {} /\ F \subseteq 0 .. n
  BY <1>1
<1> HIDE DEF A, F
<1>4. Max(A) \in A
  BY <1>2, MaxBelow
<1>5. Max(F) \in 0 .. n
  BY <1>3, MaxIn
<1>6. Max(A) \in Past
  BY <1>2, <1>4 DEF Past
<1> QED
  BY <1>5, <1>6 DEF Of, Series, A, F

LEMMA BarSeries == \A n \in Nat : Bar \in Series(n)
BY DEF Bar, Series, Past

LEMMA ShiftSeries ==
  ASSUME NEW n \in Nat, NEW s \in Series(n), NEW periods \in Nat
  PROVE  Shift(s, periods) \in Series(n + periods)
<1>1. s.ahead \in Int /\ s.ahead <= 0 /\ s.first \in 0 .. n
  BY DEF Series, Past
<1>2. s.ahead - periods \in Past /\ s.first + periods \in 0 .. n + periods
  BY <1>1 DEF Past
<1> QED
  BY <1>2 DEF Shift, Series

LEMMA RollingSeries ==
  ASSUME NEW n \in Nat, NEW s \in Series(n), NEW window \in 1 .. n + 1
  PROVE  Rolling(s, window) \in Series(n)
<1>1. s.first \in 0 .. n /\ window - 1 \in 0 .. n
  BY DEF Series
<1> DEFINE M == {window - 1, s.first}
<1>2. 0 \in Int /\ n \in Int /\ M # {} /\ M \subseteq 0 .. n
  BY <1>1
<1> HIDE DEF M
<1>3. Max(M) \in 0 .. n
  BY <1>2, MaxIn
<1> QED
  BY <1>3 DEF Rolling, Series, M

LEMMA RollingAllSeries ==
  ASSUME NEW n \in Nat, NEW s \in Series(n), NEW window \in Nat \ {0}
  PROVE  RollingAll(s, window) \in Series(n + window - 1)
<1>1. s.first \in 0 .. n
  BY DEF Series
<1>2. s.first + window - 1 \in 0 .. n + window - 1
  BY <1>1
<1> QED
  BY <1>2 DEF RollingAll, Series

\* The running averages are over series that are numbers from the first bar on.
LEMMA EmaSeries ==
  ASSUME NEW n \in Nat, NEW s \in Series(0)
  PROVE  Ema(s) \in Series(0)
BY DEF Ema, Series
LEMMA LaterSeries ==
  ASSUME NEW m \in Nat, NEW n \in Nat, m <= n
  PROVE  Series(m) \subseteq Series(n)
<1>1. 0 .. m \subseteq 0 .. n
  OBVIOUS
<1> QED
  BY <1>1 DEF Series

\* The series of a feature are numbers from the end of the warm-up on.
InTime == Series(WARMUP_BARS)

LEMMA OfTwo == \A s, t \in InTime : Of({s, t}) \in InTime
<1> SUFFICES ASSUME NEW s \in InTime, NEW t \in InTime PROVE Of({s, t}) \in InTime
  OBVIOUS
<1>1. {s, t} \in SUBSET InTime /\ {s, t} # {} /\ WARMUP_BARS \in Nat
  BY DEF WARMUP_BARS
<1> QED
  BY <1>1, OfSeries DEF InTime

LEMMA OfThree == \A s, t, u \in InTime : Of({s, t, u}) \in InTime
<1> SUFFICES ASSUME NEW s \in InTime, NEW t \in InTime, NEW u \in InTime
             PROVE  Of({s, t, u}) \in InTime
  OBVIOUS
<1>1. {s, t, u} \in SUBSET InTime /\ {s, t, u} # {} /\ WARMUP_BARS \in Nat
  BY DEF WARMUP_BARS
<1> QED
  BY <1>1, OfSeries DEF InTime

LEMMA FirstBarSeries ==
  /\ Bar \in Series(0) /\ Ema(Bar) \in Series(0) /\ Ema(Ema(Bar)) \in Series(0)
  /\ WilderRsi(Bar) \in Series(0) /\ TrueRange(Bar) \in Series(0)
  /\ Ema(TrueRange(Bar)) \in Series(0)
<1>1. Bar \in Series(0) /\ Bar.first = 0
  BY BarSeries DEF Bar
<1>2. Ema(Bar) \in Series(0) /\ Ema(Ema(Bar)) \in Series(0)
  BY <1>1, EmaSeries
<1> DEFINE S == {Bar, Shift(Bar, 1)}
<1>3. S \in SUBSET Series(1) /\ S # {}
  <2>1. Bar \in Series(1) /\ Shift(Bar, 1) \in Series(0 + 1)
    BY <1>1, BarSeries, ShiftSeries
  <2> QED
    BY <2>1
<1>4. Of(S) \in Series(1)
  BY <1>3, OfSeries
<1> HIDE DEF S
<1>5. [Of(S) EXCEPT !.first = 0] \in Series(0)
  BY <1>4 DEF Series
<1>6. WilderRsi(Bar) \in Series(0) /\ TrueRange(Bar) \in Series(0)
  BY <1>1, <1>5 DEF WilderRsi, TrueRange, S
<1> QED
  BY <1>1, <1>2, <1>6, EmaSeries

LEMMA WarmedUp ==
  /\ Series(0) \subseteq InTime
  /\ \A lag \in Lags : Returns(lag) \in InTime
  /\ Ret \in InTime
  /\ \A s \in InTime : \A window \in 1 .. WARMUP_BARS : Rolling(s, window) \in InTime
  /\ \A s \in Series(1) : \A window \in 1 .. WARMUP_BARS : RollingAll(s, window) \in InTime
<1>1. \A n \in 0 .. WARMUP_BARS : Series(n) \subseteq InTime
  BY LaterSeries DEF InTime, WARMUP_BARS
<1>2. ASSUME NEW lag \in 1 .. WARMUP_BARS PROVE Returns(lag) \in InTime
  <2>1. Shift(Bar, lag) \in Series(0 + lag)
    BY FirstBarSeries, ShiftSeries
  <2>2. Bar \in InTime /\ Shift(Bar, lag) \in InTime
    BY <1>1, <2>1, FirstBarSeries DEF WARMUP_BARS
  <2> QED
    BY <2>2, OfTwo DEF Returns
<1>3. Lags \subseteq 1 .. WARMUP_BARS /\ 1 \in 1 .. WARMUP_BARS
  BY DEF Lags, WARMUP_BARS
<1>4. ASSUME NEW s \in InTime, NEW window \in 1 .. WARMUP_BARS PROVE Rolling(s, window) \in InTime
  <2>1. WARMUP_BARS \in Nat /\ window \in 1 .. WARMUP_BARS + 1
    BY DEF WARMUP_BARS
  <2> QED
    BY <2>1, RollingSeries DEF InTime
<1>5. ASSUME NEW s \in Series(1), NEW window \in 1 .. WARMUP_BARS PROVE RollingAll(s, window) \in InTime
  <2>1. window \in Nat \ {0} /\ 1 + window - 1 \in 0 .. WARMUP_BARS
    BY DEF WARMUP_BARS
  <2>2. RollingAll(s, window) \in Series(1 + window - 1)
    BY <2>1, RollingAllSeries
  <2> QED
    BY <1>1, <2>1, <2>2
<1> QED
  BY <1>1, <1>2, <1>3, <1>4, <1>5 DEF Ret, WARMUP_BARS

LEMMA FeaturesInTime == FeatureSeries \subseteq InTime /\ FeatureSeries # {}
<1>1. {1, 5, 10, 20, 21, SlowWindow} \subseteq 1 .. WARMUP_BARS /\ 50 \in 1 .. WARMUP_BARS
  BY DEF SlowWindow, WARMUP_BARS
<1>2. Bar \in InTime /\ Ret \in InTime /\ Returns(5) \in InTime
  BY FirstBarSeries, WarmedUp DEF Lags
<1>3. \A window \in 1 .. WARMUP_BARS :
         /\ Volatility(window) \in InTime /\ Rolling(Bar, window) \in InTime
         /\ AgainstWindow(window) \in InTime
  BY <1>2, WarmedUp, OfTwo DEF Volatility, AgainstWindow
<1>4. Ret \in Series(1)
  <2>1. Bar \in Series(1) /\ Shift(Bar, 1) \in Series(0 + 1)
    BY BarSeries, ShiftSeries
  <2>2. {Bar, Shift(Bar, 1)} \in SUBSET Series(1) /\ {Bar, Shift(Bar, 1)} # {}
    BY <2>1
  <2> QED
    BY <2>2, OfSeries DEF Ret, Returns
<1>5. [Ret EXCEPT !.first = 0] \in InTime
  BY <1>2 DEF InTime, Series, WARMUP_BARS
<1>6. {Returns(lag) : lag \in Lags} \subseteq InTime
  BY WarmedUp
<1>7. {Volatility(10), Volatility(20), Volatility(SlowWindow),
       Of({Volatility(10), Volatility(SlowWindow)}), Of({Ret, Volatility(20)}),
       Of({Returns(5), Volatility(20)})} \subseteq InTime
  <2>1. Volatility(10) \in InTime /\ Volatility(20) \in InTime /\ Volatility(SlowWindow) \in InTime
    BY <1>1, <1>3
  <2> QED
    BY <1>2, <2>1, OfTwo
<1>8. {Of({Bar, Ema(Bar)}), Of({Ema(Bar)}), WilderRsi(Bar),
       Of({Bar, Ema(Bar), Ema(Ema(Bar))}), Of({Bar, Ema(TrueRange(Bar))})} \subseteq InTime
  <2>1. {Bar, Ema(Bar), WilderRsi(Bar), Ema(Ema(Bar)), Ema(TrueRange(Bar))} \subseteq InTime
    BY FirstBarSeries, WarmedUp
  <2>2. Of({Ema(Bar)}) \in InTime
    <3>1. {Ema(Bar)} = {Ema(Bar), Ema(Bar)}
      OBVIOUS
    <3> QED
      BY <2>1, <3>1, OfTwo
  <2> QED
    BY <2>1, <2>2, OfTwo, OfThree
<1>9. {AgainstWindow(20), Rolling(Bar, 20), AgainstWindow(50), Bar, Of({Bar, Shift(Bar, 1)}),
       Of({Rolling(Bar, 5), Rolling(Bar, 20)})} \subseteq InTime
  <2>1. Of({Bar, Shift(Bar, 1)}) \in InTime
    BY <1>2 DEF Ret, Returns
  <2>2. 5 \in 1 .. WARMUP_BARS /\ 20 \in 1 .. WARMUP_BARS /\ 50 \in 1 .. WARMUP_BARS
    BY <1>1
  <2>3. /\ AgainstWindow(20) \in InTime /\ AgainstWindow(50) \in InTime
        /\ Rolling(Bar, 5) \in InTime /\ Rolling(Bar, 20) \in InTime
    BY <1>3, <2>2
  <2>4. Of({Rolling(Bar, 5), Rolling(Bar, 20)}) \in InTime
    BY <2>3, OfTwo
  <2> QED
    BY <1>2, <2>1, <2>3, <2>4
<1>10. {RollingAll(Ret, 20), RollingAll(Ret, 21), Of({Rolling(Returns(5), 20), Volatility(20)}),
        Rolling([Ret EXCEPT !.first = 0], 20)} \subseteq InTime
  <2>1. 5 \in Lags /\ 20 \in 1 .. WARMUP_BARS /\ 21 \in 1 .. WARMUP_BARS
    BY <1>1 DEF Lags
  <2>2. RollingAll(Ret, 20) \in InTime /\ RollingAll(Ret, 21) \in InTime
    BY <1>4, <2>1, WarmedUp
  <2>3. Rolling(Returns(5), 20) \in InTime /\ Volatility(20) \in InTime
    BY <1>2, <1>3, <2>1, WarmedUp
  <2>4. Of({Rolling(Returns(5), 20), Volatility(20)}) \in InTime
    BY <2>3, OfTwo
  <2>5. Rolling([Ret EXCEPT !.first = 0], 20) \in InTime
    BY <1>5, <2>1, WarmedUp
  <2> QED
    BY <2>2, <2>4, <2>5
<1> QED
  BY <1>6, <1>7, <1>8, <1>9, <1>10 DEF FeatureSeries

LEMMA CompleteInTime ==
  /\ FirstComplete \in 0 .. WARMUP_BARS
  /\ \A row \in Int : row >= WARMUP_BARS => Complete(row)
<1> DEFINE F == {s.first : s \in FeatureSeries}
<1>1. 0 \in Int /\ WARMUP_BARS \in Int /\ F # {} /\ F \subseteq 0 .. WARMUP_BARS
  BY FeaturesInTime DEF InTime, Series, WARMUP_BARS
<1> HIDE DEF F
<1>2. Max(F) \in 0 .. WARMUP_BARS
  BY <1>1, MaxIn
<1>3. FirstComplete \in 0 .. WARMUP_BARS
  BY <1>2 DEF FirstComplete, F
<1> QED
  BY <1>3 DEF Complete, WARMUP_BARS

LEMMA NothingAhead == FarthestAhead \in Int /\ FarthestAhead <= 0
<1> DEFINE A == {s.ahead : s \in FeatureSeries}
<1>1. 0 \in Int /\ A # {} /\ A \subseteq Int /\ \A x \in A : x <= 0
  BY FeaturesInTime DEF InTime, Series, Past
<1> HIDE DEF A
<1>2. Max(A) \in A
  BY <1>1, MaxBelow
<1> QED
  BY <1>1, <1>2 DEF FarthestAhead, A
(***************************************************************************)
(* The rows of the dataset, and the scored ones, in ascending order.       *)
(***************************************************************************)

\* The place of each element is the number of smaller ones, and every place is
\* taken.
LEMMA AscendingOrder ==
  ASSUME NEW S \in SUBSET Int, IsFiniteSet(S)
  PROVE  LET n == Cardinality(S)
             f == Ascending(S)
         IN  /\ n \in Nat /\ DOMAIN f = 0 .. n - 1 /\ f \in [0 .. n - 1 -> S]
             /\ \A i, j \in 0 .. n - 1 : i < j => f[i] < f[j]
             /\ \A x \in S : \E i \in 0 .. n - 1 : f[i] = x
<1> DEFINE n == Cardinality(S)
           below(x) == {y \in S : y < x}
           rank == [x \in S |-> Cardinality(below(x))]
           f == Ascending(S)
<1>1. n \in Nat
  BY FS_CardinalityType
<1>2. ASSUME NEW x \in S
      PROVE  IsFiniteSet(below(x)) /\ Cardinality(below(x)) \in 0 .. n - 1
  <2>1. IsFiniteSet(below(x)) /\ Cardinality(below(x)) \in Nat /\ Cardinality(below(x)) <= n
    BY FS_Subset, FS_CardinalityType
  <2>2. below(x) # S
    OBVIOUS
  <2>3. Cardinality(below(x)) # n
    BY <2>2, FS_Subset
  <2> QED
    BY <1>1, <2>1, <2>3
<1>3. ASSUME NEW x \in S, NEW y \in S, x < y PROVE Cardinality(below(x)) < Cardinality(below(y))
  <2>1. below(x) \in SUBSET below(y) /\ x \in below(y) /\ x \notin below(x)
    <3>1. x \in Int /\ y \in Int /\ \A z \in S : z \in Int
      OBVIOUS
    <3>2. ~(x < x) /\ \A z \in Int : z < x => z < y
      BY <1>3, <3>1
    <3> QED
      BY <1>3, <3>1, <3>2
  <2>2. Cardinality(below(x)) <= Cardinality(below(y)) /\ Cardinality(below(x)) # Cardinality(below(y))
    BY <1>2, <2>1, FS_Subset
  <2> QED
    BY <1>2, <2>2
<1> HIDE DEF below
<1>4. rank \in [S -> 0 .. n - 1]
  BY <1>2
<1>5. \A x, y \in S : x # y => rank[x] # rank[y]
  <2> SUFFICES ASSUME NEW x \in S, NEW y \in S, x < y PROVE rank[x] # rank[y]
    OBVIOUS
  <2> QED
    BY <1>2, <1>3
<1>6. rank \in Injection(S, 0 .. n - 1)
  BY <1>4, <1>5 DEF Injection, IsInjective
<1>7. IsFiniteSet(0 .. n - 1) /\ Cardinality(0 .. n - 1) = n
  <2>1. 0 \in Int /\ n - 1 \in Int
    BY <1>1
  <2> QED
    BY <1>1, <2>1, FS_Interval
<1>8. rank \in Surjection(S, 0 .. n - 1)
  BY <1>6, <1>7, FS_Injection
<1>9. \A i \in 0 .. n - 1 : \E x \in S : Cardinality(below(x)) = i
  BY <1>8 DEF Surjection
<1>10. f = [i \in 0 .. n - 1 |-> CHOOSE x \in S : Cardinality(below(x)) = i]
  BY DEF Ascending, below
<1> HIDE DEF f, n
<1>11. \A i \in 0 .. n - 1 : f[i] \in S /\ Cardinality(below(f[i])) = i
  BY <1>9, <1>10
<1>12. DOMAIN f = 0 .. n - 1 /\ f \in [0 .. n - 1 -> S]
  BY <1>10, <1>11
<1>13. ASSUME NEW i \in 0 .. n - 1, NEW j \in 0 .. n - 1, i < j PROVE f[i] < f[j]
  <2>1. /\ f[i] \in S /\ Cardinality(below(f[i])) = i
        /\ f[j] \in S /\ Cardinality(below(f[j])) = j
    BY <1>11
  <2>2. f[i] # f[j]
    BY <1>13, <2>1
  <2>3. ~(f[j] < f[i])
    <3>1. ~(j < i)
      BY <1>13
    <3> QED
      BY <1>3, <2>1, <3>1
  <2>4. f[i] \in Int /\ f[j] \in Int
    BY <2>1
  <2> QED
    BY <2>2, <2>3, <2>4
<1>14. ASSUME NEW x \in S PROVE \E i \in 0 .. n - 1 : f[i] = x
  <2> DEFINE i == Cardinality(below(x))
  <2>1. i \in 0 .. n - 1
    BY <1>2 DEF n
  <2>2. f[i] \in S /\ Cardinality(below(f[i])) = i
    BY <1>11, <2>1
  <2>3. f[i] = x
    BY <1>5, <2>2
  <2> QED
    BY <2>1, <2>3
<1>15. /\ n \in Nat /\ DOMAIN f = 0 .. n - 1 /\ f \in [0 .. n - 1 -> S]
       /\ \A i, j \in 0 .. n - 1 : i < j => f[i] < f[j]
       /\ \A x \in S : \E i \in 0 .. n - 1 : f[i] = x
  BY <1>1, <1>12, <1>13, <1>14
<1> QED
  BY <1>15 DEF n, f
LEMMA ExitWithinHorizon ==
  ASSUME NEW index \in Int
  PROVE  ExitIndex(index) \in index + 1 .. index + Horizon
<1>1. Horizon \in Nat \ {0}
  BY WidthsAssumption
<1>2. CASE Touches(index) = {}
  BY <1>1, <1>2 DEF ExitIndex
<1>3. CASE Touches(index) # {}
  <2> DEFINE T == Touches(index)
  <2>1. T # {} /\ T \subseteq index + 1 .. index + Horizon
    BY <1>3 DEF Touches
  <2>2. T \subseteq Int /\ index + 1 \in Int /\ \A x \in T : index + 1 <= x
    BY <1>1, <2>1
  <2> HIDE DEF T
  <2>3. Min(T) \in T
    BY <2>1, <2>2, MinAbove
  <2> QED
    BY <1>3, <2>1, <2>3 DEF ExitIndex, T
<1> QED
  BY <1>2, <1>3

\* RowsInv of a dataset that need not be the current one.
WellDated(d) ==
  LET rows == DOMAIN d.bar
  IN  /\ Cardinality(rows) \in Nat /\ rows = 0 .. Cardinality(rows) - 1
      /\ \A row \in rows :
           /\ d.bar[row] \in Int /\ d.exit[row] \in Int
           /\ d.bar[row] < d.exit[row] /\ d.exit[row] <= d.bar[row] + Horizon
           /\ d.exit[row] < NBars
      /\ \A r, s \in rows : r < s => d.bar[r] < d.bar[s]

LEMMA RowsOfDataset ==
  ASSUME bars \in Histories
  PROVE  WellDated(Dataset)
<1> DEFINE n == Cardinality(ValidBars)
           valid == Ascending(ValidBars)
<1>1. NBars \in Nat
  BY BarsAssumption DEF NBars, WARMUP_BARS
<1>2. ValidBars \in SUBSET Int /\ IsFiniteSet(ValidBars)
  <2>1. ValidBars \in SUBSET (WARMUP_BARS .. NBars - 1)
    BY DEF ValidBars
  <2>2. WARMUP_BARS \in Int /\ NBars - 1 \in Int
    BY <1>1 DEF WARMUP_BARS
  <2>3. IsFiniteSet(WARMUP_BARS .. NBars - 1)
    BY <2>2, FS_Interval
  <2>4. IsFiniteSet(ValidBars)
    BY <2>1, <2>3, FS_Subset
  <2>5. ValidBars \in SUBSET Int
    BY <2>1
  <2> QED
    BY <2>4, <2>5
<1>3. /\ n \in Nat /\ DOMAIN valid = 0 .. n - 1 /\ valid \in [0 .. n - 1 -> ValidBars]
      /\ \A i, j \in 0 .. n - 1 : i < j => valid[i] < valid[j]
  BY <1>2, AscendingOrder
<1>4. IsFiniteSet(0 .. n - 1) /\ Cardinality(0 .. n - 1) = n
  <2>1. 0 \in Int /\ n - 1 \in Int
    BY <1>3
  <2> QED
    BY <1>3, <2>1, FS_Interval
<1> HIDE DEF n, valid
<1> DEFINE d == Dataset
<1>5. d.bar = valid /\ d.exit = [row \in 0 .. n - 1 |-> ExitIndex(valid[row])]
  BY <1>3 DEF Dataset, valid
<1> HIDE DEF d
<1>6. DOMAIN d.bar = 0 .. n - 1 /\ Cardinality(DOMAIN d.bar) = n
  BY <1>3, <1>4, <1>5
<1>7. ASSUME NEW row \in 0 .. n - 1
      PROVE  /\ valid[row] \in Int /\ ExitIndex(valid[row]) \in Int
             /\ valid[row] < ExitIndex(valid[row]) /\ ExitIndex(valid[row]) <= valid[row] + Horizon
             /\ ExitIndex(valid[row]) < NBars
  <2>1. valid[row] \in Int /\ valid[row] + Horizon < NBars
    BY <1>2, <1>3 DEF ValidBars, Labelled
  <2>2. ExitIndex(valid[row]) \in valid[row] + 1 .. valid[row] + Horizon
    BY <2>1, ExitWithinHorizon
  <2>3. Horizon \in Nat
    BY WidthsAssumption
  <2> QED
    BY <1>1, <2>1, <2>2, <2>3
<1>8. WellDated(d)
  BY <1>3, <1>5, <1>6, <1>7 DEF WellDated
<1> QED
  BY <1>8 DEF d

\* Rows are at most as far apart as their bars.
LEMMA BarsApart ==
  ASSUME RowsInv, NEW r \in Rows, NEW s \in Rows, r <= s
  PROVE  data.bar[r] + (s - r) <= data.bar[s]
<1> DEFINE f == [i \in 0 .. NRows - 1 |-> data.bar[i]]
<1>1. NRows \in Nat /\ Rows = 0 .. NRows - 1
  BY DEF RowsInv
<1>2. f \in [0 .. NRows - 1 -> Int] /\ \A i, j \in 0 .. NRows - 1 : i < j => f[i] < f[j]
  BY DEF RowsInv
<1>3. f[r] = data.bar[r] /\ f[s] = data.bar[s]
  BY <1>1
<1> HIDE DEF f
<1>4. f[r] + (s - r) <= f[s]
  BY <1>1, <1>2, FarApart
<1> QED
  BY <1>3, <1>4

\* A row that is not purged has its label before the first bar of the fold.
LEMMA PurgeClears ==
  ASSUME RowsInv, NEW r \in Rows, NEW t \in Rows, NEW start \in Nat,
         ~Purged(r, start), start <= t
  PROVE  data.exit[r] <= data.bar[t]
<1> DEFINE A == {q \in Rows : data.bar[q] < data.exit[r]}
<1>1. NRows \in Nat /\ Rows = 0 .. NRows - 1 /\ t \in 0 .. NRows - 1
  BY DEF RowsInv
<1>2. data.exit[r] \in Int /\ data.bar[t] \in Int
  BY DEF RowsInv
<1>3. Cardinality(A) < start
  <2>1. IsFiniteSet(Rows) /\ A \in SUBSET Rows
    <3>1. 0 \in Int /\ NRows - 1 \in Int
      BY <1>1
    <3> QED
      BY <1>1, <3>1, FS_Interval
  <2>2. Cardinality(A) \in Nat
    BY <2>1, FS_Subset, FS_CardinalityType
  <2>3. ~(Cardinality(A) >= start)
    BY DEF Purged, ExitRow
  <2> QED
    BY <2>2, <2>3
<1> SUFFICES ASSUME data.bar[t] < data.exit[r] PROVE FALSE
  BY <1>2
<1>4. 0 .. t \in SUBSET A
  <2>1. ASSUME NEW q \in 0 .. t PROVE q \in Rows /\ data.bar[q] < data.exit[r]
    <3>1. q \in Rows /\ data.bar[q] \in Int /\ (q = t \/ data.bar[q] < data.bar[t])
      BY <1>1 DEF RowsInv
    <3> QED
      BY <1>2, <3>1
  <2> QED
    BY <2>1
<1>5. IsFiniteSet(A)
  <2>1. 0 \in Int /\ NRows - 1 \in Int
    BY <1>1
  <2>2. IsFiniteSet(Rows) /\ A \in SUBSET Rows
    BY <1>1, <2>1, FS_Interval
  <2> QED
    BY <2>2, FS_Subset
<1>6. Cardinality(0 .. t) = t + 1
  <2>1. 0 \in Int /\ t \in Int /\ ~(0 > t) /\ t - 0 + 1 = t + 1
    BY <1>1
  <2> QED
    BY <2>1, FS_Interval
<1>7. t + 1 <= Cardinality(A) /\ Cardinality(A) \in Nat
  <2> HIDE DEF A
  <2>1. Cardinality(0 .. t) <= Cardinality(A)
    BY <1>4, <1>5, FS_Subset
  <2>2. Cardinality(A) \in Nat
    BY <1>5, FS_CardinalityType
  <2> QED
    BY <1>6, <2>1, <2>2
<1> QED
  BY <1>1, <1>3, <1>7
(***************************************************************************)
(* The folds.                                                              *)
(***************************************************************************)

LEMMA Division ==
  ASSUME NEW a \in Nat, NEW n \in Nat \ {0}
  PROVE  /\ a \div n \in Nat /\ a % n \in 0 .. n - 1
         /\ a = (n * (a \div n)) + (a % n)
OBVIOUS

LEMMA FirstFoldStart == TestStart(0) = MinTrain
<1>1. 0 .. 0 - 1 = {}
  OBVIOUS
<1>2. MinTrain \in Nat
  BY FoldsAssumption
<1> QED
  BY <1>1, <1>2, SumOfNone DEF TestStart

\* The folds follow each other from the row MinTrain to the last.
LEMMA FoldsCoverRows ==
  ASSUME nFolds \in FoldCounts, NRows \in Nat, NRows >= MinTrain + nFolds
  PROVE  /\ \A k \in 0 .. nFolds - 1 :
              FoldSize(k) \in Nat /\ TestStart(k + 1) = TestStart(k) + FoldSize(k)
         /\ \A k \in 0 .. nFolds : TestStart(k) \in MinTrain .. NRows
         /\ TestStart(nFolds) = NRows
<1> DEFINE a == NRows - MinTrain
           q == a \div nFolds
           r == a % nFolds
           g == [i \in 0 .. nFolds - 1 |-> FoldSize(i)]
           start(k) == k * q + (IF k < r THEN k ELSE r)
<1>1. MinTrain \in Nat /\ nFolds \in Nat \ {0} /\ a \in Nat
  BY FoldsAssumption
<1>2. q \in Nat /\ r \in 0 .. nFolds - 1 /\ a = nFolds * q + r
  BY <1>1, Division
<1>3. \A k \in 0 .. nFolds - 1 : g[k] = q + (IF k < r THEN 1 ELSE 0) /\ FoldSize(k) = g[k] /\ g[k] \in Nat
  BY <1>2 DEF FoldSize
<1> HIDE DEF a, q, r, g
<1>4. ASSUME NEW k \in 0 .. nFolds - 1
      PROVE  SumFunctionOnSet(g, 0 .. (k + 1) - 1) = SumFunctionOnSet(g, 0 .. k - 1) + g[k]
  <2>1. 0 .. (k + 1) - 1 = (0 .. k - 1) \cup {k} /\ k \notin 0 .. k - 1
    BY <1>1
  <2>2. IsFiniteSet(0 .. k - 1)
    <3>1. 0 \in Int /\ k - 1 \in Int
      BY <1>1
    <3> QED
      BY <3>1, FS_Interval
  <2>3. \A y \in (0 .. k - 1) \cup {k} : g[y] \in Int
    BY <1>1, <1>3
  <2> QED
    BY <2>1, <2>2, <2>3, SumAdds
<1>5. \A k \in 0 .. nFolds : SumFunctionOnSet(g, 0 .. k - 1) = start(k) /\ start(k) \in Nat
  <2> DEFINE N == {k \in Nat : k <= nFolds => SumFunctionOnSet(g, 0 .. k - 1) = start(k)}
  <2>1. 0 \in N
    <3>1. 0 .. 0 - 1 = {} /\ start(0) = 0
      BY <1>2
    <3> QED
      BY <3>1, SumOfNone
  <2>2. ASSUME NEW k \in Nat, k \in N PROVE k + 1 \in N
    <3> SUFFICES ASSUME k + 1 <= nFolds PROVE SumFunctionOnSet(g, 0 .. (k + 1) - 1) = start(k + 1)
      OBVIOUS
    <3>1. k \in 0 .. nFolds - 1 /\ SumFunctionOnSet(g, 0 .. k - 1) = start(k)
      BY <1>1, <2>2
    <3>2. SumFunctionOnSet(g, 0 .. (k + 1) - 1) = start(k) + g[k]
      BY <1>4, <3>1
    <3>3. (k + 1) * q = k * q + q /\ k * q \in Nat
      BY <1>2
    <3> QED
      BY <1>2, <1>3, <3>1, <3>2, <3>3
  <2>3. ASSUME NEW k \in 0 .. nFolds PROVE start(k) \in Nat
    <3>1. k * q \in Nat
      BY <1>1, <1>2
    <3> QED
      BY <1>1, <1>2, <3>1
  <2> HIDE DEF N
  <2>4. Nat \subseteq N
    BY <2>1, <2>2, AllNumbers
  <2> QED
    BY <1>1, <2>3, <2>4 DEF N
<1>6. \A k \in 0 .. nFolds : TestStart(k) = MinTrain + start(k)
  BY <1>5 DEF TestStart, g
<1>7. ASSUME NEW k \in 0 .. nFolds PROVE start(k) <= start(nFolds)
  <2>1. \A b, c, e \in Nat : b <= c => b * e <= c * e
    OBVIOUS
  <2>2. k * q <= nFolds * q /\ k * q \in Nat /\ nFolds * q \in Nat
    BY <1>1, <1>2, <2>1
  <2> QED
    BY <1>1, <1>2, <2>2
<1>8. MinTrain + start(nFolds) = NRows
  BY <1>1, <1>2 DEF a
<1> HIDE DEF start
<1>9. ASSUME NEW k \in 0 .. nFolds - 1 PROVE FoldSize(k) \in Nat /\ TestStart(k + 1) = TestStart(k) + FoldSize(k)
  <2>1. k \in 0 .. nFolds /\ k + 1 \in 0 .. nFolds
    BY <1>1
  <2>2. start(k + 1) = start(k) + g[k] /\ start(k) \in Nat /\ g[k] \in Nat
    BY <1>3, <1>4, <1>5, <2>1
  <2> QED
    BY <1>1, <1>3, <1>6, <2>1, <2>2
<1>10. ASSUME NEW k \in 0 .. nFolds PROVE TestStart(k) \in MinTrain .. NRows
  <2>1. start(k) \in Nat /\ start(k) <= start(nFolds) /\ start(nFolds) \in Nat
    BY <1>1, <1>5, <1>7
  <2> QED
    BY <1>1, <1>6, <1>8, <2>1
<1>11. TestStart(nFolds) = NRows
  BY <1>1, <1>6, <1>8
<1> QED
  BY <1>9, <1>10, <1>11
LEMMA FoldRows ==
  ASSUME RowsInv, nFolds \in FoldCounts, NRows >= MinTrain + nFolds, NEW k \in 0 .. nFolds - 1
  PROVE  /\ TestRows(k) = TestStart(k) .. TestStart(k + 1) - 1
         /\ TestRows(k) \subseteq Rows /\ TrainRows(k) \subseteq Rows
<1>1. NRows \in Nat /\ Rows = 0 .. NRows - 1 /\ MinTrain \in Nat /\ nFolds \in Nat \ {0} /\ Horizon \in Nat
  BY FoldsAssumption, WidthsAssumption DEF RowsInv
<1>2. /\ TestStart(k + 1) = TestStart(k) + FoldSize(k) /\ FoldSize(k) \in Nat
      /\ TestStart(k) \in MinTrain .. NRows /\ TestStart(k + 1) \in MinTrain .. NRows
  <2>1. k \in 0 .. nFolds /\ k + 1 \in 0 .. nFolds
    BY <1>1
  <2> QED
    BY <1>1, <2>1, FoldsCoverRows
<1>3. TestRows(k) = TestStart(k) .. TestStart(k + 1) - 1 /\ TestRows(k) \subseteq Rows
  BY <1>1, <1>2 DEF TestRows
<1>4. TrainRows(k) \subseteq Rows
  BY <1>1, <1>2 DEF TrainRows, Embargo
<1> QED
  BY <1>3, <1>4

\* Purging keeps the labels of earlier rows away from the fold, the embargo those
\* of the fold away from later rows.
LEMMA FoldClear ==
  ASSUME RowsInv, nFolds \in FoldCounts, NRows >= MinTrain + nFolds, NEW k \in 0 .. nFolds - 1,
         NEW r \in TrainRows(k), NEW t \in TestRows(k)
  PROVE  LabelWindow(r) \cap LabelWindow(t) = {}
<1>1. /\ NRows \in Nat /\ Rows = 0 .. NRows - 1 /\ MinTrain \in Nat /\ Horizon \in Nat
      /\ nFolds \in Nat \ {0} /\ k \in 0 .. nFolds /\ k + 1 \in 0 .. nFolds
  BY FoldsAssumption, WidthsAssumption DEF RowsInv
<1>2. /\ TestStart(k) \in Nat /\ TestStart(k + 1) \in Nat /\ FoldSize(k) \in Nat
      /\ TestStart(k + 1) = TestStart(k) + FoldSize(k)
  BY <1>1, FoldsCoverRows
<1>3. r \in Rows /\ t \in Rows /\ t \in TestStart(k) .. TestStart(k + 1) - 1
  BY FoldRows
<1>4. /\ data.bar[r] \in Int /\ data.exit[r] \in Int /\ data.bar[t] \in Int /\ data.exit[t] \in Int
      /\ data.exit[t] <= data.bar[t] + Horizon
  BY <1>3 DEF RowsInv
<1>5. CASE ~Purged(r, TestStart(k))
  <2>1. data.exit[r] <= data.bar[t]
    BY <1>1, <1>2, <1>3, <1>5, PurgeClears
  <2> QED
    BY <1>4, <2>1 DEF LabelWindow
<1>6. CASE r \in TestStart(k) + FoldSize(k) - 1 + 1 + Embargo .. NRows - 1
  <2>1. t <= r /\ r - t >= Horizon /\ r \in Int /\ t \in Int
    BY <1>1, <1>2, <1>3, <1>6 DEF Embargo
  <2>2. data.bar[t] + (r - t) <= data.bar[r]
    BY <1>3, <2>1, BarsApart
  <2>3. data.exit[t] <= data.bar[r]
    BY <1>1, <1>4, <2>1, <2>2
  <2> QED
    BY <1>4, <2>3 DEF LabelWindow
<1> QED
  BY <1>5, <1>6 DEF TrainRows

(***************************************************************************)
(* The backtest.                                                           *)
(***************************************************************************)

Run == [free : Nat, taken : SUBSET Scored]

\* Unfolds the recursion of Simulate.
SimulateRun(threshold, run) ==
  run = [n \in 0 .. Cardinality(Scored) |->
           IF n = 0 THEN [free |-> 0, taken |-> {}] ELSE AfterSignal(run[n - 1], n - 1, threshold)]

LEMMA SimulateIsRun ==
  ASSUME NEW threshold
  PROVE  Simulate(threshold) = (CHOOSE run : SimulateRun(threshold, run))[Cardinality(Scored)].taken
BY DEF Simulate, SimulateRun

LEMMA AfterSignalType ==
  ASSUME Scored \in SUBSET Int, IsFiniteSet(Scored), NEW threshold,
         NEW index \in 0 .. Cardinality(Scored) - 1, NEW run \in Run
  PROVE  AfterSignal(run, index, threshold) \in Run
<1>1. Ascending(Scored)[index] \in Scored /\ index \in Nat
  BY AscendingOrder
<1>2. NextFree(index) \in Nat
  BY <1>1, WidthsAssumption DEF NextFree
<1> QED
  BY <1>1, <1>2 DEF AfterSignal, Run

LEMMA RunExists ==
  ASSUME Scored \in SUBSET Int, IsFiniteSet(Scored), NEW threshold
  PROVE  \E run \in [0 .. Cardinality(Scored) -> Run] : SimulateRun(threshold, run)
<1> DEFINE n == Cardinality(Scored)
           start == [free |-> 0, taken |-> {}]
           step == [i \in 0 .. n - 1 |-> [run \in Run |-> AfterSignal(run, i, threshold)]]
<1>1. n \in Nat
  BY FS_CardinalityType
<1>2. start \in Run
  BY DEF Run
<1>3. step \in StepFunctions(n, Run)
  BY AfterSignalType DEF StepFunctions
<1> HIDE DEF n, start, step
<1>4. PICK f : StepsThrough(n, Run, start, step, f)
  BY <1>1, <1>2, <1>3, StepByStep
<1>5. ASSUME NEW i \in 0 .. n - 1 PROVE f[i + 1] = AfterSignal(f[i], i, threshold)
  <2>1. i \in 0 .. n /\ f[i] \in Run
    BY <1>1, <1>4 DEF StepsThrough
  <2>2. step[i][f[i]] = AfterSignal(f[i], i, threshold)
    BY <2>1 DEF step
  <2> QED
    BY <1>4, <2>2 DEF StepsThrough
<1>6. ASSUME NEW m \in 0 .. n
      PROVE  f[m] = IF m = 0 THEN start ELSE AfterSignal(f[m - 1], m - 1, threshold)
  <2>1. CASE m = 0
    BY <1>4, <2>1 DEF StepsThrough
  <2>2. CASE m # 0
    <3>1. m - 1 \in 0 .. n - 1 /\ (m - 1) + 1 = m
      BY <1>1, <2>2
    <3>2. f[(m - 1) + 1] = AfterSignal(f[m - 1], m - 1, threshold)
      BY <1>5, <3>1
    <3> QED
      BY <2>2, <3>1, <3>2
  <2> QED
    BY <2>1, <2>2
<1>7. f = [m \in 0 .. n |-> IF m = 0 THEN start ELSE AfterSignal(f[m - 1], m - 1, threshold)]
  BY <1>4, <1>6 DEF StepsThrough
<1>8. SimulateRun(threshold, f)
  BY <1>7 DEF SimulateRun, n, start
<1> QED
  BY <1>4, <1>8 DEF n, StepsThrough
\* After the first n signals: the trades are apart, and the last of them is over
\* when the next signal may be taken.
RunInv(run, n) ==
  LET rows == Ascending(Scored)
  IN  /\ run \in Run /\ Spaced(run.taken)
      /\ \A r \in run.taken : \E i \in 0 .. n - 1 : rows[i] = r /\ i + Horizon <= run.free

LEMMA AfterSignalSpaced ==
  ASSUME Scored \in SUBSET Int, IsFiniteSet(Scored), NEW threshold,
         NEW n \in 0 .. Cardinality(Scored) - 1, NEW run, RunInv(run, n)
  PROVE  RunInv(AfterSignal(run, n, threshold), n + 1)
<1> DEFINE rows == Ascending(Scored)
           size == Cardinality(Scored)
           next == AfterSignal(run, n, threshold)
<1>1. /\ size \in Nat /\ rows \in [0 .. size - 1 -> Scored]
      /\ \A i, j \in 0 .. size - 1 : i < j => rows[i] < rows[j]
  BY AscendingOrder
<1>2. n \in 0 .. size - 1 /\ Horizon \in Nat \ {0} /\ n \in Nat
  BY <1>1, WidthsAssumption
<1>3. /\ run \in Run /\ Spaced(run.taken)
      /\ \A r \in run.taken : \E i \in 0 .. n - 1 : rows[i] = r /\ i + Horizon <= run.free
  BY DEF RunInv
<1>4. \/ next = run
      \/ n >= run.free /\ next = [free |-> n + Horizon, taken |-> run.taken \cup {rows[n]}]
  <2>1. run.free \in Nat
    BY <1>3 DEF Run
  <2> QED
    BY <1>2, <2>1 DEF AfterSignal, NextFree
<1>5. next \in Run
  BY <1>3, AfterSignalType
<1> HIDE DEF next, rows, size
<1>6. CASE next = run
  <2>1. \A i \in 0 .. n - 1 : i \in 0 .. (n + 1) - 1
    BY <1>2
  <2> QED
    BY <1>3, <1>6, <2>1 DEF RunInv, rows, next
<1>7. CASE n >= run.free /\ next = [free |-> n + Horizon, taken |-> run.taken \cup {rows[n]}]
  <2>1. run.free \in Nat /\ next.free = n + Horizon /\ next.taken = run.taken \cup {rows[n]}
    BY <1>3, <1>7 DEF Run
  <2>2. /\ size \in Nat /\ rows \in [0 .. size - 1 -> Int]
        /\ \A i, j \in 0 .. size - 1 : i < j => rows[i] < rows[j]
    BY <1>1
  <2>3. ASSUME NEW r \in run.taken PROVE r \in Int /\ r < rows[n] /\ r + Horizon <= rows[n]
    <3>1. PICK i \in 0 .. n - 1 : rows[i] = r /\ i + Horizon <= run.free
      BY <1>3
    <3>2. i \in 0 .. size - 1 /\ i < n /\ i <= n /\ n \in 0 .. size - 1
      BY <1>1, <1>2
    <3>3. rows[i] + (n - i) <= rows[n]
      BY <2>2, <3>2, FarApart
    <3>4. rows[i] \in Int /\ rows[n] \in Int /\ n - i >= Horizon
      BY <1>2, <1>7, <2>1, <2>2, <3>1, <3>2
    <3> QED
      BY <1>2, <3>1, <3>3, <3>4
  <2>4. Spaced(next.taken)
    <3> SUFFICES ASSUME NEW r \in next.taken, NEW s \in next.taken, r < s PROVE r + Horizon <= s
      BY DEF Spaced
    <3>1. rows[n] \in Int
      BY <1>2, <2>2
    <3>2. CASE r \in run.taken /\ s \in run.taken
      BY <1>3, <3>2 DEF Spaced
    <3>3. CASE r \in run.taken /\ s = rows[n]
      BY <2>3, <3>3
    <3>4. CASE r = rows[n]
      <4>1. s \in run.taken => s \in Int /\ s < rows[n]
        BY <2>3
      <4>2. s = rows[n] \/ s \in run.taken
        BY <2>1
      <4> QED
        BY <3>1, <3>4, <4>1, <4>2
    <3> QED
      BY <2>1, <3>2, <3>3, <3>4
  <2>5. ASSUME NEW r \in next.taken
        PROVE  \E i \in 0 .. (n + 1) - 1 : rows[i] = r /\ i + Horizon <= next.free
    <3>1. CASE r \in run.taken
      <4>1. PICK i \in 0 .. n - 1 : rows[i] = r /\ i + Horizon <= run.free
        BY <1>3, <3>1
      <4>2. i \in 0 .. (n + 1) - 1 /\ i + Horizon <= next.free
        BY <1>2, <1>7, <2>1, <4>1
      <4> QED
        BY <4>1, <4>2
    <3>2. CASE r = rows[n]
      <4>1. n \in 0 .. (n + 1) - 1 /\ n + Horizon <= next.free
        BY <1>2, <2>1
      <4> QED
        BY <3>2, <4>1
    <3> QED
      BY <2>1, <3>1, <3>2
  <2> QED
    BY <1>5, <2>4, <2>5 DEF RunInv, rows, next
<1> QED
  BY <1>4, <1>6, <1>7

LEMMA SimulateSpaced ==
  ASSUME Scored \in SUBSET Int, IsFiniteSet(Scored), NEW threshold
  PROVE  Simulate(threshold) \in SUBSET Scored /\ Spaced(Simulate(threshold))
<1> DEFINE size == Cardinality(Scored)
           run == CHOOSE r : SimulateRun(threshold, r)
           N == {n \in Nat : n <= size => RunInv(run[n], n)}
<1>1. size \in Nat
  BY FS_CardinalityType
<1>2. SimulateRun(threshold, run)
  BY RunExists
<1>3. Simulate(threshold) = run[size].taken
  BY SimulateIsRun
<1> HIDE DEF run
<1>4. /\ run[0] = [free |-> 0, taken |-> {}]
      /\ \A n \in 0 .. size - 1 : run[n + 1] = AfterSignal(run[n], n, threshold)
  <2> DEFINE next(n) == IF n = 0 THEN [free |-> 0, taken |-> {}]
                        ELSE AfterSignal(run[n - 1], n - 1, threshold)
  <2>1. \A n \in 0 .. size : run[n] = next(n)
    BY <1>2 DEF SimulateRun
  <2>2. run[0] = next(0)
    BY <1>1, <2>1
  <2>3. ASSUME NEW n \in 0 .. size - 1 PROVE run[n + 1] = AfterSignal(run[n], n, threshold)
    <3>1. n + 1 \in 0 .. size /\ n + 1 # 0 /\ (n + 1) - 1 = n
      BY <1>1
    <3>2. run[n + 1] = next(n + 1)
      BY <2>1, <3>1
    <3> QED
      BY <3>1, <3>2
  <2> QED
    BY <2>2, <2>3
<1>5. 0 \in N
  BY <1>4 DEF RunInv, Run, Spaced
<1>6. ASSUME NEW n \in Nat, n \in N PROVE n + 1 \in N
  <2> SUFFICES ASSUME n + 1 <= size PROVE RunInv(run[n + 1], n + 1)
    OBVIOUS
  <2>1. n \in 0 .. size - 1 /\ RunInv(run[n], n)
    BY <1>1, <1>6
  <2>2. RunInv(AfterSignal(run[n], n, threshold), n + 1)
    BY <2>1, AfterSignalSpaced
  <2> QED
    BY <1>4, <2>1, <2>2
<1> HIDE DEF N
<1>7. size \in N
  BY <1>1, <1>5, <1>6, AllNumbers
<1>8. RunInv(run[size], size)
  BY <1>1, <1>7 DEF N
<1> QED
  BY <1>3, <1>8 DEF RunInv, Run
(***************************************************************************)
(* The invariant.                                                          *)
(***************************************************************************)

LEMMA FiniteScored ==
  ASSUME RowsInv, FoldsInv
  PROVE  Scored \in SUBSET Int /\ IsFiniteSet(Scored)
<1>1. NRows \in Nat /\ Rows = 0 .. NRows - 1 /\ Scored \in SUBSET Rows
  BY DEF RowsInv, FoldsInv
<1>2. IsFiniteSet(Rows)
  <2>1. 0 \in Int /\ NRows - 1 \in Int
    BY <1>1
  <2> QED
    BY <1>1, <2>1, FS_Interval
<1>3. IsFiniteSet(Scored)
  BY <1>1, <1>2, FS_Subset
<1> QED
  BY <1>1, <1>3

\* select_thresholds chooses one of its grid.
LEMMA ChosenFromGrid ==
  ASSUME RowsInv, FoldsInv
  PROVE  Enough \subseteq DOMAIN Grid /\ Min(MostTrades) \in DOMAIN Grid
<1> DEFINE T == {Trades(i) : i \in DOMAIN Grid}
<1>1. DOMAIN Grid = 1 .. Len(Grid) /\ Len(Grid) \in Nat \ {0}
  BY GridAssumption
<1>2. IsFiniteSet(Scored) /\ Cardinality(Scored) \in Nat
  BY FiniteScored, FS_CardinalityType
<1>3. \A i \in DOMAIN Grid : Trades(i) \in Int /\ Trades(i) <= Cardinality(Scored)
  <2> TAKE i \in DOMAIN Grid
  <2>1. Simulate(Grid[i]) \in SUBSET Scored
    BY FiniteScored, SimulateSpaced
  <2>2. Cardinality(Simulate(Grid[i])) \in Nat /\ Cardinality(Simulate(Grid[i])) <= Cardinality(Scored)
    BY <1>2, <2>1, FS_Subset, FS_CardinalityType
  <2> QED
    BY <2>2 DEF Trades
<1>4. T # {} /\ T \subseteq Int /\ Cardinality(Scored) \in Int /\ \A x \in T : x <= Cardinality(Scored)
  <2>1. 1 \in DOMAIN Grid
    BY <1>1
  <2> QED
    BY <1>2, <1>3, <2>1
<1> HIDE DEF T
<1>5. Max(T) \in T /\ \A x \in T : x <= Max(T)
  BY <1>4, MaxBelow
<1>6. PICK i \in DOMAIN Grid : \A j \in DOMAIN Grid : Trades(j) <= Trades(i)
  BY <1>5 DEF T
<1>7. i \in MostTrades
  <2>1. \A j \in DOMAIN Grid : Trades(i) >= Trades(j)
    BY <1>3, <1>6
  <2> QED
    BY <2>1 DEF MostTrades
<1>8. MostTrades # {} /\ MostTrades \subseteq Int /\ 0 \in Int /\ \A x \in MostTrades : 0 <= x
  BY <1>1, <1>7 DEF MostTrades
<1>9. Min(MostTrades) \in MostTrades
  BY <1>8, MinAbove
<1> QED
  BY <1>9 DEF Enough, MostTrades

LEMMA InitInv == Init => Inv
<1> SUFFICES ASSUME Init PROVE Inv
  OBVIOUS
<1> USE DEF Init
<1>1. Rows = {} /\ NRows = 0 /\ Scored = {}
  <2>1. Rows = {} /\ Scored = {}
    BY DEF Rows, Scored
  <2> QED
    BY <2>1, FS_EmptySet DEF NRows
<1>2. RowsInv
  BY <1>1 DEF RowsInv
<1>3. FoldsInv
  <2>1. nFolds \in Nat \ {0} /\ MinTrain \in Nat /\ TestStart(0) = MinTrain
    BY FoldsAssumption, FirstFoldStart
  <2>2. MinTrain .. TestStart(fold) - 1 = {}
    BY <2>1
  <2>3. fits \in Seq([train : SUBSET Rows, test : SUBSET Rows]) /\ Len(fits) = 0 /\ DOMAIN fits = {}
    OBVIOUS
  <2> QED
    BY <1>1, <2>1, <2>2, <2>3 DEF FoldsInv, NoLabelOverlap
<1>4. BacktestInv /\ DecisionInv
  BY DEF BacktestInv, DecisionInv, Spaced, NoDecision
<1> QED
  BY <1>2, <1>3, <1>4 DEF Inv

\* Nothing but the dataset decides the rows, the folds and the labels.
LEMMA SameDataset ==
  ASSUME UNCHANGED << bars, data, nFolds >>
  PROVE  /\ Rows' = Rows /\ NRows' = NRows /\ NBars' = NBars
         /\ \A k : TestStart(k)' = TestStart(k)
         /\ \A row : LabelWindow(row)' = LabelWindow(row)
         /\ RowsInv => RowsInv'
<1>1. Rows' = Rows /\ NRows' = NRows /\ NBars' = NBars
  BY DEF Rows, NRows, NBars
<1>2. \A k : FoldSize(k)' = FoldSize(k)
  BY <1>1 DEF FoldSize
<1>3. \A k : TestStart(k)' = TestStart(k)
  BY <1>1, <1>2 DEF TestStart
<1> QED
  BY <1>1, <1>3 DEF LabelWindow, RowsInv

\* The parts of the invariant that a step leaves alone.
LEMMA FoldsStay ==
  ASSUME FoldsInv, UNCHANGED << bars, data, nFolds, fold, fits, forecast >>,
         phase' \notin {"bars", "trained"} \/ (phase' = "trained" /\ fold = nFolds)
  PROVE  FoldsInv'
<1>1. /\ Rows' = Rows /\ NRows' = NRows /\ \A k : TestStart(k)' = TestStart(k)
      /\ \A row : LabelWindow(row)' = LabelWindow(row)
  BY SameDataset
<1>2. Scored' = Scored /\ TestStart(fold)' = TestStart(fold)
  BY <1>1 DEF Scored
<1>3. NoLabelOverlap' = NoLabelOverlap
  BY <1>1 DEF NoLabelOverlap
<1> QED
  BY <1>1, <1>2, <1>3 DEF FoldsInv
LEMMA BuildDatasetInv ==
  ASSUME Inv, BuildDataset
  PROVE  Inv'
<1> USE DEF Inv, BuildDataset
<1>1. /\ fold = 0 /\ fits = << >> /\ Scored = {} /\ bars \in Histories /\ nFolds \in FoldCounts
      /\ phase = "bars"
  BY DEF FoldsInv
<1>2. RowsInv'
  <2>1. WellDated(Dataset)
    BY <1>1, RowsOfDataset
  <2>2. NBars' = NBars
    BY DEF NBars
  <2> HIDE DEF BuildDataset
  <2>3. data' = Dataset
    BY DEF BuildDataset
  <2> QED
    BY <2>1, <2>2, <2>3 DEF RowsInv, WellDated, Rows, NRows
<1>3. FoldsInv'
  <2>1. fold' = 0 /\ fits' = << >> /\ Scored' = {} /\ bars' \in Histories /\ nFolds' \in FoldCounts
    BY <1>1 DEF Scored
  <2>2. nFolds \in Nat \ {0} /\ MinTrain \in Nat /\ TestStart(0)' = MinTrain
    <3>1. 0 .. 0 - 1 = {}
      OBVIOUS
    <3>2. nFolds \in Nat \ {0} /\ MinTrain \in Nat
      BY <1>1, FoldsAssumption
    <3> HIDE DEF BuildDataset
    <3> QED
      BY <3>1, <3>2, SumOfNone DEF TestStart
  <2>3. MinTrain .. TestStart(0)' - 1 = {}
    BY <2>2
  <2>4. (TestStart(fold))' = TestStart(0)'
    BY <2>1 DEF TestStart
  <2>5. /\ (fits \in Seq([train : SUBSET Rows, test : SUBSET Rows]))'
        /\ Len(fits') = 0 /\ DOMAIN fits' = {}
    BY <2>1
  <2> HIDE DEF BuildDataset, Inv
  <2>6. phase' = "folds" /\ nFolds' = nFolds
    BY DEF BuildDataset
  <2> QED
    BY <2>1, <2>2, <2>3, <2>4, <2>5, <2>6 DEF FoldsInv, NoLabelOverlap
<1>4. BacktestInv' /\ DecisionInv'
  BY <1>1 DEF BacktestInv, DecisionInv, Scored, Spaced
<1> QED
  BY <1>2, <1>3, <1>4

\* A fold, fitted or skipped.
LEMMA NextFoldFacts ==
  ASSUME Inv, NextFold
  PROVE  /\ RowsInv' /\ Rows' = Rows /\ NRows' = NRows /\ NRows \in Nat
         /\ fold \in 0 .. nFolds - 1 /\ fold' = fold + 1 /\ fold' \in 0 .. nFolds
         /\ nFolds \in Nat \ {0} /\ MinTrain \in Nat
         /\ NRows >= MinTrain + nFolds /\ phase = "folds" /\ phase' = "folds"
         /\ nFolds' = nFolds /\ bars' = bars
         /\ TestStart(fold) \in MinTrain .. NRows /\ TestStart(fold + 1) \in MinTrain .. NRows
         /\ TestStart(fold) <= TestStart(fold + 1)
         /\ (TestStart(fold))' = TestStart(fold + 1)
         /\ \A row : LabelWindow(row)' = LabelWindow(row)
<1>1. fold \in 0 .. nFolds /\ nFolds \in FoldCounts /\ RowsInv /\ NRows \in Nat
  BY DEF Inv, FoldsInv, RowsInv
<1>2. nFolds \in Nat \ {0} /\ MinTrain \in Nat
  BY <1>1, FoldsAssumption
<1>3. /\ fold < nFolds /\ fold' = fold + 1 /\ NRows >= MinTrain + nFolds
      /\ phase = "folds" /\ phase' = "folds" /\ nFolds' = nFolds /\ bars' = bars /\ data' = data
  BY DEF NextFold
<1>4. fold \in 0 .. nFolds - 1 /\ fold + 1 \in 0 .. nFolds
  BY <1>1, <1>2, <1>3
<1>5. /\ FoldSize(fold) \in Nat /\ TestStart(fold + 1) = TestStart(fold) + FoldSize(fold)
      /\ TestStart(fold) \in MinTrain .. NRows /\ TestStart(fold + 1) \in MinTrain .. NRows
  BY <1>1, <1>3, <1>4, FoldsCoverRows
<1>6. TestStart(fold) <= TestStart(fold + 1)
  BY <1>2, <1>5
<1>7. /\ Rows' = Rows /\ NRows' = NRows /\ \A k : TestStart(k)' = TestStart(k)
      /\ \A row : LabelWindow(row)' = LabelWindow(row) /\ RowsInv'
  BY <1>1, <1>3, SameDataset
<1>8. (TestStart(fold))' = TestStart(fold + 1)
  <2>1. TestStart(fold + 1) = MinTrain + SumFunctionOnSet([i \in 0 .. nFolds - 1 |-> FoldSize(i)], 0 .. (fold + 1) - 1)
    BY DEF TestStart
  <2>2. [i \in 0 .. nFolds' - 1 |-> FoldSize(i)'] = [i \in 0 .. nFolds - 1 |-> FoldSize(i)]
    BY <1>3, <1>7 DEF FoldSize
  <2> QED
    BY <1>3, <2>1, <2>2 DEF TestStart
<1> QED
  BY <1>1, <1>2, <1>3, <1>4, <1>5, <1>6, <1>7, <1>8
LEMMA SkipFoldInv ==
  ASSUME Inv, SkipFold
  PROVE  Inv'
<1> DEFINE start == TestStart(fold)
           next == TestStart(fold + 1)
<1>1. /\ RowsInv' /\ Rows' = Rows /\ fold \in 0 .. nFolds - 1 /\ fold' = fold + 1
      /\ fold' \in 0 .. nFolds /\ nFolds \in Nat \ {0} /\ MinTrain \in Nat
      /\ NRows >= MinTrain + nFolds /\ NRows' = NRows
      /\ phase = "folds" /\ phase' = "folds" /\ nFolds' = nFolds /\ bars' = bars
      /\ start \in Nat /\ next \in Nat /\ start <= next
      /\ (TestStart(fold))' = next /\ \A row : LabelWindow(row)' = LabelWindow(row)
  BY NextFoldFacts DEF SkipFold
<1>2. fits' = fits /\ forecast' = forecast /\ Scored' = Scored
  BY DEF SkipFold, Scored
<1> HIDE DEF start, next
<1>3. MinTrain .. start - 1 \subseteq MinTrain .. next - 1
  BY <1>1
<1>4. /\ bars \in Histories /\ nFolds \in FoldCounts
      /\ fits \in Seq([train : SUBSET Rows, test : SUBSET Rows]) /\ Len(fits) <= fold
      /\ \A i \in DOMAIN fits : fits[i].test \subseteq MinTrain .. start - 1
      /\ \A i, j \in DOMAIN fits : i # j => fits[i].test \cap fits[j].test = {}
      /\ NoLabelOverlap
      /\ Scored \subseteq Rows \cap (MinTrain .. start - 1)
      /\ \A row \in Scored : forecast[row] \in Forecasts
  BY DEF Inv, FoldsInv, start
<1>5. Len(fits) \in Nat
  BY <1>4
<1>6. NoLabelOverlap'
  BY <1>1, <1>2, <1>4 DEF NoLabelOverlap
<1>7. FoldsInv'
  <2>1. Len(fits') <= fold' /\ Len(fits') # fold'
    BY <1>1, <1>2, <1>4, <1>5
  <2> QED
    BY <1>1, <1>2, <1>3, <1>4, <1>6, <2>1 DEF FoldsInv
<1>8. BacktestInv' /\ DecisionInv'
  BY <1>1, <1>2 DEF Inv, BacktestInv, DecisionInv, SkipFold, NextFold
<1> QED
  BY <1>1, <1>7, <1>8 DEF Inv

LEMMA FitFoldInv ==
  ASSUME Inv, FitFold
  PROVE  Inv'
<1> DEFINE start == TestStart(fold)
           next == TestStart(fold + 1)
           fit == [train |-> TrainRows(fold), test |-> TestRows(fold)]
<1>1. /\ RowsInv' /\ Rows' = Rows /\ fold \in 0 .. nFolds - 1 /\ fold' = fold + 1
      /\ fold' \in 0 .. nFolds /\ nFolds \in Nat \ {0} /\ MinTrain \in Nat
      /\ NRows >= MinTrain + nFolds /\ NRows' = NRows
      /\ phase = "folds" /\ phase' = "folds" /\ nFolds' = nFolds /\ bars' = bars
      /\ start \in Nat /\ next \in Nat /\ start <= next /\ MinTrain <= start
      /\ (TestStart(fold))' = next /\ \A row : LabelWindow(row)' = LabelWindow(row)
  BY NextFoldFacts DEF FitFold
<1>2. PICK f \in [TestRows(fold) -> Forecasts] :
         forecast' = [row \in TestRows(fold) \cup Scored |->
                        IF row \in TestRows(fold) THEN f[row] ELSE forecast[row]]
  BY DEF FitFold
<1>3. fits' = Append(fits, fit)
  BY DEF FitFold
<1>4. /\ RowsInv /\ bars \in Histories /\ nFolds \in FoldCounts
      /\ fits \in Seq([train : SUBSET Rows, test : SUBSET Rows]) /\ Len(fits) <= fold
      /\ \A i \in DOMAIN fits : fits[i].test \subseteq MinTrain .. start - 1
      /\ \A i, j \in DOMAIN fits : i # j => fits[i].test \cap fits[j].test = {}
      /\ NoLabelOverlap
      /\ Scored \subseteq Rows \cap (MinTrain .. start - 1)
      /\ Len(fits) = fold => Scored = MinTrain .. start - 1
      /\ \A row \in Scored : forecast[row] \in Forecasts
  BY DEF Inv, FoldsInv
<1>5. TestRows(fold) = start .. next - 1 /\ TestRows(fold) \subseteq Rows /\ TrainRows(fold) \subseteq Rows
  BY <1>1, <1>4, FoldRows
<1>6. \A r \in fit.train, t \in fit.test : LabelWindow(r) \cap LabelWindow(t) = {}
  BY <1>1, <1>4, FoldClear
<1>7. fit \in [train : SUBSET Rows, test : SUBSET Rows] /\ fit.test = start .. next - 1
  BY <1>5
<1> HIDE DEF start, next, fit
<1>8. Scored' = Scored \cup (start .. next - 1)
  BY <1>2, <1>5 DEF Scored
<1>9. ASSUME NEW row \in Scored' PROVE forecast'[row] \in Forecasts
  BY <1>2, <1>4, <1>5, <1>9 DEF Scored
<1>10. /\ MinTrain .. next - 1 = (MinTrain .. start - 1) \cup (start .. next - 1)
       /\ (MinTrain .. start - 1) \cap (start .. next - 1) = {}
  BY <1>1
<1>11. /\ fits' \in Seq([train : SUBSET Rows, test : SUBSET Rows])
       /\ Len(fits') = Len(fits) + 1 /\ Len(fits) \in Nat
       /\ DOMAIN fits' = DOMAIN fits \cup {Len(fits) + 1} /\ Len(fits) + 1 \notin DOMAIN fits
       /\ \A i \in DOMAIN fits : fits'[i] = fits[i]
       /\ fits'[Len(fits) + 1] = fit
  BY <1>3, <1>4, <1>7
<1>12. NoLabelOverlap'
  <2> SUFFICES ASSUME NEW i \in DOMAIN fits', NEW r \in fits'[i].train, NEW t \in fits'[i].test
               PROVE  LabelWindow(r)' \cap LabelWindow(t)' = {}
    BY DEF NoLabelOverlap
  <2>1. LabelWindow(r) \cap LabelWindow(t) = {}
    <3>1. CASE i \in DOMAIN fits
      BY <1>4, <1>11, <3>1 DEF NoLabelOverlap
    <3>2. CASE i = Len(fits) + 1
      BY <1>6, <1>11, <3>2
    <3> QED
      BY <1>11, <3>1, <3>2
  <2> QED
    BY <1>1, <2>1
<1>13. \A i \in DOMAIN fits' : fits'[i].test \subseteq MinTrain .. next - 1
  <2>1. ASSUME NEW i \in DOMAIN fits PROVE fits'[i].test \subseteq MinTrain .. next - 1
    BY <1>4, <1>10, <1>11
  <2>2. fits'[Len(fits) + 1].test \subseteq MinTrain .. next - 1
    BY <1>7, <1>10, <1>11
  <2> QED
    BY <1>11, <2>1, <2>2
<1>14. ASSUME NEW i \in DOMAIN fits', NEW j \in DOMAIN fits', i # j
       PROVE  fits'[i].test \cap fits'[j].test = {}
  <2>1. \A k \in DOMAIN fits : fits'[k].test \cap fit.test = {}
    BY <1>4, <1>7, <1>10, <1>11
  <2>2. CASE i \in DOMAIN fits /\ j \in DOMAIN fits
    BY <1>4, <1>11, <1>14, <2>2
  <2>3. CASE i = Len(fits) + 1
    BY <1>11, <1>14, <2>1, <2>3
  <2>4. CASE j = Len(fits) + 1
    BY <1>11, <1>14, <2>1, <2>4
  <2> QED
    BY <1>11, <2>2, <2>3, <2>4
<1>15. FoldsInv'
  <2>1. Len(fits') <= fold' /\ (Len(fits') = fold' => Len(fits) = fold)
    BY <1>1, <1>4, <1>11
  <2>2. Len(fits') = fold' => Scored' = MinTrain .. next - 1
    BY <1>4, <1>8, <1>10, <2>1
  <2>3. Scored' \subseteq Rows \cap (MinTrain .. next - 1)
    BY <1>4, <1>5, <1>8, <1>10
  <2>4. /\ fold' \in 0 .. nFolds' /\ (fold' > 0 => NRows' >= MinTrain + nFolds')
        /\ bars' \in Histories /\ nFolds' \in FoldCounts
        /\ (phase' # "bars") /\ (phase' # "trained")
    BY <1>1, <1>4
  <2> QED
    BY <1>1, <1>9, <1>11, <1>12, <1>13, <1>14, <2>1, <2>2, <2>3, <2>4 DEF FoldsInv
<1>16. BacktestInv' /\ DecisionInv'
  BY <1>1, <1>8 DEF Inv, BacktestInv, DecisionInv, FitFold, NextFold
<1> QED
  BY <1>1, <1>15, <1>16 DEF Inv
LEMMA SelectThresholdsInv ==
  ASSUME Inv, SelectThresholds
  PROVE  Inv'
<1>1. RowsInv /\ FoldsInv /\ DecisionInv
  BY DEF Inv
<1>2. /\ phase = "folds" /\ fold = nFolds /\ phase' = "trained"
      /\ UNCHANGED << bars, data, nFolds, fold, fits, forecast, decision >>
  BY DEF SelectThresholds
<1>3. PICK i \in (IF Enough # {} THEN Enough ELSE {Min(MostTrades)}) :
         thresholds' = Grid[i] /\ taken' = Simulate(Grid[i])
  BY DEF SelectThresholds
<1>4. i \in DOMAIN Grid
  BY <1>1, <1>3, ChosenFromGrid
<1>5. taken' \in SUBSET Scored /\ Spaced(taken')
  BY <1>1, <1>3, FiniteScored, SimulateSpaced
<1>6. BacktestInv'
  BY <1>2, <1>5 DEF BacktestInv, Scored, Spaced
<1>7. thresholds' \in Range(Grid)
  BY <1>3, <1>4 DEF Range
<1>8. DecisionInv'
  BY <1>1, <1>2, <1>7 DEF DecisionInv, NoDecision
<1>9. RowsInv' /\ FoldsInv'
  BY <1>1, <1>2, SameDataset, FoldsStay
<1> QED
  BY <1>6, <1>8, <1>9 DEF Inv

LEMMA PredictInv ==
  ASSUME Inv, NEW stored \in LiveBars, Predict(stored)
  PROVE  Inv'
<1>1. RowsInv /\ FoldsInv /\ BacktestInv /\ DecisionInv
  BY DEF Inv
<1>2. phase' = "decided" /\ UNCHANGED << bars, data, nFolds, fold, fits, forecast, thresholds, taken >>
  BY DEF Predict
<1>3. RowsInv' /\ FoldsInv'
  BY <1>1, <1>2, SameDataset, FoldsStay
<1>4. BacktestInv'
  BY <1>1, <1>2 DEF BacktestInv, Scored
<1>5. /\ decision'.action \in {"HOLD", "BUY", "SELL"}
      /\ decision'.action \in {"BUY", "SELL"} => decision'.row \in Int /\ decision'.row >= WARMUP_BARS
  <2>1. CASE decision' = Decided(stored - 1, 0)
    BY <2>1 DEF Decided
  <2>2. CASE /\ stored >= MinBars
             /\ \E f \in Forecasts : decision' = Decided(stored - 1, Position(f, thresholds))
    <3>1. PICK f \in Forecasts : decision' = Decided(stored - 1, Position(f, thresholds))
      BY <2>2
    <3>2. Position(f, thresholds) \in {-1, 0, 1}
      BY GridAssumption DEF Position
    <3>3. stored \in Nat /\ stored - 1 \in Int /\ stored - 1 >= WARMUP_BARS
      BY <2>2, BarsAssumption DEF MinBars, WARMUP_BARS
    <3>4. decision'.row = stored - 1 /\ decision'.action \in {"HOLD", "BUY", "SELL"}
      BY <3>1, <3>2 DEF Decided
    <3> QED
      BY <3>3, <3>4
  <2> QED
    BY <2>1, <2>2 DEF Predict
<1>6. DecisionInv'
  BY <1>1, <1>2, <1>5 DEF DecisionInv
<1> QED
  BY <1>3, <1>4, <1>6 DEF Inv

LEMMA OthersInv ==
  ASSUME Inv, TooFewRows \/ NoFolds \/ UNCHANGED vars
  PROVE  Inv'
<1>1. RowsInv /\ FoldsInv /\ BacktestInv /\ DecisionInv
  BY DEF Inv
<1>2. UNCHANGED << bars, data, nFolds, fold, fits, forecast, thresholds, taken, decision >>
  BY DEF TooFewRows, NoFolds, vars
<1>3. RowsInv' /\ BacktestInv'
  BY <1>1, <1>2, SameDataset DEF BacktestInv, Scored
<1>4. CASE phase = "folds" /\ phase' = "failed"
  <2>1. FoldsInv'
    BY <1>1, <1>2, <1>4, FoldsStay
  <2>2. DecisionInv'
    BY <1>1, <1>2, <1>4 DEF DecisionInv
  <2> QED
    BY <1>3, <2>1, <2>2 DEF Inv
<1>5. CASE UNCHANGED vars
  <2>1. FoldsInv'
    <3>1. CASE phase' \notin {"bars", "trained"} \/ (phase' = "trained" /\ fold = nFolds)
      BY <1>1, <1>2, <3>1, FoldsStay
    <3>2. CASE phase' = "bars"
      <4>1. phase = "bars" /\ phase' = phase
        BY <1>5, <3>2 DEF vars
      <4>2. /\ Rows' = Rows /\ NRows' = NRows /\ \A k : TestStart(k)' = TestStart(k)
            /\ \A row : LabelWindow(row)' = LabelWindow(row)
        BY <1>2, SameDataset
      <4>3. Scored' = Scored /\ TestStart(fold)' = TestStart(fold)
        BY <1>2, <4>2 DEF Scored
      <4>4. NoLabelOverlap' = NoLabelOverlap
        BY <1>2, <4>2 DEF NoLabelOverlap
      <4> QED
        BY <1>1, <1>2, <4>1, <4>2, <4>3, <4>4 DEF FoldsInv
    <3>3. phase' = "trained" => fold = nFolds
      BY <1>1, <1>5 DEF FoldsInv, vars
    <3> QED
      BY <3>1, <3>2, <3>3
  <2>2. DecisionInv'
    BY <1>1, <1>2, <1>5 DEF DecisionInv, vars
  <2> QED
    BY <1>3, <2>1, <2>2 DEF Inv
<1> QED
  BY <1>4, <1>5 DEF TooFewRows, NoFolds

LEMMA FitsType ==
  ASSUME FoldsInv, NEW i \in DOMAIN fits
  PROVE  fits[i].train \subseteq Rows /\ fits[i].test \subseteq Rows
<1> DEFINE Fits == [train : SUBSET Rows, test : SUBSET Rows]
<1>1. fits \in Seq(Fits)
  BY DEF FoldsInv
<1> HIDE DEF Fits
<1>2. fits[i] \in Fits
  BY <1>1
<1> QED
  BY <1>2 DEF Fits

-----------------------------------------------------------------------------
\* The inductive invariant holds in every reachable state: the rows ascend with
\* their bars, the folds follow each other, what is traded is a horizon apart.
THEOREM InvHolds == Spec => []Inv
<1>1. Inv /\ [Next]_vars => Inv'
  BY BuildDatasetInv, SkipFoldInv, FitFoldInv, SelectThresholdsInv, PredictInv, OthersInv DEF Next
<1> QED
  BY InitInv, <1>1, PTL DEF Spec

\* The report, the thresholds and the decision are there when they are due, and
\* nothing but rows of the dataset is scored or traded (train_strategy).
THEOREM TypeCorrect == Spec => []TypeOK
<1>1. Inv => TypeOK
  <2> SUFFICES ASSUME Inv PROVE TypeOK
    OBVIOUS
  <2>1. /\ nFolds \in FoldCounts /\ fold \in 0 .. nFolds /\ Len(fits) <= fold
        /\ Scored \subseteq Rows /\ \A row \in Scored : forecast[row] \in Forecasts
        /\ taken \subseteq Scored
    BY DEF Inv, FoldsInv, BacktestInv
  <2>2. \A i \in DOMAIN fits : fits[i].train \subseteq Rows /\ fits[i].test \subseteq Rows
    BY FitsType DEF Inv
  <2>3. /\ Rows = 0 .. NRows - 1
        /\ \A row \in Rows : data.bar[row] < data.exit[row] /\ data.exit[row] < NBars
    BY DEF Inv, RowsInv
  <2>4. /\ phase \in {"bars", "folds", "failed", "trained", "decided"}
        /\ thresholds \in Range(Grid) \cup {0}
        /\ decision.action \in {"none", "HOLD", "BUY", "SELL"}
        /\ (phase = "decided") <=> (decision.action # "none")
    BY DEF Inv, DecisionInv, NoDecision
  <2> QED
    BY <2>1, <2>2, <2>3, <2>4 DEF TypeOK
<1> QED
  BY <1>1, InvHolds, PTL

\* No label a model is fitted on and no label it is scored on share a bar, for
\* any horizon, any number of folds and any gaps between the rows
\* (purged_walk_forward_splits).
THEOREM NoLabelOverlapHolds == Spec => []NoLabelOverlap
<1>1. Inv => NoLabelOverlap
  BY DEF Inv, FoldsInv
<1> QED
  BY <1>1, InvHolds, PTL

\* The folds partition the rows after the first MinTrain, however many rows are
\* left over (array_split), and each is scored by the model of its fold.
THEOREM EveryRowScoredOnceHolds == Spec => []EveryRowScoredOnce
<1>1. Inv => EveryRowScoredOnce
  <2> SUFFICES ASSUME Inv PROVE EveryRowScoredOnce
    OBVIOUS
  <2>1. \A i, j \in DOMAIN fits : i # j => fits[i].test \cap fits[j].test = {}
    BY DEF Inv, FoldsInv
  <2>2. ASSUME phase = "trained", Len(fits) = nFolds PROVE Scored = MinTrain .. NRows - 1
    <3>1. /\ fold = nFolds /\ nFolds \in FoldCounts /\ NRows \in Nat
          /\ (fold > 0 => NRows >= MinTrain + nFolds)
          /\ Scored = MinTrain .. TestStart(fold) - 1
      BY <2>2 DEF Inv, FoldsInv, RowsInv
    <3>2. NRows >= MinTrain + nFolds
      BY <3>1, FoldsAssumption
    <3>3. TestStart(nFolds) = NRows
      BY <3>1, <3>2, FoldsCoverRows
    <3> QED
      BY <3>1, <3>3
  <2> QED
    BY <2>1, <2>2 DEF EveryRowScoredOnce
<1> QED
  BY <1>1, InvHolds, PTL

\* The backtest never holds two trades at a time: a horizon of scored rows is at
\* least a horizon of bars (simulate).
THEOREM OneTradeAtATimeHolds == Spec => []OneTradeAtATime
<1>1. Inv => OneTradeAtATime
  <2> SUFFICES ASSUME Inv, NEW r \in taken, NEW s \in taken, r < s
               PROVE  data.exit[r] <= data.bar[s]
    BY DEF OneTradeAtATime
  <2>1. /\ RowsInv /\ r \in Rows /\ s \in Rows /\ r + Horizon <= s
        /\ NRows \in Nat /\ Rows = 0 .. NRows - 1 /\ Horizon \in Nat
    BY WidthsAssumption DEF Inv, RowsInv, FoldsInv, BacktestInv, Spaced
  <2>2. data.bar[r] + (s - r) <= data.bar[s]
    BY <2>1, BarsApart
  <2>3. /\ data.bar[r] \in Int /\ data.exit[r] \in Int /\ data.bar[s] \in Int
        /\ data.exit[r] <= data.bar[r] + Horizon
    BY <2>1 DEF RowsInv
  <2> QED
    BY <2>1, <2>2, <2>3
<1> QED
  BY <1>1, InvHolds, PTL

\* No feature looks ahead: what a model is fitted on, scored on or asked about
\* ends before its label begins (compute_features).
THEOREM FeaturesPrecedeLabelsHolds == Spec => []FeaturesPrecedeLabels
<1>1. Inv => FeaturesPrecedeLabels
  <2> SUFFICES ASSUME Inv PROVE FeaturesPrecedeLabels
    OBVIOUS
  <2>1. ASSUME NEW i \in DOMAIN fits, NEW row \in fits[i].train \cup fits[i].test
        PROVE  NewestBarRead(data.bar[row]) \notin LabelWindow(row)
    <3>1. row \in Rows
      BY FitsType DEF Inv
    <3>2. data.bar[row] \in Int
      BY <3>1 DEF Inv, RowsInv
    <3> QED
      BY <3>2, NothingAhead DEF NewestBarRead, LabelWindow
  <2>2. ASSUME decision.action \in {"BUY", "SELL"} PROVE NewestBarRead(decision.row) <= decision.row
    BY <2>2, NothingAhead DEF Inv, DecisionInv, NewestBarRead
  <2> QED
    BY <2>1, <2>2 DEF FeaturesPrecedeLabels
<1> QED
  BY <1>1, InvHolds, PTL

\* A row a decision is made on has every feature, since every series is a number
\* by the end of the warm-up (predict_latest, build_dataset).
THEOREM OnlyCompleteRowsHolds == Spec => []OnlyCompleteRows
<1>1. Inv => OnlyCompleteRows
  BY CompleteInTime DEF Inv, DecisionInv, OnlyCompleteRows
<1> QED
  BY <1>1, InvHolds, PTL
=============================================================================
