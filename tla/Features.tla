------------------------------ MODULE Features ------------------------------
(***************************************************************************)
(* The features of the model, by the bars they read.  A series has a value *)
(* per bar; what matters here is the newest bar that goes into the value   *)
(* of a row, counted from the row (ahead), and the first row whose value   *)
(* is a number (first): a rolling window makes a series later, a window    *)
(* that skips NaNs less so, and an average that runs from the first bar    *)
(* never gets rid of a NaN.                                                *)
(***************************************************************************)
EXTENDS Integers, FiniteSets, FiniteSetsExt

WARMUP_BARS == 64
Never == 100000          \* first row of a series that is never a number

\* open, high, low, close, volume and open_time of the bars.
Bar == [ahead |-> 0, first |-> 0]

\* A value computed row by row from several series.
Of(S) == [ahead |-> Max({s.ahead : s \in S}), first |-> Max({s.first : s \in S})]

\* (ShiftAhead is a mutant of Shift: the sign of the slice swapped.)
ShiftAhead(s, periods) == [ahead |-> s.ahead + periods, first |-> s.first]
Shift(s, periods) == [ahead |-> s.ahead - periods, first |-> s.first + periods]

\* nanmean, nanstd, nanmax and nanmin want one number in a full window ...
Rolling(s, window) == [s EXCEPT !.first = Max({window - 1, s.first})]
\* ... the other functions of a window a window of numbers.
RollingAll(s, window) == [s EXCEPT !.first = s.first + window - 1]

Ema(s) == [s EXCEPT !.first = IF s.first = 0 THEN 0 ELSE Never]

\* wilder_rsi fills the rows before its period, and true_range the first row.
WilderRsi(close) == [Of({close, Shift(close, 1)}) EXCEPT !.first = close.first]
TrueRange(close) == [Of({close, Shift(close, 1)}) EXCEPT !.first = close.first]

Returns(lag) == Of({Bar, Shift(Bar, lag)})
Ret == Returns(1)
Volatility(window) == Rolling(Ret, window)
\* (LongWindow is a mutant of SlowWindow: a window longer than the warm-up.)
LongWindow == 66
SlowWindow == 50

\* volume_z_20, bb_pct_b and their like: a bar against its window.
AgainstWindow(window) == Of({Bar, Rolling(Bar, window)})

\* compute_features: the series of every feature.
Lags == {1, 2, 3, 5, 10, 20}
FeatureSeries ==
  {Returns(lag) : lag \in Lags}                                   \* ret_*
    \cup {Volatility(10), Volatility(20), Volatility(SlowWindow)}  \* vol_*
    \cup {Of({Volatility(10), Volatility(SlowWindow)}),            \* vol_ratio_10_50
          Of({Ret, Volatility(20)}),                               \* ret_1_z
          Of({Returns(5), Volatility(20)})}                        \* ret_5_z
    \cup {Of({Bar, Ema(Bar)}), Of({Ema(Bar)})}                     \* close_ema*, ema*_ema*
    \cup {WilderRsi(Bar)}                                          \* rsi_*
    \cup {Of({Bar, Ema(Bar)}), Of({Bar, Ema(Bar), Ema(Ema(Bar))})} \* macd_*
    \cup {AgainstWindow(20), Rolling(Bar, 20)}                     \* bb_*
    \cup {Of({Bar, Ema(TrueRange(Bar))})}                          \* atr_norm
    \cup {AgainstWindow(20), AgainstWindow(50)}                    \* donchian_20, dist_*_50
    \cup {Bar, Of({Bar, Shift(Bar, 1)})}                           \* candles, gap
    \cup {AgainstWindow(20), Of({Rolling(Bar, 5), Rolling(Bar, 20)})}   \* volume_*
    \cup {RollingAll(Ret, 20), RollingAll(Ret, 21)}                \* skew, kurtosis, autocorrelation
    \cup {Of({Rolling(Returns(5), 20), Volatility(20)})}           \* variance_ratio_5
    \cup {Rolling([Ret EXCEPT !.first = 0], 20)}                   \* up_ratio_20: NaN > 0 is false
    \cup {Bar}                                                     \* hour_*, dow_*

\* Rows before WARMUP_BARS are blanked.  From then on a row is complete once
\* its last series is a number, and partly a number once its first one is.
FirstComplete == Max({s.first : s \in FeatureSeries})
FirstPartial == Min({s.first : s \in FeatureSeries})
Complete(row) == row >= WARMUP_BARS /\ row >= FirstComplete
Partial(row) == row >= WARMUP_BARS /\ row >= FirstPartial

\* The newest bar that goes into the features of a row.
FarthestAhead == Max({s.ahead : s \in FeatureSeries})
NewestBarRead(row) == row + FarthestAhead
=============================================================================
