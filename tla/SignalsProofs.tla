---------------------------- MODULE SignalsProofs ----------------------------
(***************************************************************************)
(* Proofs about which entries of the backtest look ahead, for any bars and *)
(* settings: what a longer series adds at earlier seconds or takes back.   *)
(***************************************************************************)
EXTENDS Signals, FvgZonesProofs, FiniteSetTheorems

-----------------------------------------------------------------------------
\* y is the series x with one more second.
Longer(y, x) ==
  /\ Follows(x.bars, y.bars, x.breaks, y.breaks, {}, {})
  /\ Len(x.trend) = Whole(x.bars) /\ Len(y.trend) = Whole(y.bars)
  /\ Len(x.trend) > 2 * PivotLen
  /\ \A j \in 1..Len(x.trend) : y.trend[j] = x.trend[j]
  /\ \A k \in DOMAIN x.breaks : x.breaks[k].bar < Whole(x.bars)
  /\ y.gate = x.gate

\* The last second whose trend is the same in both.
SettledIn(x, y) ==
  IF x.gate /\ Len(y.trend) # Len(x.trend) THEN LastSecond(Len(x.trend)) ELSE Len(x.bars)

\* A zone that the unfinished candle supersedes.
Passing(x, z) == z.superseded = Len(x.bars) /\ Unfinished(x.bars)

LEMMA SeriesGrows ==
  ASSUME ConstantsAssumption, ZoneAssumption, ZoneInv, NEW tick \in Bars, NextSecond(tick),
         NEW gate \in Gates, Warm
  PROVE  /\ Longer(Series(gate)', Series(gate))
         /\ SettledIn(Series(gate), Series(gate)') = Settled(gate)
<1>1. Follows(seconds, seconds', breaks, breaks', {}, {}) BY WindowsFollow
<1>2. /\ ZoneInv' /\ Len(bars) = Whole(seconds) /\ Len(bars') = Whole(seconds')
      /\ \/ UNCHANGED vars
         \/ /\ Extends(bars', bars) /\ Len(bars') = Len(bars) + 1
            /\ \E bar \in Bars : NextBar(bar)
  BY SecondStep
<1>3. /\ trend \in Seq({1, -1}) /\ Len(trend) = Len(bars) /\ Len(trend') = Len(bars')
      /\ bars \in Seq(Bars) /\ Len(bars) \in Nat
  BY <1>2, LenProperties DEF ZoneInv, IInv
<1>4. \A j \in 1..Len(trend) : trend'[j] = trend[j]
  <2>1. CASE UNCHANGED vars BY <2>1 DEF vars
  <2>2. CASE \E bar \in Bars : NextBar(bar)
    <3>1. PICK x : trend' = Append(trend, x) BY <2>2 DEF NextBar
    <3> QED BY <1>3, <3>1
  <2> QED BY <1>2, <2>1, <2>2
<1>5. \A k \in DOMAIN breaks : breaks[k].bar < Len(bars)
  <2> TAKE k \in DOMAIN breaks
  <2> DEFINE h == Len(bars) - PivotLen
  <2>1. /\ Sound(LoopState, bars, Len(bars) - PivotLen) /\ LoopState.breaks = breaks
        /\ PivotLen \in Nat \ {0}
    BY DEF ZoneInv, IInv, LoopState, ConstantsAssumption
  <2>2. Typed(LoopState) /\ \A side \in Sides : Decided(LoopState, bars, side, h) BY <2>1 DEF Sound
  <2>3. h \in Int /\ h <= Len(bars) /\ h < Len(bars) BY <1>3, <2>1
  <2> HIDE DEF h
  <2>4. /\ LoopState.breaks[k] \in Break /\ LoopState.breaks[k].bar <= h
    BY <1>3, <2>1, <2>2, <2>3, BreakPlaced
  <2>5. breaks[k].bar \in Nat /\ breaks[k].bar <= h BY <2>1, <2>4 DEF Break
  <2> QED BY <1>3, <2>3, <2>5
<1>6. /\ Series(gate).bars = seconds /\ Series(gate)'.bars = seconds'
      /\ Series(gate).breaks = breaks /\ Series(gate)'.breaks = breaks'
      /\ Series(gate).trend = trend /\ Series(gate)'.trend = trend'
      /\ Series(gate).gate = gate /\ Series(gate)'.gate = gate
  BY DEF Series
<1>7. bars' # bars <=> Len(trend') # Len(trend)
  <2>1. CASE UNCHANGED vars BY <2>1 DEF vars
  <2>2. CASE Len(bars') = Len(bars) + 1 BY <1>3, <2>2
  <2> QED BY <1>2, <2>1, <2>2
<1>8. Longer(Series(gate)', Series(gate))
  <2>1. Len(trend) = Whole(seconds) /\ Len(trend') = Whole(seconds') /\ Len(trend) > 2 * PivotLen
        /\ \A k \in DOMAIN breaks : breaks[k].bar < Whole(seconds)
    BY <1>2, <1>3, <1>5 DEF Warm
  <2> QED BY <1>1, <1>4, <1>6, <2>1 DEF Longer
<1>9. SettledIn(Series(gate), Series(gate)') = Settled(gate)
  BY <1>3, <1>6, <1>7 DEF SettledIn, Settled
<1> QED BY <1>8, <1>9

\* What Longer says of the seconds.
LEMMA LongerExtends ==
  ASSUME ConstantsAssumption, NEW x, NEW y, Longer(y, x)
  PROVE  /\ Extends(y.bars, x.bars)
         /\ Len(x.bars) \in Nat /\ Len(y.bars) = Len(x.bars) + 1
         /\ Whole(x.bars) > 0
         /\ SettledIn(x, y) \in 0..Len(x.bars)
<1>1. Extends(y.bars, x.bars) BY DEF Longer, Follows
<1>2. Len(x.bars) \in Nat /\ Len(y.bars) = Len(x.bars) + 1
  BY <1>1, LenProperties DEF Extends
<1>3. /\ Whole(x.bars) \in Nat /\ LastSecond(Whole(x.bars)) \in Nat
      /\ LastSecond(Whole(x.bars)) <= Len(x.bars)
  BY <1>1, WholeBars
<1>4. Len(x.trend) = Whole(x.bars) /\ Len(x.trend) > 2 * PivotLen BY DEF Longer
<1>5. Whole(x.bars) > 0
  <2>1. PivotLen \in Nat BY DEF ConstantsAssumption
  <2> QED BY <1>3, <1>4, <2>1
<1>6. SettledIn(x, y) \in {LastSecond(Whole(x.bars)), Len(x.bars)} BY <1>4 DEF SettledIn
<1>7. SettledIn(x, y) \in 0..Len(x.bars)
  <2> DEFINE a == SettledIn(x, y)
             b == LastSecond(Whole(x.bars))
  <2>1. a \in {b, Len(x.bars)} /\ b \in Nat /\ b <= Len(x.bars) BY <1>3, <1>6
  <2> HIDE DEF a, b
  <2>2. a \in 0..Len(x.bars) BY <1>2, <2>1
  <2> QED BY <2>2 DEF a
<1> QED BY <1>1, <1>2, <1>5, <1>7

\* The gate tells a settled second the same.
LEMMA BiasKept ==
  ASSUME ConstantsAssumption, NEW x, NEW y, Longer(y, x), NEW j \in 1..Len(x.bars),
         j <= SettledIn(x, y), NEW dir, NEW reverse
  PROVE  FollowsBias(y, j, dir, reverse) <=> FollowsBias(x, j, dir, reverse)
<1> DEFINE n == Whole(x.bars)
           m == Whole(y.bars)
<1>1. /\ Extends(y.bars, x.bars) /\ Len(x.trend) = n /\ Len(y.trend) = m
      /\ Len(x.trend) > 2 * PivotLen /\ y.gate = x.gate /\ n > 0
      /\ \A b \in 1..n : y.trend[b] = x.trend[b]
  BY LongerExtends DEF Longer
<1>2. /\ n \in Nat /\ m \in {n, n + 1}
      /\ IF j <= LastSecond(n) THEN /\ BarOf(j) \in 1..n
                                    /\ ToldBar(j, n) = BarOf(j) /\ ToldBar(j, m) = BarOf(j)
         ELSE ToldBar(j, n) = n
  BY <1>1, WholeBars
<1> HIDE DEF n, m
<1>3. ASSUME x.gate PROVE Bias(y, j) = Bias(x, j)
  <2>1. ToldBar(j, n) \in 1..n /\ ToldBar(j, m) = ToldBar(j, n)
    <3>1. CASE m = n
      <4>1. n \in 1..n BY <1>1, <1>2
      <4> QED BY <1>2, <3>1, <4>1
    <3>2. CASE m # n
      <4>1. j <= LastSecond(n) BY <1>1, <1>3, <3>2 DEF SettledIn
      <4> QED BY <1>2, <4>1
    <3> QED BY <3>1, <3>2
  <2>2. Len(y.trend) > 2 * PivotLen
    <3>1. PivotLen \in Nat BY DEF ConstantsAssumption
    <3> QED BY <1>1, <1>2, <3>1
  <2> QED BY <1>1, <2>1, <2>2 DEF Bias
<1> QED BY <1>1, <1>3 DEF FollowsBias

-----------------------------------------------------------------------------
\* A zone is touched on finitely many seconds, and never less often.
LEMMA TouchesGrow ==
  ASSUME ConstantsAssumption, NEW x, NEW y, Longer(y, x), NEW z, z.trigger \in 1..Len(x.bars)
  PROVE  /\ Touches(x, z) \in Nat /\ Touches(y, z) \in Nat
         /\ Touches(x, z) <= Touches(y, z)
<1> DEFINE T(w) == {j \in After(w.bars, z) : TradesIn(z, w.bars[j])}
<1>1. /\ Len(x.bars) \in Nat /\ Len(y.bars) = Len(x.bars) + 1
      /\ \A k \in 1..Len(x.bars) : y.bars[k] = x.bars[k]
  BY LongerExtends DEF Extends
<1>2. T(x) \subseteq T(y) /\ T(y) \subseteq 1..Len(y.bars) BY <1>1 DEF After
<1>3. IsFiniteSet(1..Len(y.bars)) BY <1>1, FS_Interval
<1>4. IsFiniteSet(T(y)) /\ IsFiniteSet(T(x)) BY <1>2, <1>3, FS_Subset
<1>5. /\ Cardinality(T(x)) \in Nat /\ Cardinality(T(y)) \in Nat
      /\ Cardinality(T(x)) <= Cardinality(T(y))
  BY <1>2, <1>4, FS_Subset, FS_CardinalityType
<1> QED BY <1>5 DEF Touches

LEMMA SmallerOfTwo ==
  ASSUME NEW p \in Int, NEW q \in Int
  PROVE  Smaller(p, q) \in Int /\ \A j \in Int : j <= Smaller(p, q) <=> j <= p /\ j <= q
BY DEF Smaller

\* Intervals of seconds.
LEMMA IntervalGrows ==
  ASSUME NEW n \in Nat, NEW m, m = n + 1
  PROVE  1..m = (1..n) \union {m} /\ 1..n \subseteq 1..m
OBVIOUS

LEMMA SecondsBetween ==
  ASSUME NEW a \in Nat, NEW p \in Nat, NEW q \in Int
  PROVE  (a + 1)..Smaller(p, q) = {j \in 1..p : a < j /\ j <= q}
<1>1. CASE p < q
  <2>1. Smaller(p, q) = p BY <1>1 DEF Smaller
  <2>2. \A j \in Int : j <= p => j <= q BY <1>1
  <2>3. (a + 1)..p = {j \in 1..p : a < j} OBVIOUS
  <2> QED BY <2>1, <2>2, <2>3
<1>2. CASE ~(p < q)
  <2>1. Smaller(p, q) = q /\ q <= p BY <1>2 DEF Smaller
  <2>2. (a + 1)..q = {j \in 1..p : a < j /\ j <= q} BY <2>1
  <2> QED BY <2>1, <2>2
<1> QED BY <1>1, <1>2

LEMMA NoneBetween ==
  ASSUME NEW p \in Nat, NEW q \in Int
  PROVE  (p + 1)..Smaller(p, q) = {}
<1>1. {j \in 1..p : p < j /\ j <= q} = {} OBVIOUS
<1> QED BY <1>1, SecondsBetween

LEMMA LargerOfTwo ==
  ASSUME NEW n \in Nat, NEW p, NEW q \in 1..n
  PROVE  /\ p = n + 1 => Larger(p, q) = n + 1
         /\ p \in 0..n => Larger(p, q) \in 1..n
<1>1. p = n + 1 => Larger(p, q) = n + 1 BY DEF Larger
<1>2. p \in 0..n => Larger(p, q) \in {p, q} /\ q <= Larger(p, q) BY DEF Larger
<1>3. p \in 0..n => Larger(p, q) \in 1..n BY <1>2
<1> QED BY <1>1, <1>3

\* The first retest after a second stays the first.
LEMMA RetestKept ==
  ASSUME ConstantsAssumption, SignalsAssumption, NEW x, NEW y, Longer(y, x),
         NEW z, NEW u, z.key = u.key,
         Anchor(z) = Anchor(u), Anchor(z) \in 1..Len(x.bars)
  PROVE  /\ RetestAt(x, z) # 0 => RetestAt(y, u) = RetestAt(x, z)
         /\ RetestAt(x, z) \in 0..Len(x.bars)
         /\ RetestAt(y, u) # 0 => RetestAt(y, u) = RetestAt(x, z) \/ RetestAt(y, u) = Len(y.bars)
<1> DEFINE a == Anchor(z)
           R(w) == {j \in (a + 1)..Smaller(Len(w.bars), a + RetestAge) : TradesIn(z.key, w.bars[j])}
<1>1. /\ Len(x.bars) \in Nat /\ Len(y.bars) = Len(x.bars) + 1 /\ RetestAge \in Nat
      /\ \A k \in 1..Len(x.bars) : y.bars[k] = x.bars[k]
  <2>1. RetestAge \in Nat BY DEF SignalsAssumption
  <2> QED BY <2>1, LongerExtends DEF Extends
<1>2. a \in Nat \ {0} /\ a <= Len(x.bars) BY <1>1
<1>3. RetestAt(x, z) = First(R(x)) /\ RetestAt(y, u) = First(R(y)) BY DEF RetestAt
<1> HIDE DEF a
<1>4. ASSUME NEW w, Len(w.bars) \in Nat
      PROVE  R(w) = {j \in 1..Len(w.bars) : a < j /\ j <= a + RetestAge /\ TradesIn(z.key, w.bars[j])}
  <2>1. a \in Nat /\ a + RetestAge \in Int BY <1>1, <1>2
  <2>2. (a + 1)..Smaller(Len(w.bars), a + RetestAge) =
          {j \in 1..Len(w.bars) : a < j /\ j <= a + RetestAge}
    BY <1>4, <2>1, SecondsBetween
  <2>3. R(w) = {j \in (a + 1)..Smaller(Len(w.bars), a + RetestAge) : TradesIn(z.key, w.bars[j])}
    BY DEF R
  <2> QED BY <2>2, <2>3
<1> HIDE DEF R
<1>5. /\ R(x) \subseteq R(y) /\ R(y) \subseteq R(x) \union {Len(y.bars)}
      /\ R(y) \subseteq Nat \ {0} /\ R(x) \subseteq 1..Len(x.bars)
  <2>1. R(x) = {j \in 1..Len(x.bars) : a < j /\ j <= a + RetestAge /\ TradesIn(z.key, x.bars[j])}
    BY <1>1, <1>4
  <2>2. Len(y.bars) \in Nat BY <1>1
  <2>3. R(y) = {j \in 1..Len(y.bars) : a < j /\ j <= a + RetestAge /\ TradesIn(z.key, y.bars[j])}
    BY <1>4, <2>2
  <2>4. ASSUME NEW j \in 1..Len(x.bars)
        PROVE  j \in 1..Len(y.bars) /\ TradesIn(z.key, x.bars[j]) = TradesIn(z.key, y.bars[j])
    <3>1. j \in 1..Len(y.bars) BY <1>1
    <3>2. x.bars[j] = y.bars[j] BY <1>1
    <3> QED BY <3>1, <3>2
  <2>5. 1..Len(y.bars) = (1..Len(x.bars)) \union {Len(y.bars)} BY <1>1, IntervalGrows
  <2>6. R(x) \subseteq R(y) BY <2>1, <2>3, <2>4
  <2>7. R(y) \subseteq R(x) \union {Len(y.bars)} BY <2>1, <2>3, <2>4, <2>5
  <2>8. R(y) \subseteq Nat \ {0} /\ R(x) \subseteq 1..Len(x.bars) BY <2>1, <2>3
  <2> QED BY <2>6, <2>7, <2>8
<1>6. ASSUME R(x) # {}
      PROVE  First(R(y)) = First(R(x)) /\ First(R(x)) \in R(x) /\ First(R(x)) # 0
  <2>1. \A j \in R(y) \ R(x), k \in R(x) : k <= j BY <1>1, <1>5
  <2> QED BY <1>5, <1>6, <2>1, FirstKept
<1>7. ASSUME R(x) = {} PROVE First(R(x)) = 0 /\ First(R(y)) \in {0, Len(y.bars)}
  <2>1. R(y) = {} \/ R(y) = {Len(y.bars)} BY <1>5, <1>7
  <2>2. ASSUME R(y) = {Len(y.bars)} PROVE First(R(y)) = Len(y.bars)
    <3>1. R(y) # {} BY <2>2
    <3>2. First(R(y)) \in R(y) BY <1>5, <3>1, FirstKept
    <3> QED BY <2>2, <3>2
  <2> QED BY <1>7, <2>1, <2>2 DEF First
<1> QED BY <1>1, <1>3, <1>5, <1>6, <1>7

-----------------------------------------------------------------------------
\* Seconds that the scans of a window find lie after the trigger and in the window.
LEMMA FirstInRange ==
  ASSUME NEW S, NEW n \in Nat, S \subseteq 1..n
  PROVE  First(S) \in 0..n /\ (First(S) # 0 => First(S) \in S)
<1>1. CASE S = {} BY <1>1 DEF First
<1>2. CASE S # {}
  <2>1. S \subseteq Nat \ {0} OBVIOUS
  <2>2. First(S) \in S BY <1>2, <2>1, FirstKept
  <2>3. First(S) \in 1..n BY <2>2
  <2>4. 1..n \subseteq 0..n OBVIOUS
  <2> QED BY <2>2, <2>3, <2>4
<1> QED BY <1>1, <1>2

\* An inversion that a window did not show is one of its new second.
LEMMA InversionIsNew ==
  ASSUME ZoneAssumption, NEW s, NEW t, Extends(t, s), NEW z, z.trigger \in 1..Len(s)
  PROVE  /\ InvertedAt(s, z) \in 0..Len(s)
         /\ InvertedAt(s, z) = 0 => InvertedAt(t, z) \in {0, Len(t)}
<1>1. /\ Len(s) \in Nat /\ Len(t) = Len(s) + 1 /\ Needed \in Nat \ {0}
      /\ \A k \in 1..Len(s) : t[k] = s[k]
  BY DEF Extends, ZoneAssumption
<1>2. /\ After(s, z) \subseteq 1..Len(s) /\ After(t, z) = After(s, z) \union {Len(t)}
      /\ Len(t) \notin After(s, z)
  BY <1>1 DEF After
<1> DEFINE Back(w, from) == {j \in After(w, z) : j > from /\ Returns(z, w[j].close)}
<1>3. /\ Runs(s, z) \subseteq 1..Len(s)
      /\ Runs(t, z) \subseteq Runs(s, z) \union {Len(t)} /\ Runs(t, z) \subseteq 1..Len(t)
  <2>1. ASSUME NEW j \in After(s, z), j - Needed >= z.trigger, NEW l \in (j - Needed + 1)..j
        PROVE  t[l] = s[l]
    <3>1. l \in 1..Len(s) BY <1>1, <1>2, <2>1
    <3> QED BY <3>1, <1>1
  <2>2. \A j \in After(s, z) : j \in Runs(t, z) => j \in Runs(s, z) BY <1>2, <2>1 DEF Runs
  <2>3. Runs(s, z) \subseteq After(s, z) /\ Runs(t, z) \subseteq After(t, z) BY DEF Runs
  <2>4. Runs(t, z) \subseteq Runs(s, z) \union {Len(t)} BY <1>2, <2>2, <2>3
  <2>5. After(t, z) \subseteq 1..Len(t) BY <1>1, <1>2
  <2> QED BY <1>2, <2>3, <2>4, <2>5
<1>4. \A from : /\ Back(s, from) \subseteq 1..Len(s)
                /\ Back(t, from) \subseteq Back(s, from) \union {Len(t)}
                /\ Back(t, from) \subseteq 1..Len(t)
  BY <1>1, <1>2
<1>5. Back(t, Len(t)) = {} BY <1>1, <1>2
<1>0. StreakAt(s, z) = First(Runs(s, z)) /\ StreakAt(t, z) = First(Runs(t, z))
  <2>1. z.trigger \in Nat /\ Len(t) \in Nat BY <1>1
  <2> QED BY <1>1, <2>1, StreakIsRun
<1>6. /\ StreakAt(s, z) = First(Runs(s, z)) /\ StreakAt(t, z) = First(Runs(t, z))
      /\ \A w : InvertedAt(w, z) = IF RequireRetest /\ StreakAt(w, z) # 0
                                   THEN First(Back(w, StreakAt(w, z))) ELSE StreakAt(w, z)
  BY <1>0 DEF InvertedAt
<1> HIDE DEF Back
<1>7. First(Runs(s, z)) \in 0..Len(s) /\ (First(Runs(t, z)) # 0 => First(Runs(t, z)) \in Runs(t, z))
  BY <1>1, <1>3, FirstInRange
<1>8. \A from : /\ First(Back(s, from)) \in 0..Len(s)
                /\ First(Back(t, from)) # 0 => First(Back(t, from)) \in Back(t, from)
  BY <1>1, <1>4, FirstInRange
<1>9. InvertedAt(s, z) \in 0..Len(s) BY <1>6, <1>7, <1>8
<1>10. First(Runs(s, z)) = 0 => Runs(s, z) = {} BY <1>3, FirstIsSome
<1>11. \A from : First(Back(s, from)) = 0 => Back(s, from) = {} BY <1>4, FirstIsSome
<1>12. ASSUME InvertedAt(s, z) = 0 PROVE InvertedAt(t, z) \in {0, Len(t)}
  <2>1. CASE StreakAt(s, z) = 0
    <3>1. StreakAt(t, z) \in {0, Len(t)} BY <1>3, <1>6, <1>7, <1>10, <2>1
    <3>2. First(Back(t, Len(t))) = 0 BY <1>5 DEF First
    <3>3. CASE StreakAt(t, z) = 0 BY <1>6, <3>3
    <3>4. CASE StreakAt(t, z) = Len(t) BY <1>6, <3>2, <3>4
    <3> QED BY <3>1, <3>3, <3>4
  <2>2. CASE StreakAt(s, z) # 0
    <3>1. StreakAt(t, z) = StreakAt(s, z) BY <2>2, ScansKept
    <3>2. RequireRetest /\ First(Back(s, StreakAt(s, z))) = 0 BY <1>6, <1>12, <2>2
    <3>3. First(Back(t, StreakAt(s, z))) \in {0, Len(t)} BY <1>4, <1>8, <1>11, <3>2
    <3>4. RequireRetest /\ StreakAt(t, z) # 0 BY <2>2, <3>1, <3>2
    <3>5. InvertedAt(t, z) = First(Back(t, StreakAt(t, z))) BY <1>6, <3>4
    <3> QED BY <3>1, <3>3, <3>5
  <2> QED BY <2>1, <2>2
<1> QED BY <1>9, <1>12

\* A mitigation is moved only by the new second, and to it.
LEMMA MitigationMoves ==
  ASSUME ConstantsAssumption, NEW s, NEW t, Extends(t, s),
         NEW z, z.trigger \in 1..Len(s), z.low \in Int, z.high \in Int
  PROVE  /\ MitigatedAt(s, z) \in 0..Len(s)
         /\ MitigatedAt(t, z) \in {MitigatedAt(s, z), Len(t)}
<1>1. /\ Len(s) \in Nat /\ Len(t) = Len(s) + 1
      /\ \A k \in 1..Len(s) : t[k] = s[k]
      /\ \A k \in 1..Len(t) : t[k] \in Bars
  BY DEF Extends
<1>2. /\ After(s, z) \subseteq 1..Len(s) /\ After(t, z) = After(s, z) \union {Len(t)}
      /\ Len(t) \notin After(s, z)
  BY <1>1 DEF After
<1> DEFINE depth(j) == Depth(z, t[j])
           width == z.high - z.low
           In(w) == {j \in After(w, z) : Inside(z, w[j].close)}
           Deep(w) == {j \in After(w, z) : \A l \in After(w, z) : Depth(z, w[l]) <= Depth(z, w[j])}
           Half(j) == 2 * depth(j) >= width /\ z.high > z.low
<1>3. \A j \in After(t, z) : depth(j) \in Int
  <2>1. \A j \in After(t, z) : t[j].high \in Int /\ t[j].low \in Int
    BY <1>1, <1>2 DEF ConstantsAssumption
  <2> QED BY <2>1 DEF Depth, Larger, Smaller
<1>4. \A j \in After(s, z) : s[j] = t[j] BY <1>1, <1>2
<1>5. /\ In(s) \subseteq 1..Len(s) /\ In(t) \subseteq 1..Len(t)
      /\ In(s) \subseteq In(t) /\ In(t) \subseteq In(s) \union {Len(t)}
  BY <1>1, <1>2, <1>4
<1>6. /\ Deep(s) = {j \in After(s, z) : \A l \in After(s, z) : depth(l) <= depth(j)}
      /\ Deep(t) = {j \in After(t, z) : \A l \in After(t, z) : depth(l) <= depth(j)}
  BY <1>4
<1>7. /\ MitigatedAt(s, z) = IF First(In(s)) # 0 THEN First(In(s))
                             ELSE IF First(Deep(s)) # 0 /\ Half(First(Deep(s)))
                                  THEN First(Deep(s)) ELSE 0
      /\ MitigatedAt(t, z) = IF First(In(t)) # 0 THEN First(In(t))
                             ELSE IF First(Deep(t)) # 0 /\ Half(First(Deep(t)))
                                  THEN First(Deep(t)) ELSE 0
  <2>1. Deep(s) \subseteq 1..Len(s) BY <1>2
  <2>2. First(Deep(s)) # 0 => First(Deep(s)) \in Deep(s) BY <1>1, <2>1, FirstInRange
  <2>3. First(Deep(s)) # 0 => Depth(z, s[First(Deep(s))]) = depth(First(Deep(s))) BY <1>4, <2>2
  <2> HIDE DEF Deep, In
  <2>4. /\ MitigatedAt(s, z) = IF First(In(s)) # 0 THEN First(In(s))
                               ELSE IF First(Deep(s)) # 0 /\ 2 * Depth(z, s[First(Deep(s))]) >= width
                                       /\ z.high > z.low
                                    THEN First(Deep(s)) ELSE 0
        /\ MitigatedAt(t, z) = IF First(In(t)) # 0 THEN First(In(t))
                               ELSE IF First(Deep(t)) # 0 /\ 2 * Depth(z, t[First(Deep(t))]) >= width
                                       /\ z.high > z.low
                                    THEN First(Deep(t)) ELSE 0
    BY DEF MitigatedAt, Deep, In
  <2> QED BY <2>3, <2>4
<1>8. /\ Deep(s) \subseteq 1..Len(s) /\ Deep(t) \subseteq 1..Len(t)
      /\ Deep(t) \subseteq Deep(s) \union {Len(t)}
  BY <1>1, <1>2, <1>6
<1>9. ASSUME NEW d \in Deep(s), depth(Len(t)) <= depth(d) PROVE Deep(s) \subseteq Deep(t)
  <2> SUFFICES ASSUME NEW j \in Deep(s), NEW l \in After(t, z) PROVE depth(l) <= depth(j)
    BY <1>2, <1>6
  <2>1. j \in After(s, z) /\ d \in After(s, z) /\ depth(d) <= depth(j) BY <1>6
  <2>2. l \in After(s, z) => depth(l) <= depth(j) BY <1>6
  <2>3. l = Len(t) => depth(l) <= depth(j) BY <1>2, <1>3, <1>9, <2>1
  <2> QED BY <1>2, <2>2, <2>3
<1>10. ASSUME NEW d \in Deep(s), ~(depth(Len(t)) <= depth(d)) PROVE Deep(s) \intersect Deep(t) = {}
  <2> SUFFICES ASSUME NEW j \in Deep(s), j \in Deep(t) PROVE FALSE
    OBVIOUS
  <2>1. depth(Len(t)) <= depth(j) BY <1>2, <1>6
  <2>2. depth(j) <= depth(d) BY <1>6
  <2>3. j \in After(t, z) /\ d \in After(t, z) /\ Len(t) \in After(t, z) BY <1>2, <1>6
  <2> QED BY <1>3, <1>10, <2>1, <2>2, <2>3
<1> DEFINE d == First(Deep(s))
<1>11. /\ First(In(s)) \in 0..Len(s)
       /\ First(In(t)) # 0 => First(In(t)) \in In(t)
       /\ d \in 0..Len(s) /\ (d # 0 => d \in Deep(s))
       /\ First(Deep(t)) # 0 => First(Deep(t)) \in Deep(t)
  <2>1. In(s) \subseteq 1..Len(s) /\ In(t) \subseteq 1..Len(t) BY <1>5
  <2>2. Deep(s) \subseteq 1..Len(s) /\ Deep(t) \subseteq 1..Len(t) BY <1>8
  <2>3. Len(s) \in Nat /\ Len(t) \in Nat BY <1>1
  <2> HIDE DEF In, Deep
  <2>4. First(In(s)) \in 0..Len(s) BY <2>1, <2>3, FirstInRange
  <2>5. First(In(t)) # 0 => First(In(t)) \in In(t) BY <2>1, <2>3, FirstInRange
  <2>6. d \in 0..Len(s) /\ (d # 0 => d \in Deep(s)) BY <2>2, <2>3, FirstInRange
  <2>7. First(Deep(t)) # 0 => First(Deep(t)) \in Deep(t) BY <2>2, <2>3, FirstInRange
  <2> QED BY <2>4, <2>5, <2>6, <2>7
<1>12. d \in After(s, z) \/ d = 0 BY <1>6, <1>11
<1> HIDE DEF In, Deep, d
<1>13. MitigatedAt(s, z) \in 0..Len(s) BY <1>7, <1>11 DEF d
<1>14. First(In(s)) # 0 => First(In(t)) = First(In(s))
  <2>1. First(In(s)) # 0 => In(s) # {} BY DEF First
  <2>2. \A j \in In(t) \ In(s), k \in In(s) : k <= j BY <1>1, <1>5
  <2>3. In(t) \subseteq Nat \ {0} BY <1>5
  <2> QED BY <1>5, <2>1, <2>2, <2>3, FirstKept
<1>15. CASE First(In(s)) # 0
  <2>1. First(In(t)) = First(In(s)) /\ First(In(t)) # 0 BY <1>14, <1>15
  <2>2. MitigatedAt(t, z) = First(In(t)) BY <1>7, <2>1
  <2>3. MitigatedAt(s, z) = First(In(s)) BY <1>7, <1>15
  <2> QED BY <1>13, <2>1, <2>2, <2>3
<1>16. CASE First(In(s)) = 0 /\ First(In(t)) # 0
  <2>1. In(s) = {} BY <1>5, <1>16, FirstIsSome
  <2>2. First(In(t)) = Len(t) BY <1>5, <1>11, <1>16, <2>1
  <2> QED BY <1>7, <1>13, <1>16, <2>2
<1>17. CASE First(In(s)) = 0 /\ First(In(t)) = 0 /\ d = 0
  <2>1. Deep(s) = {} BY <1>8, <1>17, FirstIsSome DEF d
  <2>2. First(Deep(t)) \in {0, Len(t)} BY <1>8, <1>11, <2>1
  <2>3. MitigatedAt(s, z) = 0 BY <1>7, <1>17 DEF d
  <2> QED BY <1>7, <1>13, <1>17, <2>2, <2>3
<1>18. CASE First(In(s)) = 0 /\ First(In(t)) = 0 /\ d # 0 /\ depth(Len(t)) <= depth(d)
  <2>1. d \in Deep(s) /\ Deep(s) \subseteq Deep(t) BY <1>9, <1>11, <1>18
  <2>2. \A j \in Deep(t) \ Deep(s), k \in Deep(s) : k <= j BY <1>1, <1>8
  <2>3. Deep(t) \subseteq Nat \ {0} /\ Deep(s) # {} BY <1>8, <2>1
  <2>4. First(Deep(t)) = First(Deep(s)) BY <2>1, <2>2, <2>3, FirstKept
  <2> QED BY <1>7, <1>13, <1>18, <2>4
<1>19. CASE First(In(s)) = 0 /\ First(In(t)) = 0 /\ d # 0 /\ ~(depth(Len(t)) <= depth(d))
  <2>1. d \in Deep(s) /\ Deep(s) \intersect Deep(t) = {} BY <1>10, <1>11, <1>19
  <2>2. First(Deep(t)) \in {0, Len(t)} BY <1>8, <1>11, <2>1
  <2>3. Half(d) => Half(Len(t))
    <3>1. depth(d) \in Int /\ depth(Len(t)) \in Int /\ width \in Int BY <1>2, <1>3, <1>12, <1>19
    <3> HIDE DEF depth, width
    <3> QED BY <1>19, <3>1
  <2>4. MitigatedAt(s, z) = IF Half(d) THEN d ELSE 0 BY <1>7, <1>19 DEF d
  <2>5. First(Deep(t)) # 0 => MitigatedAt(t, z) = IF Half(Len(t)) THEN Len(t) ELSE 0
    BY <1>7, <1>19, <2>2
  <2>6. First(Deep(t)) = 0 => FALSE
    <3>1. Len(t) \in Deep(t)
      <4>1. \A l \in After(s, z) : depth(l) <= depth(d) BY <2>1, <1>6 DEF Deep
      <4>2. ASSUME NEW l \in After(t, z) PROVE depth(l) <= depth(Len(t))
        <5>1. depth(d) \in Int /\ depth(Len(t)) \in Int /\ depth(l) \in Int
          BY <1>2, <1>3, <1>12, <1>19
        <5>2. l \in After(s, z) \/ l = Len(t) BY <1>2
        <5>3. l \in After(s, z) => depth(l) <= depth(d) BY <4>1
        <5> HIDE DEF depth
        <5> QED BY <1>19, <5>1, <5>2, <5>3
      <4> QED BY <1>2, <1>6, <4>2 DEF Deep
    <3> QED BY <1>8, <3>1, FirstIsSome
  <2> HIDE DEF Half
  <2> QED BY <1>13, <2>2, <2>3, <2>4, <2>5, <2>6
<1>20. MitigatedAt(t, z) \in {MitigatedAt(s, z), Len(t)}
  BY <1>15, <1>16, <1>17, <1>18, <1>19
<1> QED BY <1>13, <1>20

\* The edges of a zone are prices.
LEMMA FormedPrices ==
  ASSUME ConstantsAssumption, ZoneAssumption, NEW s \in Seq(Bars), NEW z \in Formed(s)
  PROVE  z.low \in Int /\ z.high \in Int
<1>1. Len(s) \in Nat /\ Candle \in Nat \ {0} BY LenProperties DEF ZoneAssumption
<1>2. \A k : k \in Candles(s) <=> k \in Nat \ {0} /\ (k - 1) * Candle < Len(s)
  BY <1>1, CandlesOf
<1>3. ASSUME NEW k \in Candles(s) PROVE High(s, k) \in Int /\ Low(s, k) \in Int
  <2> DEFINE a == (k - 1) * Candle
             from == a + 1
             to == Smaller(k * Candle, Len(s))
  <2>1. k \in Nat \ {0} /\ a < Len(s) BY <1>2
  <2>2. a \in Nat /\ k * Candle \in Nat /\ k * Candle = a + Candle BY <1>1, <2>1
  <2>3. Seconds(s, k) = from..to BY DEF Seconds
  <2>4. from \in Nat /\ to \in Nat /\ 1 <= from /\ from <= to /\ to <= Len(s)
    <3> DEFINE c == k * Candle
    <3>1. a \in Nat /\ c \in Nat /\ c = a + Candle /\ a < Len(s) BY <2>1, <2>2
    <3> HIDE DEF a, c
    <3> QED BY <1>1, <3>1 DEF c, Smaller
  <2> HIDE DEF from, to
  <2>5. /\ \E j \in from..to : HighOf(s, from..to) = s[j].high
        /\ \E j \in from..to : LowOf(s, from..to) = s[j].low
    BY <2>4, PricesOfSpan
  <2>6. \A j \in from..to : s[j].high \in Int /\ s[j].low \in Int
    <3>1. \A j \in from..to : j \in 1..Len(s) BY <1>1, <2>4
    <3>2. \A j \in from..to : s[j] \in Bars BY <3>1, ElementOfSeq
    <3> QED BY <3>2 DEF ConstantsAssumption
  <2>7. HighOf(s, from..to) \in Int /\ LowOf(s, from..to) \in Int BY <2>5, <2>6
  <2> QED BY <2>3, <2>7 DEF High, Low
<1>4. ASSUME NEW k \in Candles(s), k > 2 PROVE k - 2 \in Candles(s)
  <2>1. k \in Nat \ {0} /\ (k - 1) * Candle < Len(s) BY <1>2
  <2>2. /\ (k - 2 - 1) * Candle \in Nat /\ (k - 1) * Candle \in Nat
        /\ (k - 2 - 1) * Candle <= (k - 1) * Candle
    <3>1. k - 2 - 1 \in Nat /\ k - 1 \in Nat /\ k - 2 - 1 <= k - 1 BY <1>4, <2>1
    <3> QED BY <1>1, <3>1
  <2> DEFINE a == (k - 1) * Candle
             b == (k - 2 - 1) * Candle
  <2>3. a \in Nat /\ b \in Nat /\ b <= a /\ a < Len(s) BY <2>1, <2>2
  <2> HIDE DEF a, b
  <2>4. b < Len(s) BY <1>1, <2>3
  <2>5. k - 2 \in Nat \ {0} BY <1>4, <2>1
  <2> QED BY <1>2, <2>4, <2>5 DEF b
<1>5. PICK k \in Candles(s) : \/ BullGap(s, k) /\ z = BullZone(s, k)
                              \/ BearGap(s, k) /\ z = BearZone(s, k)
  BY FormedByCandles
<1>6. k - 2 \in Candles(s) BY <1>4, <1>5 DEF BullGap, BearGap
<1> QED BY <1>3, <1>5, <1>6 DEF BullZone, BearZone

\* The seconds after the last whole bar are told of no break.
LEMMA QuietTail ==
  ASSUME ConstantsAssumption, NEW x, NEW y, Longer(y, x),
         NEW z, z.trigger \in 1..Len(x.bars), z.trigger >= LastSecond(Whole(x.bars))
  PROVE  RejectedAt(x.bars, x.breaks, {}, z) = 0
<1> DEFINE n == Whole(x.bars)
<1>1. /\ Extends(y.bars, x.bars) /\ Len(x.bars) \in Nat
      /\ \A k \in DOMAIN x.breaks : x.breaks[k].bar < n
  BY LongerExtends DEF Longer
<1>2. /\ n \in Nat /\ LastSecond(n) \in Nat
      /\ \A j \in 1..Len(x.bars) : ~(j <= LastSecond(n)) => ToldBar(j, n) = n
  BY <1>1, WholeBars
<1>3. ASSUME NEW j \in After(x.bars, z) PROVE EventAt(x.bars, x.breaks, {}, j) = "none"
  <2>1. j \in 1..Len(x.bars) /\ ~(j <= LastSecond(n))
    <3> DEFINE e == LastSecond(n)
    <3>1. e \in Nat /\ z.trigger >= e BY <1>2
    <3> HIDE DEF e
    <3> QED BY <1>1, <3>1 DEF After, e
  <2>2. ToldBar(j, Len(x.bars) \div Resample) = n BY <1>2, <2>1 DEF Whole
  <2>3. {k \in DOMAIN x.breaks : x.breaks[k].bar = n} = {} BY <1>1, <1>2
  <2>4. SweptAt({}, n) = {} BY DEF SweptAt
  <2> HIDE DEF n
  <2> QED BY <2>2, <2>3, <2>4 DEF EventAt
<1>4. "none" \notin Opposing(z.dir) BY DEF Opposing
<1>5. {j \in After(x.bars, z) : EventAt(x.bars, x.breaks, {}, j) \in Opposing(z.dir)} = {}
  BY <1>3, <1>4
<1> QED BY <1>5 DEF RejectedAt, First

\* What a longer series says of a zone that is live in it.
LEMMA LiveZone ==
  ASSUME ConstantsAssumption, ZoneAssumption, NEW x, NEW y, Longer(y, x),
         NEW z \in TestedZones(x), NEW u \in TestedZones(y), u.key = z.key, u.live,
         ~Passing(x, z)
  PROVE  /\ z.live
         /\ z.key.trigger \in 1..Len(x.bars)
         /\ z.inverted \in 0..Len(x.bars) /\ z.mitigated \in 0..Len(x.bars)
         /\ z.inverted # 0 => u.inverted = z.inverted
         /\ u.inverted \in {z.inverted, Len(y.bars)}
         /\ u.mitigated \in {z.mitigated, Len(y.bars)}
<1>1. /\ Follows(x.bars, y.bars, x.breaks, y.breaks, {}, {}) /\ Extends(y.bars, x.bars)
      /\ Whole(x.bars) > 0 /\ x.bars \in Seq(Bars)
  BY LongerExtends DEF Longer, Extends
<1>2. /\ z \in Detected(x.bars, x.breaks, {}) /\ u \in Detected(y.bars, y.breaks, {})
  BY DEF TestedZones
<1>3. z.key \in Formed(x.bars) /\ z.key.trigger \in 1..Len(x.bars) BY <1>1, <1>2, ZoneFields, FormedGrows
<1>4. z.live
  <2>1. Dead(z) => \/ Dead(u)
                   \/ z.superseded = Len(x.bars) /\ Unfinished(x.bars)
                   \/ /\ z.key.trigger >= LastSecond(Whole(x.bars))
                      /\ RejectedAt(x.bars, x.breaks, {}, z.key) # 0
    BY <1>1, <1>2, DetectedKept
  <2>2. Dead(z) => /\ z.key.trigger >= LastSecond(Whole(x.bars))
                   /\ RejectedAt(x.bars, x.breaks, {}, z.key) # 0
    BY <2>1 DEF Dead, Passing
  <2> QED BY <1>3, <2>2, QuietTail DEF Dead
<1>5. /\ z.superseded = 0
      /\ z.inverted = InvertedAt(x.bars, z.key) /\ z.mitigated = MitigatedAt(x.bars, z.key)
  BY <1>2, <1>4, ZoneFields DEF Dead
<1>6. /\ u.superseded = 0
      /\ u.inverted = InvertedAt(y.bars, z.key) /\ u.mitigated = MitigatedAt(y.bars, z.key)
  BY <1>2, ZoneFields DEF Dead
<1>7. z.key.low \in Int /\ z.key.high \in Int BY <1>1, <1>3, FormedPrices
<1>8. /\ InvertedAt(x.bars, z.key) \in 0..Len(x.bars)
      /\ InvertedAt(x.bars, z.key) = 0 => InvertedAt(y.bars, z.key) \in {0, Len(y.bars)}
  BY <1>1, <1>3, InversionIsNew
<1>9. /\ MitigatedAt(x.bars, z.key) \in 0..Len(x.bars)
      /\ MitigatedAt(y.bars, z.key) \in {MitigatedAt(x.bars, z.key), Len(y.bars)}
  BY <1>1, <1>3, <1>7, MitigationMoves
<1>10. z.inverted # 0 => u.inverted = z.inverted
  BY <1>1, <1>3, <1>5, <1>6, ScansKept
<1> QED BY <1>3, <1>4, <1>5, <1>6, <1>8, <1>9, <1>10

\* A retest at an earlier second follows what the shorter series has shown, and is
\* the one that it has found.
LEMMA RetestFound ==
  ASSUME ConstantsAssumption, ZoneAssumption, SignalsAssumption,
         NEW x, NEW y, Longer(y, x),
         NEW z \in TestedZones(x), NEW u \in TestedZones(y), u.key = z.key, u.live,
         ~Passing(x, z),
         \/ z.inverted # 0 /\ RetestAt(x, z) # 0
         \/ RetestAt(y, u) \notin {0, Len(y.bars)}
  PROVE  /\ u.inverted = z.inverted
         /\ Anchor(u) = Anchor(z)
         /\ RetestAt(y, u) = RetestAt(x, z)
         /\ RetestAt(x, z) \in 1..Len(x.bars)
<1>1. /\ z.live /\ z.key.trigger \in 1..Len(x.bars)
      /\ z.inverted \in 0..Len(x.bars) /\ z.mitigated \in 0..Len(x.bars)
      /\ z.inverted # 0 => u.inverted = z.inverted
      /\ u.inverted \in {z.inverted, Len(y.bars)}
      /\ u.mitigated \in {z.mitigated, Len(y.bars)}
  BY LiveZone
<1>2. Len(x.bars) \in Nat /\ Len(y.bars) = Len(x.bars) + 1 BY LongerExtends
<1>3. ASSUME Anchor(u) = Len(y.bars) PROVE RetestAt(y, u) = 0
  <2>1. RetestAge \in Nat BY DEF SignalsAssumption
  <2>2. (Len(y.bars) + 1)..Smaller(Len(y.bars), Len(y.bars) + RetestAge) = {}
    <3>1. Len(y.bars) \in Nat /\ Len(y.bars) + RetestAge \in Int BY <1>2, <2>1
    <3> QED BY <3>1, NoneBetween
  <2> QED BY <1>3, <2>2 DEF RetestAt, First
<1>4. u.inverted = z.inverted /\ Anchor(u) = Anchor(z) /\ Anchor(z) \in 1..Len(x.bars)
  <2>1. CASE z.inverted # 0
    <3>1. u.inverted = z.inverted BY <1>1, <2>1
    <3>2. z.inverted \in 1..Len(x.bars)
      <4>1. PICK i \in 0..Len(x.bars) : z.inverted = i BY <1>1
      <4> QED BY <1>2, <2>1, <4>1
    <3>3. Anchor(z) = z.inverted BY <2>1 DEF Anchor
    <3>4. Anchor(u) = u.inverted BY <2>1, <3>1 DEF Anchor
    <3> QED BY <3>1, <3>2, <3>3, <3>4
  <2>2. CASE z.inverted = 0
    <3>1. RetestAt(y, u) # 0 BY <2>2
    <3>2. Anchor(u) # Len(y.bars) BY <1>3, <3>1
    <3>3. u.inverted = 0
      <4>1. u.inverted # 0 => Anchor(u) = u.inverted BY DEF Anchor
      <4> QED BY <1>1, <2>2, <3>2, <4>1
    <3>4. Anchor(u) = Larger(u.mitigated, z.key.trigger) BY <3>3 DEF Anchor
    <3>5. u.mitigated # Len(y.bars)
      <4>1. u.mitigated = Len(y.bars) => Larger(u.mitigated, z.key.trigger) = Len(y.bars)
        BY <1>1, <1>2, LargerOfTwo
      <4> QED BY <3>2, <3>4, <4>1
    <3>6. u.mitigated = z.mitigated BY <1>1, <3>5
    <3>7. Anchor(z) = Larger(z.mitigated, z.key.trigger) BY <2>2 DEF Anchor
    <3>8. Larger(z.mitigated, z.key.trigger) \in 1..Len(x.bars)
      BY <1>1, <1>2, LargerOfTwo
    <3> QED BY <2>2, <3>3, <3>4, <3>6, <3>7, <3>8
  <2> QED BY <2>1, <2>2
<1>5. /\ RetestAt(x, z) # 0 => RetestAt(y, u) = RetestAt(x, z)
      /\ RetestAt(x, z) \in 0..Len(x.bars)
      /\ RetestAt(y, u) # 0 => RetestAt(y, u) = RetestAt(x, z) \/ RetestAt(y, u) = Len(y.bars)
  BY <1>4, RetestKept
<1>6. RetestAt(y, u) = RetestAt(x, z) /\ RetestAt(x, z) # 0 BY <1>5
<1> QED BY <1>2, <1>4, <1>5, <1>6

-----------------------------------------------------------------------------
\* The entry on the retest of an inverted zone stays while the zone is live and the
\* trend of its second is settled.
LEMMA InverseKept ==
  ASSUME ConstantsAssumption, ZoneAssumption, SignalsAssumption,
         NEW x, NEW y, Longer(y, x),
         NEW z \in TestedZones(x), NEW u \in TestedZones(y), u.key = z.key, u.live,
         z.inverted # 0, NEW e \in Retest(x, z), ~(e.at > SettledIn(x, y))
  PROVE  e \in Retest(y, u)
<1> DEFINE j == RetestAt(x, z)
<1>1. /\ j # 0 /\ e = [source |-> Source(z), zone |-> z.key, at |-> j, dir |-> Side(z)]
      /\ Touches(x, z.key) >= MinTouches
      /\ z.inverted - z.key.trigger >= MinInversionAge
      /\ RecentlyAnchored(x, z)
      /\ FollowsBias(x, j, Side(z), z.inverted # 0 /\ ReversesBias)
      /\ z.live
  BY DEF Retest
<1>0. z.key.trigger \in 1..Len(x.bars) /\ ~Passing(x, z)
  <2>1. /\ z.key \in Formed(x.bars) /\ z.superseded = 0 /\ Extends(y.bars, x.bars)
        /\ Len(x.bars) \in Nat
    BY <1>1, ZoneFields, LongerExtends DEF TestedZones, Dead
  <2>2. z.key.trigger \in 1..Len(x.bars) BY <2>1, FormedGrows
  <2> QED BY <2>1, <2>2 DEF Passing
<1>2. /\ u.inverted = z.inverted /\ Anchor(u) = Anchor(z)
      /\ RetestAt(y, u) = j /\ j \in 1..Len(x.bars)
  BY <1>0, <1>1, RetestFound
<1>3. j <= SettledIn(x, y)
  <2>1. e.at = j BY <1>1
  <2>2. SettledIn(x, y) \in Int BY LongerExtends
  <2> HIDE DEF j
  <2> QED BY <1>2, <2>1, <2>2
<1>4. Touches(y, z.key) >= MinTouches
  <2>1. /\ Touches(x, z.key) \in Nat /\ Touches(y, z.key) \in Nat
        /\ Touches(x, z.key) <= Touches(y, z.key)
    BY <1>0, TouchesGrow
  <2>2. MinTouches \in Nat BY DEF SignalsAssumption
  <2> QED BY <1>1, <2>1, <2>2
<1>5. Source(u) = Source(z) /\ Side(u) = Side(z) BY <1>2 DEF Source, Side
<1>6. RecentlyAnchored(y, u) BY <1>1, <1>2 DEF RecentlyAnchored
<1>7. FollowsBias(y, j, Side(z), z.inverted # 0 /\ ReversesBias) BY <1>1, <1>2, <1>3, BiasKept
<1> HIDE DEF j
<1> QED BY <1>1, <1>2, <1>4, <1>5, <1>6, <1>7 DEF Retest

\* The entry on the retest of an inverted zone does not move when more data arrives
\* (InverseEntriesAreFinal), for any series and settings, candles and structure bars of
\* any length.
THEOREM InverseEntriesFinal ==
  ASSUME ConstantsAssumption, ZoneAssumption, SignalsAssumption
  PROVE  ZoneSpec => InverseEntriesAreFinal
<1>1. ASSUME NEW x, NEW y, Longer(y, x), NEW e \in InverseEntries(x) \ InverseEntries(y),
             NEW u \in TestedZones(y), u.key = e.zone, u.live
      PROVE  e.at > SettledIn(x, y)
  <2> SUFFICES ASSUME ~(e.at > SettledIn(x, y)) PROVE FALSE OBVIOUS
  <2>1. PICK z \in TestedZones(x) : e \in Retest(x, z) BY DEF InverseEntries
  <2>2. e.source = "ifvg" /\ e.source = Source(z) /\ e.zone = z.key
    <3>1. e.source = "ifvg" BY DEF InverseEntries
    <3>2. e.source = Source(z) /\ e.zone = z.key BY <2>1 DEF Retest
    <3> QED BY <3>1, <3>2
  <2>3. z.inverted # 0 BY <2>2 DEF Source
  <2>4. e \in Retest(y, u) BY <1>1, <2>1, <2>2, <2>3, InverseKept
  <2>5. e \in InverseEntries(y) BY <2>2, <2>4 DEF InverseEntries
  <2> QED BY <1>1, <2>5
<1>2. ASSUME ZoneInv, NEW tick \in Bars, NextSecond(tick), Warm, NEW gate \in Gates,
             NEW e \in InverseEntries(Series(gate)) \ InverseEntries(Series(gate)')
      PROVE  \/ ~\E y \in TestedZones(Series(gate)') : y.key = e.zone /\ y.live
             \/ e.at > Settled(gate)
  <2>1. /\ Longer(Series(gate)', Series(gate))
        /\ SettledIn(Series(gate), Series(gate)') = Settled(gate)
    BY <1>2, SeriesGrows
  <2> QED BY <1>1, <1>2, <2>1
<1>3. ZoneInv /\ [ZoneNext]_zoneVars =>
        [Warm => \A gate \in Gates :
           LET old == Series(gate)
               new == Series(gate)'
           IN \A e \in InverseEntries(old) \ InverseEntries(new) :
                \/ ~\E y \in TestedZones(new) : y.key = e.zone /\ y.live
                \/ e.at > Settled(gate)]_zoneVars
  BY <1>2 DEF ZoneNext
<1>4. ZoneInit => ZoneInv BY InitZoneInv
<1>5. ZoneInv /\ [ZoneNext]_zoneVars => ZoneInv' BY NextZoneInv
<1> QED BY <1>3, <1>4, <1>5, PTL DEF ZoneSpec, InverseEntriesAreFinal

\* A retest entry that a longer series tells at a settled second is told by the
\* shorter one too, which has the zone, not superseded by a passing one, and has seen
\* it touched often enough.
LEMMA RetestTold ==
  ASSUME ConstantsAssumption, ZoneAssumption, SignalsAssumption,
         NEW x, NEW y, Longer(y, x),
         NEW z \in TestedZones(x), NEW u \in TestedZones(y), u.key = z.key,
         Touches(x, z.key) >= MinTouches, ~Passing(x, z),
         NEW e \in Retest(y, u), ~(e.at > SettledIn(x, y))
  PROVE  e \in Retest(x, z)
<1> DEFINE j == RetestAt(y, u)
<1>1. /\ u.live /\ j # 0
      /\ e = [source |-> Source(u), zone |-> u.key, at |-> j, dir |-> Side(u)]
      /\ u.inverted # 0 => u.inverted - u.key.trigger >= MinInversionAge
      /\ RecentlyAnchored(y, u)
      /\ FollowsBias(y, j, Side(u), u.inverted # 0 /\ ReversesBias)
  BY DEF Retest
<1>0. /\ Len(x.bars) \in Nat /\ Len(y.bars) = Len(x.bars) + 1
      /\ SettledIn(x, y) \in 0..Len(x.bars)
  BY LongerExtends
<1>2. j \notin {0, Len(y.bars)}
  <2>1. Len(y.bars) > SettledIn(x, y) BY <1>0
  <2>2. e.at # Len(y.bars) BY <2>1
  <2> QED BY <1>1, <2>2
<1>3. /\ u.inverted = z.inverted /\ Anchor(u) = Anchor(z)
      /\ j = RetestAt(x, z) /\ j \in 1..Len(x.bars)
  BY <1>1, <1>2, RetestFound
<1>4. z.live BY <1>1, LiveZone
<1>8. j <= SettledIn(x, y)
  <2>1. e.at = j BY <1>1
  <2> HIDE DEF j
  <2> QED BY <1>0, <1>3, <2>1
<1>5. Source(u) = Source(z) /\ Side(u) = Side(z) BY <1>3 DEF Source, Side
<1>6. RecentlyAnchored(x, z)
  <2>1. ASSUME Lookback > 0, z.inverted = 0 PROVE z.mitigated # 0
    <3>1. u.mitigated # 0 BY <1>1, <1>3, <2>1 DEF RecentlyAnchored
    <3>2. z.mitigated \in 0..Len(x.bars) /\ u.mitigated \in {z.mitigated, Len(y.bars)}
          /\ z.key.trigger \in 1..Len(x.bars)
      BY <1>1, LiveZone
    <3>3. Len(x.bars) \in Nat /\ Len(y.bars) = Len(x.bars) + 1 BY <1>0
    <3>4. u.mitigated # Len(y.bars)
      <4>1. ASSUME u.mitigated = Len(y.bars) PROVE FALSE
        <5>1. Anchor(u) = Len(y.bars)
          <6>1. Anchor(u) = Larger(u.mitigated, z.key.trigger) BY <1>3, <2>1 DEF Anchor
          <6>2. u.mitigated = Len(x.bars) + 1 BY <3>3, <4>1
          <6> QED BY <3>2, <3>3, <6>1, <6>2, LargerOfTwo
        <5>2. Anchor(z) \in 1..Len(x.bars)
          BY <2>1, <3>2, <3>3, LargerOfTwo DEF Anchor
        <5> QED BY <1>3, <3>3, <5>1, <5>2
      <4> QED BY <4>1
    <3> QED BY <3>1, <3>2, <3>4
  <2> QED BY <1>1, <1>3, <2>1 DEF RecentlyAnchored
<1>7. FollowsBias(x, j, Side(z), z.inverted # 0 /\ ReversesBias)
  BY <1>1, <1>3, <1>5, <1>8, BiasKept
<1> HIDE DEF j
<1> QED BY <1>1, <1>3, <1>4, <1>5, <1>6, <1>7 DEF Retest

\* So is the stop order at a zone.
LEMMA SweepOrderTold ==
  ASSUME ConstantsAssumption, ZoneAssumption, NEW x, NEW y, Longer(y, x),
         NEW z \in TestedZones(x), NEW u \in TestedZones(y), u.key = z.key,
         ~Passing(x, z), NEW e \in SweepOrders(y, u), ~(e.at > SettledIn(x, y))
  PROVE  e \in SweepOrders(x, z)
<1>1. u.live BY DEF SweepOrders
<1>2. z.live /\ z.key.trigger \in 1..Len(x.bars) BY <1>1, LiveZone
<1>3. /\ Len(x.bars) \in Nat /\ Len(y.bars) = Len(x.bars) + 1
      /\ SettledIn(x, y) \in 0..Len(x.bars)
  BY LongerExtends
<1> DEFINE j == Smaller(z.key.trigger + 1, Len(y.bars))
<1>4. e.at = j BY DEF SweepOrders
<1>5. j = z.key.trigger + 1 BY <1>2, <1>3 DEF Smaller
<1>6. j \in 1..Len(x.bars) /\ j <= SettledIn(x, y)
  <2>1. PICK t \in 1..Len(x.bars) : z.key.trigger = t BY <1>2
  <2>2. ~(t + 1 > SettledIn(x, y)) BY <1>4, <1>5, <2>1
  <2>3. t + 1 \in 1..Len(x.bars) /\ t + 1 <= SettledIn(x, y) BY <1>3, <2>2
  <2> QED BY <1>5, <2>1, <2>3
<1>7. Smaller(z.key.trigger + 1, Len(x.bars)) = j BY <1>2, <1>3, <1>5, <1>6 DEF Smaller
<1>8. \A reverse : FollowsBias(y, j, z.key.dir, reverse) <=> FollowsBias(x, j, z.key.dir, reverse)
  BY <1>6, BiasKept
<1>9. PICK source \in {"fvg", "ifvg"} :
        /\ z.key.high - z.key.low >= MinSweepWidth
        /\ FollowsBias(y, j, z.key.dir, source = "ifvg" /\ ReversesBias)
        /\ e = [source |-> source, zone |-> z.key, at |-> j, dir |-> z.key.dir]
  BY DEF SweepOrders
<1>10. FollowsBias(x, j, z.key.dir, source = "ifvg" /\ ReversesBias) BY <1>8, <1>9
<1> HIDE DEF j
<1> QED BY <1>2, <1>7, <1>9, <1>10 DEF SweepOrders

\* An entry that more data adds at a settled second is at a zone that was not there,
\* was touched too seldom or was superseded by one of the unfinished candle
\* (BackdatedEntries), for any series and settings, candles and structure bars of any
\* length.
THEOREM BackdatedEntriesExplained ==
  ASSUME ConstantsAssumption, ZoneAssumption, SignalsAssumption
  PROVE  ZoneSpec => BackdatedEntries
<1>1. ASSUME NEW x, NEW y, Longer(y, x), NEW e \in ZoneEntries(y) \ ZoneEntries(x)
      PROVE  \/ e.at > SettledIn(x, y)
             \/ ~\E z \in TestedZones(x) : z.key = e.zone
             \/ Touches(x, e.zone) < MinTouches
             \/ \E z \in TestedZones(x) : z.key = e.zone /\ Passing(x, z)
  <2> SUFFICES ASSUME ~(e.at > SettledIn(x, y)), NEW z \in TestedZones(x), z.key = e.zone,
                      ~(Touches(x, e.zone) < MinTouches), ~Passing(x, z)
               PROVE  FALSE
    OBVIOUS
  <2>1. PICK u \in TestedZones(y) : e \in Retest(y, u) \union SweepOrders(y, u)
    BY <1>1 DEF ZoneEntries
  <2>2. u.key = z.key BY <2>1 DEF Retest, SweepOrders
  <2>3. Touches(x, z.key) >= MinTouches
    <3>1. z.key.trigger \in 1..Len(x.bars)
      <4>1. z.key \in Formed(x.bars) /\ Extends(y.bars, x.bars)
        BY <1>1, ZoneFields, LongerExtends DEF TestedZones
      <4> QED BY <4>1, FormedGrows
    <3>2. Touches(x, z.key) \in Nat BY <1>1, <3>1, TouchesGrow
    <3>3. MinTouches \in Nat BY DEF SignalsAssumption
    <3> QED BY <3>2, <3>3
  <2>4. e \in Retest(x, z) \union SweepOrders(x, z)
    BY <1>1, <2>1, <2>2, <2>3, RetestTold, SweepOrderTold
  <2> QED BY <1>1, <2>4 DEF ZoneEntries
<1>2. ASSUME ZoneInv, NEW tick \in Bars, NextSecond(tick), Warm, NEW gate \in Gates,
             NEW e \in ZoneEntries(Series(gate)') \ ZoneEntries(Series(gate))
      PROVE  \/ e.at > Settled(gate)
             \/ ~\E z \in TestedZones(Series(gate)) : z.key = e.zone
             \/ Touches(Series(gate), e.zone) < MinTouches
             \/ \E z \in TestedZones(Series(gate)) : z.key = e.zone /\ Provisional(z)
  <2>1. /\ Longer(Series(gate)', Series(gate))
        /\ SettledIn(Series(gate), Series(gate)') = Settled(gate)
    BY <1>2, SeriesGrows
  <2>2. \A z : Passing(Series(gate), z) <=> Provisional(z) BY DEF Passing, Provisional, Series
  <2> QED BY <1>1, <1>2, <2>1, <2>2
<1>3. ZoneInv /\ [ZoneNext]_zoneVars =>
        [Warm => \A gate \in Gates :
           LET old == Series(gate)
               new == Series(gate)'
           IN \A e \in ZoneEntries(new) \ ZoneEntries(old) :
                \/ e.at > Settled(gate)
                \/ ~\E z \in TestedZones(old) : z.key = e.zone
                \/ Touches(old, e.zone) < MinTouches
                \/ \E z \in TestedZones(old) : z.key = e.zone /\ Provisional(z)]_zoneVars
  BY <1>2 DEF ZoneNext
<1>4. ZoneInit => ZoneInv BY InitZoneInv
<1>5. ZoneInv /\ [ZoneNext]_zoneVars => ZoneInv' BY NextZoneInv
<1> QED BY <1>3, <1>4, <1>5, PTL DEF ZoneSpec, BackdatedEntries

-----------------------------------------------------------------------------
\* Opening ranges and what follows them.
LEMMA DayAndClock ==
  ASSUME SignalsAssumption, NEW j \in Nat \ {0}
  PROVE  Day(j) \in Nat /\ Clock(j) \in Nat /\ j - 1 = DayLength * Day(j) + Clock(j)
<1>1. DayLength \in Nat \ {0} BY DEF SignalsAssumption
<1>2. ASSUME NEW a \in Nat, NEW b \in Nat \ {0}
      PROVE  a \div b \in Nat /\ a % b \in 0..(b - 1) /\ a = b * (a \div b) + (a % b)
  OBVIOUS
<1>3. j - 1 \in Nat OBVIOUS
<1>4. /\ (j - 1) \div DayLength \in Nat /\ (j - 1) % DayLength \in 0..(DayLength - 1)
      /\ j - 1 = DayLength * ((j - 1) \div DayLength) + ((j - 1) % DayLength)
  BY <1>1, <1>2, <1>3
<1>5. (j - 1) % DayLength \in Nat BY <1>1, <1>4
<1> QED BY <1>4, <1>5 DEF Day, Clock

\* Of two seconds of a day, the later one has the later time.
LEMMA ClockRuns ==
  ASSUME SignalsAssumption, NEW j \in Nat \ {0}, NEW k \in Nat \ {0}, j < k, Day(j) = Day(k)
  PROVE  Clock(j) < Clock(k)
<1>1. /\ j - 1 = DayLength * Day(j) + Clock(j) /\ Clock(j) \in Nat
      /\ k - 1 = DayLength * Day(k) + Clock(k) /\ Clock(k) \in Nat
  BY DayAndClock
<1>2. DayLength * Day(j) \in Int
  <2>1. DayLength \in Nat /\ Day(j) \in Nat BY DayAndClock DEF SignalsAssumption
  <2> QED BY <2>1
<1> QED BY <1>1, <1>2

\* The first close beyond a range stays the first, since the range is complete by then.
LEMMA BreakoutKept ==
  ASSUME ConstantsAssumption, SignalsAssumption, NEW x, NEW y, Longer(y, x), NEW d, NEW side
  PROVE  /\ BreaksOut(x, d, side) \in 0..Len(x.bars)
         /\ BreaksOut(x, d, side) # 0 =>
              /\ BreaksOut(y, d, side) = BreaksOut(x, d, side)
              /\ OpeningRange(y, d) = OpeningRange(x, d)
              /\ Day(BreaksOut(x, d, side)) = d
         /\ BreaksOut(x, d, side) = 0 => BreaksOut(y, d, side) \in {0, Len(y.bars)}
<1> DEFINE n == Len(x.bars)
           Out(w) == {j \in PastOpening(w, d) :
                        \A k \in OpeningRange(w, d) : Beyond(side, w.bars[j].close, Extreme(w.bars, side, k))}
<1>1. /\ n \in Nat /\ Len(y.bars) = n + 1 /\ DOMAIN x.bars = 1..n /\ DOMAIN y.bars = 1..(n + 1)
      /\ \A k \in 1..n : y.bars[k] = x.bars[k]
  BY LenProperties, LongerExtends DEF Extends
<1> HIDE DEF n
<1>2. /\ PastOpening(x, d) = {j \in 1..n : Day(j) = d /\ RangeStart + RangeLength <= Clock(j)}
      /\ PastOpening(y, d) = {j \in 1..(n + 1) : Day(j) = d /\ RangeStart + RangeLength <= Clock(j)}
      /\ OpeningRange(x, d) = {j \in 1..n : Day(j) = d /\ RangeStart <= Clock(j)
                                             /\ Clock(j) < RangeStart + RangeLength}
      /\ OpeningRange(y, d) = {j \in 1..(n + 1) : Day(j) = d /\ RangeStart <= Clock(j)
                                                   /\ Clock(j) < RangeStart + RangeLength}
  BY <1>1 DEF PastOpening, OpeningRange
<1>3. ASSUME NEW j \in PastOpening(x, d) PROVE OpeningRange(y, d) = OpeningRange(x, d)
  <2>1. j \in Nat \ {0} /\ n + 1 \in Nat \ {0} /\ j < n + 1 /\ Day(j) = d
        /\ RangeStart + RangeLength <= Clock(j)
    <3>1. j \in 1..n /\ Day(j) = d /\ RangeStart + RangeLength <= Clock(j) BY <1>2, <1>3
    <3>2. n \in Nat BY <1>1
    <3> QED BY <3>1, <3>2
  <2>2. Clock(j) \in Nat /\ Clock(n + 1) \in Nat /\ RangeStart + RangeLength \in Nat
    BY <2>1, DayAndClock DEF SignalsAssumption
  <2>3. n + 1 \notin OpeningRange(y, d)
    <3>1. Day(n + 1) = d => Clock(j) < Clock(n + 1) BY <2>1, ClockRuns
    <3>2. n + 1 \in OpeningRange(y, d) =>
            Day(n + 1) = d /\ Clock(n + 1) < RangeStart + RangeLength
      BY <1>2
    <3>3. ~(Clock(j) < Clock(n + 1) /\ Clock(n + 1) < RangeStart + RangeLength)
      BY <2>1, <2>2
    <3> QED BY <3>1, <3>2, <3>3
  <2> QED BY <1>1, <1>2, <2>3
<1>4. \A j \in PastOpening(x, d) : j \in Out(x) <=> j \in Out(y)
  <2> SUFFICES ASSUME NEW j \in PastOpening(x, d) PROVE j \in Out(x) <=> j \in Out(y)
    OBVIOUS
  <2>1. OpeningRange(y, d) = OpeningRange(x, d) BY <1>3
  <2>2. j \in 1..n /\ j \in PastOpening(y, d) BY <1>1, <1>2
  <2>3. \A k \in OpeningRange(x, d) : Extreme(y.bars, side, k) = Extreme(x.bars, side, k)
    BY <1>1, <1>2 DEF Extreme
  <2> QED BY <1>1, <2>1, <2>2, <2>3
<1>5. /\ Out(x) \subseteq Out(y) /\ Out(y) \subseteq Out(x) \union {n + 1}
      /\ Out(y) \subseteq 1..(n + 1) /\ Out(x) \subseteq 1..n
      /\ \A j \in Out(x) : Day(j) = d /\ j \in PastOpening(x, d)
  <2>1. ASSUME NEW j \in PastOpening(y, d) PROVE j \in PastOpening(x, d) \/ j = n + 1
    <3>1. j \in 1..(n + 1) /\ Day(j) = d /\ RangeStart + RangeLength <= Clock(j) BY <1>2
    <3>2. j \in 1..n \/ j = n + 1 BY <1>1, <3>1
    <3> QED BY <1>2, <3>1, <3>2
  <2>2. PastOpening(x, d) \subseteq PastOpening(y, d) /\ PastOpening(x, d) \subseteq 1..n
        /\ PastOpening(y, d) \subseteq 1..(n + 1)
    BY <1>1, <1>2
  <2>3. \A j \in Out(x) : Day(j) = d BY <1>2
  <2> QED BY <1>4, <2>1, <2>2, <2>3
<1>6. BreaksOut(x, d, side) = First(Out(x)) /\ BreaksOut(y, d, side) = First(Out(y))
  BY DEF BreaksOut
<1> HIDE DEF Out
<1>7. First(Out(x)) \in 0..n /\ (First(Out(x)) # 0 => First(Out(x)) \in Out(x))
  BY <1>1, <1>5, FirstInRange
<1>8. ASSUME First(Out(x)) # 0
      PROVE  First(Out(y)) = First(Out(x)) /\ OpeningRange(y, d) = OpeningRange(x, d)
  <2>1. First(Out(x)) \in Out(x) BY <1>7, <1>8
  <2>2. Out(y) \subseteq Nat \ {0} /\ Out(x) # {} /\ (\A j \in Out(y) \ Out(x), k \in Out(x) : k <= j)
    BY <1>1, <1>5, <2>1
  <2>3. First(Out(y)) = First(Out(x)) BY <1>5, <2>2, FirstKept
  <2> QED BY <1>3, <1>5, <2>1, <2>3
<1>9. ASSUME First(Out(x)) = 0 PROVE First(Out(y)) \in {0, n + 1}
  <2>1. Out(x) \subseteq Nat \ {0} BY <1>1, <1>5
  <2>2. Out(x) = {} BY <1>9, <2>1, FirstIsSome
  <2>3. Out(y) \subseteq {n + 1} /\ Out(y) \subseteq 1..(n + 1) /\ n + 1 \in Nat BY <1>1, <1>5, <2>2
  <2>4. First(Out(y)) # 0 => First(Out(y)) \in Out(y) BY <2>3, FirstInRange
  <2> QED BY <2>3, <2>4
<1> QED BY <1>1, <1>5, <1>6, <1>7, <1>8, <1>9 DEF n

LEMMA OrbKept ==
  ASSUME ConstantsAssumption, SignalsAssumption, NEW x, NEW y, Longer(y, x)
  PROVE  {e \in OrbEntries(y) : e.at <= SettledIn(x, y)} =
         {e \in OrbEntries(x) : e.at <= SettledIn(x, y)}
<1> DEFINE n == Len(x.bars)
           S == SettledIn(x, y)
           Days(w) == {d \in {Day(j) : j \in DOMAIN w.bars} : OpeningRange(w, d) # {}}
           RangeExit(w, d, side) == [at |-> BreaksOut(w, d, side), dir |-> Direction(side)]
<1>1. /\ n \in Nat /\ Len(y.bars) = n + 1 /\ DOMAIN x.bars = 1..n /\ DOMAIN y.bars = 1..(n + 1)
  BY LenProperties, LongerExtends DEF Extends
<1>0. S \in 0..n BY LongerExtends
<1>2. ASSUME NEW w
      PROVE  \A e : e \in OrbEntries(w) <=>
               \E d \in Days(w), side \in Sides :
                 /\ e = RangeExit(w, d, side) /\ BreaksOut(w, d, side) # 0
                 /\ FollowsBias(w, BreaksOut(w, d, side), Direction(side), FALSE)
  <2> DEFINE All == {[at |-> BreaksOut(w, p[1], p[2]), dir |-> Direction(p[2])] : p \in Days(w) \X Sides}
  <2>1. OrbEntries(w) = {e \in All : e.at # 0 /\ FollowsBias(w, e.at, e.dir, FALSE)}
    BY DEF OrbEntries
  <2>2. \A e : e \in All <=> \E d \in Days(w), side \in Sides : e = RangeExit(w, d, side)
    <3>1. ASSUME NEW d \in Days(w), NEW side \in Sides PROVE RangeExit(w, d, side) \in All
      <4>1. <<d, side>> \in Days(w) \X Sides OBVIOUS
      <4>2. <<d, side>>[1] = d /\ <<d, side>>[2] = side OBVIOUS
      <4> HIDE DEF Days
      <4> QED BY <4>1, <4>2
    <3>2. ASSUME NEW e \in All PROVE \E d \in Days(w), side \in Sides : e = RangeExit(w, d, side)
      <4>1. PICK p \in Days(w) \X Sides : e = RangeExit(w, p[1], p[2]) OBVIOUS
      <4>2. p[1] \in Days(w) /\ p[2] \in Sides OBVIOUS
      <4> QED BY <4>1, <4>2
    <3> HIDE DEF All, Days, RangeExit
    <3> QED BY <3>1, <3>2
  <2>3. \A d, side : /\ RangeExit(w, d, side).at = BreaksOut(w, d, side)
                     /\ RangeExit(w, d, side).dir = Direction(side)
    OBVIOUS
  <2> HIDE DEF All, Days
  <2>4. ASSUME NEW e \in OrbEntries(w)
        PROVE  \E d \in Days(w), side \in Sides :
                 /\ e = RangeExit(w, d, side) /\ BreaksOut(w, d, side) # 0
                 /\ FollowsBias(w, BreaksOut(w, d, side), Direction(side), FALSE)
    <3>1. e \in All /\ e.at # 0 /\ FollowsBias(w, e.at, e.dir, FALSE) BY <2>1
    <3>2. PICK d \in Days(w), side \in Sides : e = RangeExit(w, d, side) BY <2>2, <3>1
    <3>3. e.at = BreaksOut(w, d, side) /\ e.dir = Direction(side) BY <2>3, <3>2
    <3> QED BY <3>1, <3>2, <3>3
  <2>5. ASSUME NEW d \in Days(w), NEW side \in Sides, BreaksOut(w, d, side) # 0,
               FollowsBias(w, BreaksOut(w, d, side), Direction(side), FALSE)
        PROVE  RangeExit(w, d, side) \in OrbEntries(w)
    BY <2>1, <2>2, <2>3, <2>5
  <2> HIDE DEF RangeExit
  <2> QED BY <2>4, <2>5
<1>3. ASSUME NEW d, NEW side, BreaksOut(x, d, side) # 0
      PROVE  /\ BreaksOut(y, d, side) = BreaksOut(x, d, side)
             /\ BreaksOut(x, d, side) \in 1..n
             /\ d \in Days(y) <=> d \in Days(x)
  <2>1. /\ BreaksOut(y, d, side) = BreaksOut(x, d, side) /\ BreaksOut(x, d, side) \in 0..n
        /\ OpeningRange(y, d) = OpeningRange(x, d) /\ Day(BreaksOut(x, d, side)) = d
    BY <1>3, BreakoutKept
  <2>2. BreaksOut(x, d, side) \in 1..n BY <1>1, <1>3, <2>1
  <2>3. BreaksOut(x, d, side) \in 1..(n + 1) BY <1>1, <2>2
  <2>4. d \in {Day(j) : j \in DOMAIN x.bars} /\ d \in {Day(j) : j \in DOMAIN y.bars}
    BY <1>1, <2>1, <2>2, <2>3
  <2> QED BY <2>1, <2>2, <2>4
<1>4. ASSUME NEW d, NEW side, BreaksOut(x, d, side) # 0, BreaksOut(x, d, side) <= S
      PROVE  FollowsBias(y, BreaksOut(x, d, side), Direction(side), FALSE) <=>
             FollowsBias(x, BreaksOut(x, d, side), Direction(side), FALSE)
  BY <1>3, <1>4, BiasKept
<1>5. \A d, side : BreaksOut(x, d, side) = 0 => BreaksOut(y, d, side) \in {0, n + 1}
  BY <1>1, BreakoutKept
<1> HIDE DEF Days, n, S
<1>6. ASSUME NEW e \in OrbEntries(x), e.at <= S PROVE e \in OrbEntries(y)
  <2>1. PICK d \in Days(x), side \in Sides :
          /\ e = RangeExit(x, d, side) /\ BreaksOut(x, d, side) # 0
          /\ FollowsBias(x, BreaksOut(x, d, side), Direction(side), FALSE)
    BY <1>2
  <2>2. d \in Days(y) /\ BreaksOut(y, d, side) = BreaksOut(x, d, side) BY <1>3, <2>1
  <2>3. e = RangeExit(y, d, side) BY <2>1, <2>2
  <2>4. BreaksOut(x, d, side) <= S BY <1>6, <2>1
  <2>5. FollowsBias(y, BreaksOut(x, d, side), Direction(side), FALSE) BY <1>4, <2>1, <2>4
  <2> QED BY <1>2, <2>1, <2>2, <2>3, <2>5
<1>7. ASSUME NEW e \in OrbEntries(y), e.at <= S PROVE e \in OrbEntries(x)
  <2>1. PICK d \in Days(y), side \in Sides :
          /\ e = RangeExit(y, d, side) /\ BreaksOut(y, d, side) # 0
          /\ FollowsBias(y, BreaksOut(y, d, side), Direction(side), FALSE)
    BY <1>2
  <2>2. e.at = BreaksOut(y, d, side) BY <2>1
  <2>3. BreaksOut(x, d, side) # 0 BY <1>0, <1>1, <1>5, <1>7, <2>1, <2>2
  <2>4. d \in Days(x) /\ BreaksOut(y, d, side) = BreaksOut(x, d, side) BY <1>3, <2>1, <2>3
  <2>5. e = RangeExit(x, d, side) BY <2>1, <2>4
  <2>6. FollowsBias(x, BreaksOut(x, d, side), Direction(side), FALSE)
    BY <1>4, <1>7, <2>1, <2>2, <2>3, <2>4
  <2> QED BY <1>2, <2>1, <2>3, <2>4, <2>5, <2>6
<1> QED BY <1>6, <1>7 DEF S

\* A spring or an upthrust looks at its own second and those before it.
LEMMA FailsKept ==
  ASSUME ConstantsAssumption, SignalsAssumption, NEW x, NEW y, Longer(y, x),
         NEW j \in 1..Len(x.bars), NEW side
  PROVE  Fails(y, j, side) <=> Fails(x, j, side)
<1>1. /\ Len(x.bars) \in Nat /\ RangeLookback \in Nat
      /\ \A k \in 1..Len(x.bars) : y.bars[k] = x.bars[k]
  <2>1. RangeLookback \in Nat BY DEF SignalsAssumption
  <2> QED BY <2>1, LongerExtends DEF Extends
<1>2. j > RangeLookback => (j - RangeLookback)..(j - 1) \subseteq 1..Len(x.bars) BY <1>1
<1>3. \A k \in 1..Len(x.bars) : Extreme(y.bars, side, k) = Extreme(x.bars, side, k)
  BY <1>1 DEF Extreme
<1>4. y.bars[j].close = x.bars[j].close BY <1>1
<1>5. CASE j > RangeLookback
  <2> DEFINE before == (j - RangeLookback)..(j - 1)
  <2>1. \A k \in before : Extreme(y.bars, side, k) = Extreme(x.bars, side, k) BY <1>2, <1>3, <1>5
  <2> HIDE DEF before
  <2>2. (\A k \in before : Beyond(side, Extreme(y.bars, side, j),
                                  Extreme(y.bars, side, k) + Direction(side) * SpringBreak)) <=>
        (\A k \in before : Beyond(side, Extreme(x.bars, side, j),
                                  Extreme(x.bars, side, k) + Direction(side) * SpringBreak))
    BY <1>3, <2>1
  <2>3. (\E k \in before : Beyond(side, Extreme(y.bars, side, k), y.bars[j].close)) <=>
        (\E k \in before : Beyond(side, Extreme(x.bars, side, k), x.bars[j].close))
    BY <1>4, <2>1
  <2> QED BY <2>2, <2>3 DEF Fails, before
<1>6. CASE ~(j > RangeLookback) BY <1>6 DEF Fails
<1> QED BY <1>5, <1>6

LEMMA WyckoffKept ==
  ASSUME ConstantsAssumption, SignalsAssumption, NEW x, NEW y, Longer(y, x)
  PROVE  {e \in WyckoffEntries(y) : e.at <= SettledIn(x, y)} =
         {e \in WyckoffEntries(x) : e.at <= SettledIn(x, y)}
<1> DEFINE n == Len(x.bars)
           S == SettledIn(x, y)
           Fade(w, j) == [at |-> j, dir |-> IF Fails(w, j, "low") THEN 1 ELSE -1]
           Told(w, j) == /\ Fails(w, j, "low") \/ Fails(w, j, "high")
                         /\ FollowsBias(w, j, IF Fails(w, j, "low") THEN 1 ELSE -1, FALSE)
<1>1. /\ n \in Nat /\ DOMAIN x.bars = 1..n /\ DOMAIN y.bars = 1..(n + 1)
  BY LenProperties, LongerExtends DEF Extends
<1>0. S \in 0..n BY LongerExtends
<1>2. ASSUME NEW w
      PROVE  \A e : e \in WyckoffEntries(w) <=> \E j \in DOMAIN w.bars : e = Fade(w, j) /\ Told(w, j)
  <2> DEFINE Failing == {k \in DOMAIN w.bars : Fails(w, k, "low") \/ Fails(w, k, "high")}
             All == {Fade(w, j) : j \in Failing}
  <2>1. WyckoffEntries(w) = {e \in All : FollowsBias(w, e.at, e.dir, FALSE)}
    BY DEF WyckoffEntries
  <2>2. /\ \A j \in Failing : Fade(w, j) \in All
        /\ \A e \in All : \E j \in Failing : e = Fade(w, j)
    <3> HIDE DEF Failing, Fade
    <3> QED OBVIOUS
  <2>3. \A j : /\ Fade(w, j).at = j
               /\ Fade(w, j).dir = IF Fails(w, j, "low") THEN 1 ELSE -1
    OBVIOUS
  <2> HIDE DEF All
  <2>4. ASSUME NEW e \in WyckoffEntries(w)
        PROVE  \E j \in DOMAIN w.bars : e = Fade(w, j) /\ Told(w, j)
    <3>1. e \in All /\ FollowsBias(w, e.at, e.dir, FALSE) BY <2>1
    <3>2. PICK j \in Failing : e = Fade(w, j) BY <2>2, <3>1
    <3>3. e.at = j /\ e.dir = IF Fails(w, j, "low") THEN 1 ELSE -1 BY <2>3, <3>2
    <3>4. j \in DOMAIN w.bars /\ Told(w, j) BY <3>1, <3>2, <3>3
    <3> HIDE DEF Fade, Told
    <3> QED BY <3>2, <3>4
  <2>5. ASSUME NEW j \in DOMAIN w.bars, Told(w, j) PROVE Fade(w, j) \in WyckoffEntries(w)
    <3>1. j \in Failing BY <2>5
    <3>2. Fade(w, j) \in All BY <2>2, <3>1
    <3>3. FollowsBias(w, Fade(w, j).at, Fade(w, j).dir, FALSE) BY <2>3, <2>5
    <3> HIDE DEF Fade, Told
    <3> QED BY <2>1, <3>2, <3>3
  <2> HIDE DEF Fade, Told
  <2> QED BY <2>4, <2>5
<1>3. \A j \in 1..n : \A side : Fails(y, j, side) <=> Fails(x, j, side) BY FailsKept
<1>4. \A j \in 1..n : Fade(y, j) = Fade(x, j) BY <1>3
<1>5. ASSUME NEW j \in 1..n, j <= S PROVE Told(y, j) <=> Told(x, j)
  <2>1. /\ FollowsBias(y, j, 1, FALSE) <=> FollowsBias(x, j, 1, FALSE)
        /\ FollowsBias(y, j, -1, FALSE) <=> FollowsBias(x, j, -1, FALSE)
    BY <1>5, BiasKept
  <2> QED BY <1>3, <2>1
<1>6. \A w, j : Fade(w, j).at = j OBVIOUS
<1> HIDE DEF Fade, Told, n, S
<1>7. ASSUME NEW e \in WyckoffEntries(x), e.at <= S PROVE e \in WyckoffEntries(y)
  <2>1. PICK j \in 1..n : e = Fade(x, j) /\ Told(x, j) BY <1>1, <1>2
  <2>2. j \in DOMAIN y.bars /\ j <= S BY <1>1, <1>6, <1>7, <2>1
  <2> QED BY <1>2, <1>4, <1>5, <2>1, <2>2
<1>8. ASSUME NEW e \in WyckoffEntries(y), e.at <= S PROVE e \in WyckoffEntries(x)
  <2>1. PICK j \in 1..(n + 1) : e = Fade(y, j) /\ Told(y, j) BY <1>1, <1>2
  <2>2. j <= S BY <1>6, <1>8, <2>1
  <2>3. j \in 1..n BY <1>0, <1>1, <2>1, <2>2
  <2> QED BY <1>1, <1>2, <1>4, <1>5, <2>1, <2>2, <2>3
<1> QED BY <1>7, <1>8 DEF S

\* Breakouts, springs and upthrusts at settled seconds do not look ahead
\* (RangeEntriesAreCausal), for any series and settings, structure bars of any length.
THEOREM RangeEntriesCausal ==
  ASSUME ConstantsAssumption, ZoneAssumption, SignalsAssumption
  PROVE  ZoneSpec => RangeEntriesAreCausal
<1> DEFINE Exits(x) == OrbEntries(x) \union WyckoffEntries(x)
           Told(x, gate) == {e \in Exits(x) : e.at <= Settled(gate)}
<1>1. ASSUME NEW x, NEW y, Longer(y, x)
      PROVE  {e \in Exits(y) : e.at <= SettledIn(x, y)} = {e \in Exits(x) : e.at <= SettledIn(x, y)}
  <2>1. /\ {e \in OrbEntries(y) : e.at <= SettledIn(x, y)} =
             {e \in OrbEntries(x) : e.at <= SettledIn(x, y)}
        /\ {e \in WyckoffEntries(y) : e.at <= SettledIn(x, y)} =
             {e \in WyckoffEntries(x) : e.at <= SettledIn(x, y)}
    BY <1>1, OrbKept, WyckoffKept
  <2> QED BY <2>1
<1>2. ASSUME ZoneInv, NEW tick \in Bars, NextSecond(tick), Warm, NEW gate \in Gates
      PROVE  Told(Series(gate)', gate) = Told(Series(gate), gate)
  <2>1. /\ Longer(Series(gate)', Series(gate))
        /\ SettledIn(Series(gate), Series(gate)') = Settled(gate)
    BY <1>2, SeriesGrows
  <2> HIDE DEF Exits
  <2> QED BY <1>1, <2>1
<1>3. ZoneInv /\ [ZoneNext]_zoneVars =>
        [Warm => \A gate \in Gates : Told(Series(gate)', gate) = Told(Series(gate), gate)]_zoneVars
  <2> HIDE DEF Told
  <2> QED BY <1>2 DEF ZoneNext
<1>4. ZoneInit => ZoneInv BY InitZoneInv
<1>5. ZoneInv /\ [ZoneNext]_zoneVars => ZoneInv' BY NextZoneInv
<1> QED BY <1>3, <1>4, <1>5, PTL DEF ZoneSpec, RangeEntriesAreCausal
==============================================================================
