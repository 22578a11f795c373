--------------------------- MODULE FvgZonesProofs ---------------------------
(***************************************************************************)
(* Proofs about what two successive windows say of the same zone, for any  *)
(* ticks and thresholds, candles and structure bars of any length, the     *)
(* unfinished ones among them; and that the index arithmetic of the scan   *)
(* finds the first run of piercing closes.                                 *)
(***************************************************************************)
EXTENDS FvgZones, MarketStructureProofs

-----------------------------------------------------------------------------
\* The first second of a set stays the first when only later ones are added.
LEMMA FirstKept ==
  ASSUME NEW S, NEW T, T \subseteq Nat \ {0}, S \subseteq T, S # {},
         \A x \in T \ S, y \in S : y <= x
  PROVE  /\ First(T) = First(S)
         /\ First(S) \in S /\ First(S) # 0
<1>1. Least(S) \in S /\ \A y \in S : Least(S) <= y BY LeastExists
<1>2. T # {} OBVIOUS
<1>3. Least(T) \in T /\ \A y \in T : Least(T) <= y BY <1>2, LeastExists
<1>4. Least(T) = Least(S)
  <2>1. Least(S) <= Least(T) BY <1>1, <1>3
  <2>2. Least(T) <= Least(S) BY <1>1, <1>3
  <2>3. Least(S) \in Nat /\ Least(T) \in Nat BY <1>1, <1>3
  <2> QED BY <2>1, <2>2, <2>3
<1> QED BY <1>1, <1>2, <1>4 DEF First

\* A non-empty set of seconds has a first one.
LEMMA FirstIsSome ==
  ASSUME NEW S, S \subseteq Nat \ {0}
  PROVE  /\ First(S) # 0 <=> S # {}
         /\ First(S) # 0 => First(S) \in S /\ \A y \in S : First(S) <= y
         /\ First(S) \in Nat
<1>1. CASE S = {} BY <1>1 DEF First
<1>2. CASE S # {}
  <2>1. First(S) = Least(S) BY <1>2 DEF First
  <2>2. Least(S) \in S /\ \A y \in S : Least(S) <= y BY <1>2, LeastExists
  <2> QED BY <1>2, <2>1, <2>2
<1> QED BY <1>1, <1>2

\* Quotients, which count whole candles and bars.
LEMMA Quotient ==
  ASSUME NEW a \in Nat, NEW b \in Nat \ {0}
  PROVE  /\ a \div b \in Nat /\ a % b \in 0..(b - 1) /\ a = b * (a \div b) + (a % b)
         /\ \A k \in Nat : k <= a \div b <=> b * k <= a
<1>1. a \div b \in Nat /\ a % b \in 0..(b - 1) /\ a = b * (a \div b) + (a % b) OBVIOUS
<1>2. ASSUME NEW k \in Nat PROVE k <= a \div b <=> b * k <= a
  <2> DEFINE q == a \div b
             r == a % b
  <2>1. q \in Nat /\ r \in 0..(b - 1) /\ a = b * q + r BY <1>1
  <2> HIDE DEF q, r
  <2>2. b * q \in Int /\ b * k \in Int BY <2>1
  <2>3. k <= q => b * k <= b * q BY <2>1
  <2>4. ASSUME ~(k <= q) PROVE ~(b * k <= a)
    <3>1. q + 1 <= k BY <2>1, <2>4
    <3>2. b * (q + 1) <= b * k BY <2>1, <3>1
    <3>3. b * (q + 1) = b * q + b BY <2>1
    <3> QED BY <2>1, <2>2, <3>2, <3>3
  <2>5. k <= q <=> b * k <= a BY <2>1, <2>2, <2>3, <2>4
  <2> QED BY <2>5 DEF q
<1> QED BY <1>1, <1>2

\* One more second completes a bar or not.
LEMMA QuotientGrows ==
  ASSUME NEW a \in Nat, NEW b \in Nat \ {0}
  PROVE  (a + 1) \div b = IF (a + 1) % b = 0 THEN a \div b + 1 ELSE a \div b
<1> DEFINE p == a \div b
           q == (a + 1) \div b
           r == (a + 1) % b
           u == a % b
<1>1. p \in Nat /\ q \in Nat /\ r \in 0..(b - 1) /\ u \in 0..(b - 1)
      /\ a = b * p + u /\ a + 1 = b * q + r
  BY Quotient
<1> HIDE DEF p, q, r, u
<1>2. b * p \in Int /\ b * q \in Int BY <1>1
<1>3. ASSUME q <= p - 1 PROVE FALSE
  <2>1. b * q <= b * (p - 1) BY <1>1, <1>3
  <2>2. b * (p - 1) = b * p - b BY <1>1
  <2> QED BY <1>1, <1>2, <2>1, <2>2
<1>4. ASSUME q >= p + 2 PROVE FALSE
  <2>1. b * q >= b * (p + 2) BY <1>1, <1>4
  <2>2. b * (p + 2) = b * p + b + b BY <1>1
  <2> QED BY <1>1, <1>2, <2>1, <2>2
<1>5. ASSUME q = p PROVE r # 0
  BY <1>1, <1>2, <1>5
<1>6. ASSUME q = p + 1 PROVE r = 0
  <2>1. b * q = b * p + b BY <1>1, <1>6
  <2> QED BY <1>1, <1>2, <2>1
<1>7. q = IF r = 0 THEN p + 1 ELSE p BY <1>1, <1>3, <1>4, <1>5, <1>6
<1> QED BY <1>7 DEF p, q, r

-----------------------------------------------------------------------------
\* The highest and the lowest price of some seconds are prices of theirs.
LEMMA PricesOfSpan ==
  ASSUME ConstantsAssumption, NEW s \in Seq(Bars), NEW from \in Nat, NEW to \in Nat,
         1 <= from, from <= to, to <= Len(s)
  PROVE  /\ \E j \in from..to : HighOf(s, from..to) = s[j].high
         /\ \E j \in from..to : LowOf(s, from..to) = s[j].low
         /\ \A j \in from..to : LowOf(s, from..to) <= s[j].low /\ s[j].high <= HighOf(s, from..to)
<1> DEFINE span == from..to
           H == {s[j].high : j \in span}
           L == {s[j].low : j \in span}
<1>1. \A j \in span : s[j] \in Bars /\ s[j].high \in Int /\ s[j].low \in Int
  <2>1. \A j \in span : j \in 1..Len(s) BY LenProperties
  <2>2. \A j \in span : s[j] \in Bars BY <2>1, ElementOfSeq
  <2> QED BY <2>2 DEF ConstantsAssumption
<1>2. "high" \in Sides /\ "low" \in Sides BY DEF Sides
<1>3. PICK j \in span : \A l \in span : ~Beyond("high", Extreme(s, "high", l), Extreme(s, "high", j))
  <2>1. \A k \in from..to : Extreme(s, "high", k) \in Int BY <1>1 DEF Extreme
  <2> QED BY <1>2, <2>1, ExtremeExists
<1>4. PICK k \in span : \A l \in span : ~Beyond("low", Extreme(s, "low", l), Extreme(s, "low", k))
  <2>1. \A l \in from..to : Extreme(s, "low", l) \in Int BY <1>1 DEF Extreme
  <2> QED BY <1>2, <2>1, ExtremeExists
<1>5. \A l \in span : s[l].high <= s[j].high /\ s[k].low <= s[l].low
  <2>1. \A l \in span : ~(s[l].high > s[j].high) /\ ~(s[l].low < s[k].low)
    BY <1>3, <1>4 DEF Beyond, Extreme
  <2> QED BY <1>1, <2>1
<1>6. /\ s[j].high \in H /\ \A y \in H : y <= s[j].high
      /\ s[k].low \in L /\ \A y \in L : s[k].low <= y
  BY <1>5
<1>7. HighOf(s, span) = (CHOOSE x \in H : \A y \in H : y <= x)
      /\ LowOf(s, span) = (CHOOSE x \in L : \A y \in L : x <= y)
  BY DEF HighOf, LowOf
<1>8. /\ \A y \in H : \E l \in span : y = s[l].high
      /\ \A y \in L : \E l \in span : y = s[l].low
      /\ \A l \in span : s[l].high \in H /\ s[l].low \in L
  OBVIOUS
<1> HIDE DEF H, L
<1>9. /\ HighOf(s, span) \in H /\ \A y \in H : y <= HighOf(s, span)
      /\ LowOf(s, span) \in L /\ \A y \in L : LowOf(s, span) <= y
  BY <1>6, <1>7
<1> HIDE DEF span
<1>10. /\ \E l \in span : HighOf(s, span) = s[l].high
       /\ \E l \in span : LowOf(s, span) = s[l].low
       /\ \A l \in span : LowOf(s, span) <= s[l].low /\ s[l].high <= HighOf(s, span)
  BY <1>8, <1>9
<1> QED BY <1>10 DEF span

\* Seconds that complete a structure bar make one of Bars.
LEMMA StructureBarIsBar ==
  ASSUME ConstantsAssumption, ZoneAssumption, NEW s \in Seq(Bars), Resample <= Len(s)
  PROVE  StructureBar(s) \in Bars
<1> DEFINE from == Len(s) - Resample + 1
           to == Len(s)
           span == from..to
<1>1. /\ Resample \in Nat \ {0} /\ Len(s) \in Nat
      /\ from \in Nat /\ to \in Nat /\ 1 <= from /\ from <= to /\ to <= Len(s) /\ to \in from..to
  BY LenProperties DEF ConstantsAssumption
<1>2. StructureBar(s) = [high |-> HighOf(s, span), low |-> LowOf(s, span), close |-> s[to].close]
  BY DEF StructureBar
<1>3. \A l \in span : s[l] \in Bars
  <2>1. \A l \in span : l \in 1..Len(s) BY <1>1
  <2> QED BY <2>1, ElementOfSeq
<1> HIDE DEF from, to
<1>4. /\ \E l \in span : HighOf(s, span) = s[l].high
      /\ \E l \in span : LowOf(s, span) = s[l].low
      /\ \A l \in span : LowOf(s, span) <= s[l].low /\ s[l].high <= HighOf(s, span)
  BY <1>1, PricesOfSpan
<1>5. PICK j \in span, k \in span : HighOf(s, span) = s[j].high /\ LowOf(s, span) = s[k].low
  BY <1>4
<1>6. to \in span BY <1>1
<1> HIDE DEF span
<1>7. s[j] \in Bars /\ s[k] \in Bars /\ s[to] \in Bars BY <1>3, <1>6
<1>8. \A bar \in Bars : /\ bar.high \in Int /\ bar.low \in Int /\ bar.close \in Int
                        /\ bar.low <= bar.close /\ bar.close <= bar.high
  BY DEF ConstantsAssumption
<1>9. s[k].low <= s[to].close /\ s[to].close <= s[j].high
  <2>1. s[k].low <= s[to].low /\ s[to].high <= s[j].high BY <1>4, <1>5, <1>6
  <2>2. /\ s[to].low <= s[to].close /\ s[to].close <= s[to].high
        /\ s[to].low \in Int /\ s[to].high \in Int /\ s[to].close \in Int
        /\ s[k].low \in Int /\ s[j].high \in Int
    BY <1>7, <1>8
  <2> QED BY <2>1, <2>2
<1>10. [high |-> s[j].high, low |-> s[k].low, close |-> s[to].close] \in Bars
  BY <1>7, <1>9 DEF ZoneAssumption
<1> QED BY <1>2, <1>5, <1>10

-----------------------------------------------------------------------------
\* Whole structure bars of a window.
Whole(s) == Len(s) \div Resample

\* The window is made of ticks, and its structure bars are those that are over.
ZoneInv ==
  /\ IInv
  /\ seconds \in Seq(Bars)
  /\ Len(bars) = Whole(seconds)

LEMMA InitZoneInv == ASSUME ConstantsAssumption PROVE ZoneInit => ZoneInv
<1> SUFFICES ASSUME ZoneInit PROVE ZoneInv OBVIOUS
<1>1. IInv /\ bars = <<>> /\ seconds = <<>> BY InitIInv DEF ZoneInit, Init
<1>2. Resample \in Nat \ {0} BY DEF ConstantsAssumption
<1>3. Len(seconds) = 0 /\ Len(bars) = 0 /\ seconds \in Seq(Bars) BY <1>1
<1>4. 0 \div Resample = 0
  <2>1. 0 \div Resample \in Nat /\ 0 = Resample * (0 \div Resample) + (0 % Resample)
        /\ 0 % Resample \in 0..(Resample - 1)
    BY <1>2, Quotient
  <2> DEFINE q == 0 \div Resample
             r == 0 % Resample
  <2>2. q \in Nat /\ r \in Nat /\ 0 = Resample * q + r BY <2>1, <1>2
  <2> HIDE DEF q, r
  <2>3. ASSUME q >= 1 PROVE FALSE
    <3>1. Resample * q >= Resample BY <1>2, <2>2, <2>3
    <3>2. Resample * q \in Int BY <1>2, <2>2
    <3> QED BY <1>2, <2>2, <3>1, <3>2
  <2>4. q = 0 BY <2>2, <2>3
  <2> QED BY <2>4 DEF q
<1> QED BY <1>1, <1>3, <1>4 DEF ZoneInv, Whole

\* A second adds itself and, if it completes one, a structure bar.
LEMMA SecondStep ==
  ASSUME ConstantsAssumption, ZoneAssumption, ZoneInv, NEW tick \in Bars, NextSecond(tick)
  PROVE  /\ ZoneInv'
         /\ Extends(seconds', seconds)
         /\ Len(bars) = Whole(seconds) /\ Len(bars') = Whole(seconds')
         /\ \/ UNCHANGED vars
            \/ /\ Extends(bars', bars) /\ Len(bars') = Len(bars) + 1
               /\ \E bar \in Bars : NextBar(bar)
<1> DEFINE s == Append(seconds, tick)
<1>1. /\ seconds \in Seq(Bars) /\ Len(seconds) \in Nat /\ Resample \in Nat \ {0} /\ seconds' = s
      /\ s \in Seq(Bars) /\ Len(s) = Len(seconds) + 1
      /\ \A k \in 1..Len(seconds) : s[k] = seconds[k]
  BY LenProperties DEF ZoneInv, NextSecond, ConstantsAssumption
<1>2. Extends(seconds', seconds) BY <1>1 DEF Extends
<1>3. Whole(s) = IF Len(s) % Resample = 0 THEN Whole(seconds) + 1 ELSE Whole(seconds)
  BY <1>1, QuotientGrows DEF Whole
<1>4. Len(bars) = Whole(seconds) /\ IInv BY DEF ZoneInv
<1>5. CASE Len(s) % Resample # 0
  <2>1. UNCHANGED vars BY <1>1, <1>5 DEF NextSecond
  <2>2. IInv' BY <1>4, <2>1, NextIInv
  <2>3. Len(bars') = Whole(seconds') BY <1>1, <1>3, <1>4, <1>5, <2>1 DEF vars
  <2> QED BY <1>1, <1>2, <1>4, <2>1, <2>2, <2>3 DEF ZoneInv
<1>6. CASE Len(s) % Resample = 0
  <2>1. NextBar(StructureBar(s)) BY <1>1, <1>6 DEF NextSecond
  <2>2. Resample <= Len(s)
    <3>0. Len(s) \in Nat /\ Len(seconds) \in Nat /\ Resample \in Nat \ {0} BY <1>1
    <3> HIDE DEF s
    <3>1. Whole(s) \in Nat /\ Whole(seconds) \in Nat BY <3>0, Quotient DEF Whole
    <3>2. 1 <= Whole(s) BY <1>3, <1>6, <3>1
    <3>3. Resample * 1 <= Len(s) BY <3>0, <3>2, Quotient DEF Whole
    <3> QED BY <3>0, <3>3
  <2>3. StructureBar(s) \in Bars BY <1>1, <2>2, StructureBarIsBar
  <2>4. IInv' BY <1>4, <2>1, <2>3, NextIInv DEF Next
  <2>5. Extends(bars', bars) BY <1>4, <2>1, <2>3, WindowStep
  <2>6. Len(bars') = Len(bars) + 1 BY <2>5 DEF Extends
  <2>7. Len(bars') = Whole(seconds') BY <1>1, <1>3, <1>4, <1>6, <2>6
  <2> QED BY <1>1, <1>2, <1>4, <2>1, <2>3, <2>4, <2>5, <2>6, <2>7 DEF ZoneInv
<1> QED BY <1>5, <1>6

LEMMA NextZoneInv == ASSUME ConstantsAssumption, ZoneAssumption PROVE ZoneInv /\ [ZoneNext]_zoneVars => ZoneInv'
<1> SUFFICES ASSUME ZoneInv, [ZoneNext]_zoneVars PROVE ZoneInv' OBVIOUS
<1>1. CASE ZoneNext BY <1>1, SecondStep DEF ZoneNext
<1>2. CASE UNCHANGED zoneVars
  <2>1. UNCHANGED vars /\ seconds' = seconds BY <1>2 DEF zoneVars
  <2>2. IInv' BY <2>1, NextIInv DEF ZoneInv
  <2>3. bars' = bars BY <2>1 DEF vars
  <2> QED BY <2>1, <2>2, <2>3 DEF ZoneInv, Whole
<1> QED BY <1>1, <1>2

-----------------------------------------------------------------------------
\* A candle is there as soon as its first second is.
LEMMA CandlesOf ==
  ASSUME ZoneAssumption, NEW s, Len(s) \in Nat
  PROVE  \A k : k \in Candles(s) <=> k \in Nat \ {0} /\ (k - 1) * Candle < Len(s)
<1> DEFINE n == Len(s)
           c == Candle
<1>1. n \in Nat /\ c \in Nat \ {0} BY DEF ZoneAssumption
<1>2. Candles(s) = 1..((n + c - 1) \div c) BY DEF Candles
<1> HIDE DEF n, c
<1>3. n + c - 1 \in Nat BY <1>1
<1>4. /\ (n + c - 1) \div c \in Nat
      /\ \A k \in Nat : k <= (n + c - 1) \div c <=> c * k <= n + c - 1
  BY <1>1, <1>3, Quotient
<1>5. \A k \in Nat \ {0} : c * k = (k - 1) * c + c /\ (k - 1) * c \in Int BY <1>1
<1>6. \A k \in Nat \ {0} : c * k <= n + c - 1 <=> (k - 1) * c < n
  <2> TAKE k \in Nat \ {0}
  <2>1. c * k = (k - 1) * c + c /\ (k - 1) * c \in Int BY <1>5
  <2> HIDE DEF c
  <2> QED BY <1>1, <2>1
<1>7. \A k : k \in 1..((n + c - 1) \div c) <=> k \in Nat \ {0} /\ k <= (n + c - 1) \div c
  BY <1>4
<1>8. \A k : k \in Candles(s) <=> k \in Nat \ {0} /\ (k - 1) * c < n
  BY <1>2, <1>4, <1>6, <1>7
<1> QED BY <1>8 DEF n, c

\* A candle that is over is not changed, the others end with the window.
LEMMA CandlesKept ==
  ASSUME ZoneAssumption, NEW s, NEW t, Extends(t, s)
  PROVE  /\ Candles(s) \subseteq Candles(t) /\ Candles(s) \subseteq Nat \ {0}
         /\ \A k \in Candles(s) : Trigger(s, k) \in 1..Len(s)
         /\ \A k \in Candles(t), m \in Nat \ {0} : m < k => m \in Candles(s) /\ m * Candle <= Len(s)
         /\ \A k \in Candles(s) : k * Candle <= Len(s) =>
              /\ High(t, k) = High(s, k) /\ Low(t, k) = Low(s, k) /\ Trigger(t, k) = Trigger(s, k)
         /\ \A k \in Candles(t) : \/ k \in Candles(s) /\ k * Candle <= Len(s)
                                  \/ Trigger(t, k) = Len(t)
         /\ \A k \in Candles(s) : \/ k * Candle <= Len(s)
                                  \/ Trigger(s, k) = Len(s) /\ Unfinished(s)
<1>1. /\ Len(s) \in Nat /\ Len(t) = Len(s) + 1 /\ Candle \in Nat \ {0}
      /\ \A k \in 1..Len(s) : t[k] = s[k]
  BY LenProperties DEF Extends, ZoneAssumption
<1>2. /\ \A k : k \in Candles(s) <=> k \in Nat \ {0} /\ (k - 1) * Candle < Len(s)
      /\ \A k : k \in Candles(t) <=> k \in Nat \ {0} /\ (k - 1) * Candle < Len(s) + 1
  BY <1>1, CandlesOf
<1>3. \A k \in Nat \ {0} : /\ k * Candle \in Nat \ {0} /\ (k - 1) * Candle \in Nat
                           /\ k * Candle = (k - 1) * Candle + Candle
  BY <1>1
<1>4. Candles(s) \subseteq Candles(t) /\ Candles(s) \subseteq Nat \ {0}
  <2> SUFFICES ASSUME NEW k \in Candles(s) PROVE k \in Candles(t) /\ k \in Nat \ {0}
    OBVIOUS
  <2>1. k \in Nat \ {0} /\ (k - 1) * Candle < Len(s) BY <1>2
  <2>2. (k - 1) * Candle \in Nat BY <1>3, <2>1
  <2>3. (k - 1) * Candle < Len(s) + 1 BY <1>1, <2>1, <2>2
  <2> QED BY <1>2, <2>1, <2>3
<1>5. ASSUME NEW k \in Candles(s) PROVE Trigger(s, k) \in 1..Len(s)
  <2>1. k \in Nat \ {0} /\ (k - 1) * Candle < Len(s) BY <1>2
  <2>2. k * Candle \in Nat \ {0} /\ (k - 1) * Candle \in Nat BY <1>3, <2>1
  <2> DEFINE a == k * Candle
             b == (k - 1) * Candle
  <2>3. a \in Nat \ {0} /\ b \in Nat /\ b < Len(s) /\ Trigger(s, k) = Smaller(a, Len(s))
    BY <2>1, <2>2 DEF Trigger
  <2> HIDE DEF a, b
  <2> QED BY <1>1, <2>3 DEF Smaller
<1>6. ASSUME NEW k \in Candles(t), NEW m \in Nat \ {0}, m < k
      PROVE  m \in Candles(s) /\ m * Candle <= Len(s)
  <2>1. k \in Nat \ {0} /\ (k - 1) * Candle < Len(s) + 1 BY <1>2
  <2>2. m * Candle <= (k - 1) * Candle
    <3>1. m <= k - 1 /\ k - 1 \in Nat BY <1>6, <2>1
    <3> QED BY <1>1, <3>1
  <2>3. /\ m * Candle \in Nat /\ (m - 1) * Candle \in Nat /\ (k - 1) * Candle \in Nat
        /\ m * Candle = (m - 1) * Candle + Candle
    BY <1>3, <2>1
  <2> DEFINE a == m * Candle
             b == (m - 1) * Candle
             d == (k - 1) * Candle
  <2>4. a <= d /\ d < Len(s) + 1 /\ a \in Nat /\ b \in Nat /\ d \in Nat /\ a = b + Candle
    BY <2>1, <2>2, <2>3
  <2> HIDE DEF a, b, d
  <2>5. a <= Len(s) /\ b < Len(s) BY <1>1, <2>4
  <2> QED BY <1>2, <2>5 DEF a, b
<1>7. ASSUME NEW k \in Candles(s), k * Candle <= Len(s)
      PROVE  High(t, k) = High(s, k) /\ Low(t, k) = Low(s, k) /\ Trigger(t, k) = Trigger(s, k)
  <2>1. k \in Nat \ {0} BY <1>2
  <2>2. k * Candle \in Nat \ {0} /\ (k - 1) * Candle \in Nat BY <1>3, <2>1
  <2> DEFINE a == k * Candle
             b == (k - 1) * Candle
  <2>3. a \in Nat /\ b \in Nat /\ a <= Len(s) BY <1>7, <2>2
  <2>4. /\ Trigger(s, k) = Smaller(a, Len(s)) /\ Trigger(t, k) = Smaller(a, Len(t))
        /\ Seconds(s, k) = (b + 1)..Smaller(a, Len(s)) /\ Seconds(t, k) = (b + 1)..Smaller(a, Len(t))
    BY DEF Trigger, Seconds
  <2> HIDE DEF a, b
  <2>5. Smaller(a, Len(s)) = a /\ Smaller(a, Len(t)) = a BY <1>1, <2>3 DEF Smaller
  <2>6. Seconds(t, k) = Seconds(s, k) /\ Seconds(s, k) \subseteq 1..Len(s) BY <1>1, <2>3, <2>4, <2>5
  <2>7. /\ {t[j].high : j \in Seconds(t, k)} = {s[j].high : j \in Seconds(s, k)}
        /\ {t[j].low : j \in Seconds(t, k)} = {s[j].low : j \in Seconds(s, k)}
    BY <1>1, <2>6
  <2> QED BY <2>4, <2>5, <2>7 DEF High, Low, HighOf, LowOf
<1>8. ASSUME NEW k \in Candles(t), ~(k \in Candles(s) /\ k * Candle <= Len(s))
      PROVE  Trigger(t, k) = Len(t)
  <2>1. k \in Nat \ {0} /\ (k - 1) * Candle < Len(s) + 1 BY <1>2
  <2>2. /\ k * Candle \in Nat /\ (k - 1) * Candle \in Nat
        /\ k * Candle = (k - 1) * Candle + Candle
    BY <1>3, <2>1
  <2> DEFINE a == k * Candle
             b == (k - 1) * Candle
  <2>3. /\ a \in Nat /\ b \in Nat /\ a = b + Candle /\ b < Len(s) + 1
        /\ ~(b < Len(s) /\ a <= Len(s))
        /\ Trigger(t, k) = Smaller(a, Len(t))
    BY <1>2, <1>8, <2>1, <2>2 DEF Trigger
  <2> HIDE DEF a, b
  <2>4. a >= Len(t) BY <1>1, <2>3
  <2> QED BY <1>1, <2>3, <2>4 DEF Smaller
<1>9. ASSUME NEW k \in Candles(s), ~(k * Candle <= Len(s))
      PROVE  Trigger(s, k) = Len(s) /\ Unfinished(s)
  <2>1. k * Candle \in Nat BY <1>2, <1>3
  <2>2. k * Candle > Len(s) BY <1>1, <1>9, <2>1
  <2> DEFINE a == k * Candle
  <2>3. a \in Nat /\ a > Len(s) /\ Trigger(s, k) = Smaller(a, Len(s)) BY <2>1, <2>2 DEF Trigger
  <2> HIDE DEF a
  <2>4. Trigger(s, k) = Len(s) BY <1>1, <2>3 DEF Smaller
  <2> QED BY <2>2, <2>4 DEF Unfinished
<1> QED BY <1>4, <1>5, <1>6, <1>7, <1>8, <1>9

\* The zone that a candle forms, if it does.
BullZone(s, k) == [trigger |-> Trigger(s, k), dir |-> 1, low |-> High(s, k - 2), high |-> Low(s, k)]
BearZone(s, k) == [trigger |-> Trigger(s, k), dir |-> -1, low |-> High(s, k), high |-> Low(s, k - 2)]

LEMMA FormedByCandles ==
  ASSUME NEW s
  PROVE  /\ \A z \in Formed(s) : \E k \in Candles(s) : \/ BullGap(s, k) /\ z = BullZone(s, k)
                                                       \/ BearGap(s, k) /\ z = BearZone(s, k)
         /\ \A k \in Candles(s) : /\ BullGap(s, k) => BullZone(s, k) \in Formed(s)
                                  /\ BearGap(s, k) => BearZone(s, k) \in Formed(s)
         /\ \A k : BullZone(s, k).trigger = Trigger(s, k) /\ BearZone(s, k).trigger = Trigger(s, k)
<1>1. \A k : BullZone(s, k).trigger = Trigger(s, k) /\ BearZone(s, k).trigger = Trigger(s, k)
  BY DEF BullZone, BearZone
<1>2. Formed(s) = {BullZone(s, k) : k \in {c \in Candles(s) : BullGap(s, c)}} \union
                  {BearZone(s, k) : k \in {c \in Candles(s) : BearGap(s, c)}}
  BY DEF Formed, BullZone, BearZone
<1> QED BY <1>1, <1>2

\* Zones of candles that are over stay formed; the others are triggered by the last
\* second of their window, and only an unfinished candle takes its zone back.
LEMMA FormedGrows ==
  ASSUME ZoneAssumption, NEW s, NEW t, Extends(t, s)
  PROVE  /\ \A z \in Formed(t) \ Formed(s) : z.trigger = Len(t)
         /\ \A z \in Formed(s) \ Formed(t) : z.trigger = Len(s) /\ Unfinished(s)
         /\ \A z \in Formed(s) : z.trigger \in 1..Len(s)
<1>1. /\ Candles(s) \subseteq Candles(t) /\ Candles(s) \subseteq Nat \ {0}
      /\ \A k \in Candles(s) : Trigger(s, k) \in 1..Len(s)
      /\ \A k \in Candles(t), m \in Nat \ {0} : m < k => m \in Candles(s) /\ m * Candle <= Len(s)
      /\ \A k \in Candles(s) : k * Candle <= Len(s) =>
           /\ High(t, k) = High(s, k) /\ Low(t, k) = Low(s, k) /\ Trigger(t, k) = Trigger(s, k)
      /\ \A k \in Candles(t) : \/ k \in Candles(s) /\ k * Candle <= Len(s)
                               \/ Trigger(t, k) = Len(t)
      /\ \A k \in Candles(s) : \/ k * Candle <= Len(s)
                               \/ Trigger(s, k) = Len(s) /\ Unfinished(s)
  BY CandlesKept
<1>2. ASSUME NEW k \in Candles(s), k * Candle <= Len(s)
      PROVE  /\ BullGap(s, k) <=> BullGap(t, k)
             /\ BearGap(s, k) <=> BearGap(t, k)
             /\ BullGap(s, k) => BullZone(t, k) = BullZone(s, k)
             /\ BearGap(s, k) => BearZone(t, k) = BearZone(s, k)
  <2>1. High(t, k) = High(s, k) /\ Low(t, k) = Low(s, k) /\ Trigger(t, k) = Trigger(s, k)
    BY <1>1, <1>2
  <2>2. CASE k > 2
    <3>1. k \in Candles(t) /\ k - 2 \in Nat \ {0} /\ k - 2 < k BY <1>1, <2>2
    <3>2. k - 2 \in Candles(s) /\ (k - 2) * Candle <= Len(s) BY <1>1, <3>1
    <3>3. High(t, k - 2) = High(s, k - 2) /\ Low(t, k - 2) = Low(s, k - 2) BY <1>1, <3>2
    <3> QED BY <2>1, <3>3 DEF BullGap, BearGap, BullZone, BearZone
  <2>3. CASE ~(k > 2) BY <2>3 DEF BullGap, BearGap
  <2> QED BY <2>2, <2>3
<1>3. ASSUME NEW z \in Formed(t), z.trigger # Len(t) PROVE z \in Formed(s)
  <2>1. PICK k \in Candles(t) : \/ BullGap(t, k) /\ z = BullZone(t, k)
                                \/ BearGap(t, k) /\ z = BearZone(t, k)
    BY FormedByCandles
  <2>2. Trigger(t, k) # Len(t) BY <1>3, <2>1, FormedByCandles
  <2>3. k \in Candles(s) /\ k * Candle <= Len(s) BY <1>1, <2>2
  <2> QED BY <1>2, <2>1, <2>3, FormedByCandles
<1>4. ASSUME NEW z \in Formed(s), ~(z.trigger = Len(s) /\ Unfinished(s)) PROVE z \in Formed(t)
  <2>1. PICK k \in Candles(s) : \/ BullGap(s, k) /\ z = BullZone(s, k)
                                \/ BearGap(s, k) /\ z = BearZone(s, k)
    BY FormedByCandles
  <2>2. z.trigger = Trigger(s, k) BY <2>1, FormedByCandles
  <2>3. k * Candle <= Len(s) BY <1>1, <1>4, <2>2
  <2> QED BY <1>1, <1>2, <2>1, <2>3, FormedByCandles
<1>5. ASSUME NEW z \in Formed(s) PROVE z.trigger \in 1..Len(s)
  <2>1. PICK k \in Candles(s) : z = BullZone(s, k) \/ z = BearZone(s, k) BY FormedByCandles
  <2> QED BY <1>1, <2>1, FormedByCandles
<1> QED BY <1>3, <1>4, <1>5

\* What was superseded stays so, unless it was by a zone of the unfinished candle; what
\* was not can only be superseded by a zone that the new second triggers.
LEMMA SupersededKept ==
  ASSUME ZoneAssumption, NEW s, NEW t, Extends(t, s), NEW z \in Formed(s)
  PROVE  /\ SupersededAt(s, z) # 0 => \/ SupersededAt(t, z) # 0
                                      \/ SupersededAt(s, z) = Len(s) /\ Unfinished(s)
         /\ SupersededAt(s, z) = 0 => SupersededAt(t, z) \in {0, Len(t)}
<1> DEFINE Later(w) == {y.trigger : y \in {x \in Formed(w) : x.trigger > z.trigger /\ Overlap(z, x)}}
<1>1. /\ \A y \in Formed(t) \ Formed(s) : y.trigger = Len(t)
      /\ \A y \in Formed(s) \ Formed(t) : y.trigger = Len(s) /\ Unfinished(s)
      /\ \A y \in Formed(s) : y.trigger \in 1..Len(s)
      /\ Len(s) \in Nat /\ Len(t) = Len(s) + 1
  <2>1. Len(s) \in Nat /\ Len(t) = Len(s) + 1 BY LenProperties DEF Extends
  <2> QED BY <2>1, FormedGrows
<1>2. \A w : SupersededAt(w, z) = IF Supersede THEN First(Later(w)) ELSE 0 BY DEF SupersededAt
<1>3. /\ \A x \in Later(s) : x \in Later(t) \/ (x = Len(s) /\ Unfinished(s))
      /\ Later(t) \subseteq Later(s) \union {Len(t)}
      /\ Later(t) \subseteq Nat \ {0} /\ Later(s) \subseteq Nat \ {0}
  <2>1. \A x \in Later(s) : x \in Later(t) \/ (x = Len(s) /\ Unfinished(s)) BY <1>1
  <2>2. Later(t) \subseteq Later(s) \union {Len(t)} BY <1>1
  <2>3. Later(s) \subseteq 1..Len(s) BY <1>1
  <2> HIDE DEF Later
  <2> QED BY <1>1, <2>1, <2>2, <2>3
<1> HIDE DEF Later
<1>4. First(Later(s)) # 0 <=> Later(s) # {} BY <1>3, FirstIsSome
<1>5. First(Later(t)) # 0 <=> Later(t) # {} BY <1>3, FirstIsSome
<1>6. First(Later(s)) # 0 => First(Later(s)) \in Later(s) BY <1>3, FirstIsSome
<1>7. First(Later(t)) # 0 => First(Later(t)) \in Later(t) BY <1>3, FirstIsSome
<1>8. ASSUME SupersededAt(s, z) # 0
      PROVE  SupersededAt(t, z) # 0 \/ (SupersededAt(s, z) = Len(s) /\ Unfinished(s))
  BY <1>2, <1>3, <1>5, <1>6, <1>8
<1>9. ASSUME SupersededAt(s, z) = 0 PROVE SupersededAt(t, z) \in {0, Len(t)}
  <2>1. CASE ~Supersede BY <1>2, <2>1
  <2>2. CASE Supersede
    <3>1. Later(s) = {} BY <1>2, <1>4, <1>9, <2>2
    <3> QED BY <1>2, <1>3, <1>7, <2>2, <3>1
  <2> QED BY <2>1, <2>2
<1> QED BY <1>8, <1>9

-----------------------------------------------------------------------------
\* The greatest of the elements below k is found by counting them.
LEMMA SearchFinds ==
  ASSUME NEW n \in Nat, NEW F, F \subseteq 0..n, NEW k \in Int
  PROVE  /\ SearchSorted(F, k) \in Nat
         /\ SearchSorted(F, k) = 0 <=> ~\E f \in F : f < k
         /\ SearchSorted(F, k) > 0 =>
              LET m == At(F, SearchSorted(F, k) - 1)
              IN m \in F /\ m < k /\ \A f \in F : f < k => f <= m
<1> DEFINE Below(i) == {f \in F : f < i}
<1>1. \A i : SearchSorted(F, i) = Cardinality(Below(i)) BY DEF SearchSorted
<1>2. IsFiniteSet(F)
  <2>1. IsFiniteSet(0..n) BY FS_Interval
  <2> QED BY <2>1, FS_Subset
<1>0. \A f \in F : f \in Int OBVIOUS
<1>3. \A i : Below(i) \subseteq F /\ IsFiniteSet(Below(i)) /\ Cardinality(Below(i)) \in Nat
  <2> TAKE i
  <2>1. Below(i) \subseteq F OBVIOUS
  <2> HIDE DEF Below
  <2>2. IsFiniteSet(Below(i)) BY <1>2, <2>1, FS_Subset
  <2> QED BY <2>1, <2>2, FS_CardinalityType
<1>4. \A f \in F, g \in F : f < g => Cardinality(Below(f)) < Cardinality(Below(g))
  <2> SUFFICES ASSUME NEW f \in F, NEW g \in F, f < g
               PROVE  Cardinality(Below(f)) < Cardinality(Below(g))
    OBVIOUS
  <2>0. f \in Int /\ g \in Int /\ ~(f < f) /\ \A x \in F : x < f => x < g BY <1>0
  <2>1. Below(f) \subseteq Below(g) /\ f \in Below(g) /\ f \notin Below(f) BY <2>0
  <2> HIDE DEF Below
  <2>2. /\ Cardinality(Below(f)) <= Cardinality(Below(g))
        /\ Cardinality(Below(g)) = Cardinality(Below(f)) => Below(g) = Below(f)
    BY <1>3, <2>1, FS_Subset
  <2> QED BY <1>3, <2>1, <2>2
<1>5. Below(k) = {} <=> Cardinality(Below(k)) = 0
  <2> HIDE DEF Below
  <2> QED BY <1>3, FS_EmptySet
<1>6. ASSUME Below(k) # {}
      PROVE  LET m == At(F, SearchSorted(F, k) - 1)
             IN m \in F /\ m < k /\ \A f \in F : f < k => f <= m
  <2>1. Below(k) \subseteq 0..n OBVIOUS
  <2>2. \A f : f \in Below(k) <=> f \in F /\ f < k OBVIOUS
  <2>3. PICK m \in Below(k) : \A f \in Below(k) : f <= m
    <3> HIDE DEF Below
    <3> QED BY <1>6, <2>1, GreatestExists
  <2>5. m \in F /\ m < k BY <2>2, <2>3
  <2>4. Below(m) = Below(k) \ {m}
    <3>1. \A f \in F : f < m <=> f < k /\ f # m
      <4> TAKE f \in F
      <4>1. f \in Int /\ m \in Int BY <1>0, <2>5
      <4>2. f < k => f <= m BY <2>2, <2>3
      <4> QED BY <2>5, <4>1, <4>2
    <3> QED BY <3>1
  <2> DEFINE c == Cardinality(Below(k)) - 1
  <2>6. Cardinality(Below(m)) = c
    <3> HIDE DEF Below
    <3> QED BY <1>3, <2>3, <2>4, FS_RemoveElement
  <2>7. At(F, c) = CHOOSE f \in F : Cardinality(Below(f)) = c BY <1>1 DEF At
  <2>8. \A f \in F : f \in Int BY <2>1
  <2> HIDE DEF Below, c
  <2>9. At(F, c) \in F /\ Cardinality(Below(At(F, c))) = c BY <2>5, <2>6, <2>7
  <2>10. At(F, c) = m
    <3>1. ~(At(F, c) < m) /\ ~(m < At(F, c))
      <4>1. At(F, c) < m => Cardinality(Below(At(F, c))) < Cardinality(Below(m))
        BY <1>4, <2>5, <2>9
      <4>2. m < At(F, c) => Cardinality(Below(m)) < Cardinality(Below(At(F, c)))
        BY <1>4, <2>5, <2>9
      <4>3. c \in Int BY <1>3, <2>6
      <4> QED BY <4>1, <4>2, <4>3, <2>6, <2>9
    <3>2. At(F, c) \in Int /\ m \in Int BY <2>5, <2>8, <2>9
    <3> DEFINE x == At(F, c)
    <3> HIDE DEF x
    <3>3. x \in Int /\ ~(x < m) /\ ~(m < x) BY <3>1, <3>2 DEF x
    <3>4. x = m BY <3>2, <3>3
    <3> QED BY <3>4 DEF x
  <2>11. At(F, SearchSorted(F, k) - 1) = m BY <1>1, <2>10 DEF c
  <2> QED BY <2>2, <2>3, <2>5, <2>11
<1>7. SearchSorted(F, k) = Cardinality(Below(k)) BY <1>1
<1>8. (\E f \in F : f < k) <=> Below(k) # {} OBVIOUS
<1> HIDE DEF Below
<1> QED BY <1>3, <1>5, <1>6, <1>7, <1>8

\* A streak reaches back to the last close that does not pierce the zone.
LEMMA StreakReaches ==
  ASSUME NEW n \in Nat, NEW F, F \subseteq 0..n, NEW k \in Nat
  PROVE  \E b \in Int : /\ Streak(F, k) = k - b
                        /\ \/ b = -1
                           \/ b \in F /\ b < k
                        /\ \A f \in F : f < k => f <= b
<1> DEFINE c == SearchSorted(F, k)
           m == At(F, c - 1)
<1>1. /\ c \in Nat
      /\ c = 0 <=> ~\E f \in F : f < k
      /\ c > 0 => m \in F /\ m < k /\ \A f \in F : f < k => f <= m
  <2>1. k \in Int OBVIOUS
  <2> QED BY <2>1, SearchFinds
<1>2. LastFalse(F, k) = IF c > 0 THEN m ELSE -1 BY DEF LastFalse
<1>3. Streak(F, k) = IF F = {} THEN k + 1 ELSE k - LastFalse(F, k) BY DEF Streak
<1> HIDE DEF c, m
<1>4. CASE c = 0
  <2>1. Streak(F, k) = k - (-1) BY <1>2, <1>3, <1>4
  <2>2. -1 \in Int /\ \A f \in F : f < k => f <= -1 BY <1>1, <1>4
  <2> QED BY <2>1, <2>2
<1>5. CASE c > 0
  <2>1. m \in F /\ m < k /\ (\A f \in F : f < k => f <= m) BY <1>1, <1>5
  <2>2. F # {} /\ m \in Int BY <2>1
  <2>3. Streak(F, k) = k - m BY <1>2, <1>3, <1>5, <2>2
  <2> QED BY <2>1, <2>2, <2>3
<1> QED BY <1>1, <1>4, <1>5

\* Closes at which a run of piercing ones is long enough.
Runs(s, z) == {j \in After(s, z) : /\ j - Needed >= z.trigger
                                   /\ \A l \in (j - Needed + 1)..j : Pierces(z, s[l].close)}

\* The index arithmetic qualifies these closes.
LEMMA QualifyingEndsRuns ==
  ASSUME ZoneAssumption, NEW s, Len(s) \in Nat, NEW z, z.trigger \in Nat, NEW k \in Segment(s, z)
  PROVE  k \in Qualifying(s, z) <=> z.trigger + 1 + k \in Runs(s, z)
<1> DEFINE T == z.trigger
           n == Len(s) - T - 1
           F == FalseIdx(s, z)
           j == T + 1 + k
           P(i) == Pierces(z, s[i].close)
<1>1. T \in Nat /\ k \in 0..n /\ k \in Nat /\ n \in Nat /\ Needed \in Nat /\ Needed >= 1
  BY DEF Segment, ZoneAssumption
<1>2. k \in Qualifying(s, z) <=> Streak(F, k) >= Needed /\ P(j)
  BY DEF Qualifying, PierceMask
<1>3. \A i \in 0..n : i \in F <=> ~P(T + 1 + i) BY DEF FalseIdx, Segment, PierceMask
<1>4. F \subseteq 0..n BY DEF FalseIdx, Segment
<1>5. j \in Runs(s, z) <=> /\ j - Needed >= T
                           /\ \A l \in (j - Needed + 1)..j : P(l)
  <2>1. j \in After(s, z) BY <1>1 DEF After
  <2> QED BY <2>1 DEF Runs
<1> HIDE DEF F, n, T
<1>6. PICK b \in Int : /\ Streak(F, k) = k - b
                       /\ b = -1 \/ (b \in F /\ b < k)
                       /\ \A f \in F : f < k => f <= b
  BY <1>1, <1>4, StreakReaches
<1> HIDE DEF P
<1>7. ASSUME Streak(F, k) >= Needed, P(j)
      PROVE  j - Needed >= T /\ \A l \in (j - Needed + 1)..j : P(l)
  <2>1. k - b >= Needed /\ b >= -1 BY <1>1, <1>4, <1>6, <1>7
  <2>2. j - Needed >= T BY <1>1, <2>1
  <2>3. ASSUME NEW l \in (j - Needed + 1)..j PROVE P(l)
    <3> DEFINE i == l - T - 1
    <3>1. i \in 0..n /\ i <= k /\ i > b /\ l = T + 1 + i BY <1>1, <2>1
    <3> HIDE DEF i
    <3>2. CASE i = k BY <1>7, <3>1, <3>2
    <3>3. CASE i # k
      <4>1. i < k /\ ~(i <= b) BY <1>1, <3>1, <3>3
      <4>2. i \notin F BY <1>6, <4>1
      <4> QED BY <1>3, <3>1, <4>2
    <3> QED BY <3>2, <3>3
  <2> QED BY <2>2, <2>3
<1>8. ASSUME j - Needed >= T, \A l \in (j - Needed + 1)..j : P(l)
      PROVE  Streak(F, k) >= Needed /\ P(j)
  <2>1. P(j) BY <1>1, <1>8
  <2>2. k - b >= Needed
    <3> SUFFICES ASSUME ~(k - b >= Needed) PROVE FALSE OBVIOUS
    <3>1. k - b < Needed /\ k + 1 >= Needed BY <1>1, <1>8
    <3>2. b # -1 BY <1>1, <3>1
    <3>3. b \in F /\ b < k /\ b \in 0..n BY <1>4, <1>6, <3>2
    <3>4. ~P(T + 1 + b) BY <1>3, <3>3
    <3>5. T + 1 + b \in (j - Needed + 1)..j BY <1>1, <3>1, <3>3
    <3> QED BY <1>8, <3>4, <3>5
  <2> QED BY <1>6, <2>1, <2>2
<1>9. k \in Qualifying(s, z) <=> j \in Runs(s, z) BY <1>2, <1>5, <1>7, <1>8
<1> QED BY <1>9 DEF T

LEMMA StreakIsRun ==
  ASSUME ZoneAssumption, NEW s, Len(s) \in Nat, NEW z, z.trigger \in Nat
  PROVE  StreakAt(s, z) = First(Runs(s, z)) /\ RunAt(s, z) = First(Runs(s, z))
<1> DEFINE Q == Qualifying(s, z)
           R == Runs(s, z)
           a == z.trigger + 1
<1>1. /\ Q \subseteq Nat /\ Q \subseteq Segment(s, z)
      /\ \A j \in R : j \in After(s, z) /\ j \in Nat \ {0} /\ j - a \in Segment(s, z)
      /\ a \in Nat \ {0}
  BY DEF Qualifying, Segment, Runs, After
<1>2. \A k \in Segment(s, z) : k \in Q <=> a + k \in R BY QualifyingEndsRuns
<1>3. StreakAt(s, z) = (IF Q = {} THEN 0 ELSE a + Least(Q)) BY DEF StreakAt
<1>4. RunAt(s, z) = First(R) BY DEF RunAt, Runs
<1> HIDE DEF Q, R, a
<1>5. ASSUME NEW j \in R PROVE j - a \in Q /\ j = a + (j - a)
  <2>1. j \in Nat /\ j - a \in Segment(s, z) /\ j = a + (j - a) BY <1>1
  <2> QED BY <1>2, <2>1
<1>6. CASE Q = {}
  <2>1. R = {} BY <1>5, <1>6
  <2> QED BY <1>3, <1>4, <1>6, <2>1 DEF First, R
<1>7. CASE Q # {}
  <2>1. Least(Q) \in Q /\ \A k \in Q : Least(Q) <= k BY <1>1, <1>7, LeastExists
  <2>2. a + Least(Q) \in R BY <1>1, <1>2, <2>1
  <2>3. \A j \in R : a + Least(Q) <= j
    <3> TAKE j \in R
    <3>1. Least(Q) <= j - a BY <1>5, <2>1
    <3>2. Least(Q) \in Nat /\ a \in Nat /\ j \in Nat BY <1>1, <2>1
    <3> QED BY <3>1, <3>2
  <2>4. First(R) \in R /\ \A j \in R : First(R) <= j
    <3>1. R \subseteq Nat \ {0} /\ R # {} BY <1>1, <2>2
    <3> QED BY <3>1, FirstIsSome
  <2>5. First(R) <= a + Least(Q) /\ a + Least(Q) <= First(R) BY <2>2, <2>3, <2>4
  <2>6. First(R) \in Int /\ a + Least(Q) \in Int
    <3>1. First(R) \in Nat \ {0} BY <1>1, <2>4
    <3>2. Least(Q) \in Nat BY <1>1, <2>1
    <3> QED BY <1>1, <3>1, <3>2
  <2>7. First(R) = a + Least(Q) BY <2>5, <2>6
  <2> QED BY <1>3, <1>4, <1>7, <2>7 DEF R
<1> QED BY <1>6, <1>7

\* The index arithmetic of the scan finds the first second that completes a run of
\* Needed piercing closes (ScanFindsFirstRun), for any closes and any run length.
THEOREM ScansFindRuns ==
  ASSUME ConstantsAssumption, ZoneAssumption
  PROVE  ZoneSpec => []ScanFindsFirstRun
<1>1. ASSUME ZoneInv PROVE ScanFindsFirstRun
  <2> SUFFICES ASSUME NEW z \in Formed(seconds) PROVE StreakAt(seconds, z) = RunAt(seconds, z)
    BY DEF ScanFindsFirstRun
  <2>1. seconds \in Seq(Bars) /\ Len(seconds) \in Nat BY <1>1, LenProperties DEF ZoneInv
  <2>2. z.trigger \in Nat
    <3>1. PICK k \in Candles(seconds) : z = BullZone(seconds, k) \/ z = BearZone(seconds, k)
      BY FormedByCandles
    <3>2. z.trigger = Trigger(seconds, k) BY <3>1, FormedByCandles
    <3>3. k \in Nat BY <2>1, CandlesOf
    <3>4. k * Candle \in Nat BY <3>3 DEF ZoneAssumption
    <3> QED BY <2>1, <3>2, <3>4 DEF Trigger, Smaller
  <2> QED BY <2>1, <2>2, StreakIsRun
<1>2. ZoneInit => ZoneInv BY InitZoneInv
<1>3. ZoneInv /\ [ZoneNext]_zoneVars => ZoneInv' BY NextZoneInv
<1> QED BY <1>1, <1>2, <1>3, PTL DEF ZoneSpec

-----------------------------------------------------------------------------
\* What a scan has found in a window it finds in the next one.
LEMMA ScansKept ==
  ASSUME ZoneAssumption, NEW s, NEW t, Extends(t, s), NEW z, z.trigger \in 1..Len(s)
  PROVE  /\ StreakAt(s, z) # 0 => StreakAt(t, z) = StreakAt(s, z)
         /\ InvertedAt(s, z) # 0 => InvertedAt(t, z) = InvertedAt(s, z)
         /\ PlayedOutAt(s, z) # 0 => PlayedOutAt(t, z) # 0
<1>1. /\ Len(s) \in Nat /\ Len(t) = Len(s) + 1 /\ Needed \in Nat \ {0}
      /\ \A k \in 1..Len(s) : t[k] = s[k]
  BY DEF Extends, ZoneAssumption
<1>2. /\ After(s, z) \subseteq After(t, z) /\ After(t, z) \subseteq Nat \ {0}
      /\ \A j \in After(s, z) : j \in 1..Len(s)
      /\ \A j \in After(t, z) \ After(s, z), k \in After(s, z) : k <= j
  BY <1>1 DEF After
<1> DEFINE Back(w, from) == {j \in After(w, z) : j > from /\ Returns(z, w[j].close)}
           Out(w) == {j \in After(w, z) : PlaysOut(z, w[j].close)}
<1>3. /\ Runs(s, z) \subseteq Runs(t, z) /\ Runs(t, z) \subseteq Nat \ {0}
      /\ \A j \in Runs(t, z) \ Runs(s, z), k \in Runs(s, z) : k <= j
  <2>1. ASSUME NEW j \in After(s, z), j - Needed >= z.trigger, NEW l \in (j - Needed + 1)..j
        PROVE  t[l] = s[l]
    <3>1. l \in 1..Len(s) BY <1>1, <1>2, <2>1
    <3> QED BY <3>1, <1>1
  <2>2. \A j \in After(s, z) : j \in Runs(s, z) <=> j \in Runs(t, z) BY <1>2, <2>1 DEF Runs
  <2>3. Runs(s, z) \subseteq After(s, z) /\ Runs(t, z) \subseteq After(t, z) BY DEF Runs
  <2> QED BY <1>2, <2>2, <2>3
<1>4. \A from : /\ Back(s, from) \subseteq Back(t, from) /\ Back(t, from) \subseteq Nat \ {0}
                /\ \A j \in Back(t, from) \ Back(s, from), k \in Back(s, from) : k <= j
  BY <1>1, <1>2
<1>5. Out(s) \subseteq Out(t) /\ Out(t) \subseteq Nat \ {0}
  BY <1>1, <1>2
<1>6. StreakAt(s, z) = First(Runs(s, z)) /\ StreakAt(t, z) = First(Runs(t, z))
  <2>1. z.trigger \in Nat /\ Len(t) \in Nat BY <1>1
  <2> QED BY <1>1, <2>1, StreakIsRun
<1>7. /\ \A w : PlayedOutAt(w, z) = First(Out(w))
      /\ \A w : InvertedAt(w, z) = IF RequireRetest /\ StreakAt(w, z) # 0
                                   THEN First(Back(w, StreakAt(w, z))) ELSE StreakAt(w, z)
  BY DEF PlayedOutAt, InvertedAt
<1> HIDE DEF Back, Out
<1>8. StreakAt(s, z) # 0 => StreakAt(t, z) = StreakAt(s, z)
  <2>1. Runs(s, z) # {} => First(Runs(t, z)) = First(Runs(s, z)) BY <1>3, FirstKept
  <2> QED BY <1>6, <2>1 DEF First
<1>9. PlayedOutAt(s, z) # 0 => PlayedOutAt(t, z) # 0
  <2>1. First(Out(s)) # 0 <=> Out(s) # {} BY <1>5, FirstIsSome
  <2>2. First(Out(t)) # 0 <=> Out(t) # {} BY <1>5, FirstIsSome
  <2> QED BY <1>5, <1>7, <2>1, <2>2
<1>10. ASSUME InvertedAt(s, z) # 0 PROVE InvertedAt(t, z) = InvertedAt(s, z)
  <2>1. StreakAt(s, z) # 0 BY <1>7, <1>10
  <2>2. StreakAt(t, z) = StreakAt(s, z) BY <1>8, <2>1
  <2>3. Back(s, StreakAt(s, z)) # {} =>
          First(Back(t, StreakAt(s, z))) = First(Back(s, StreakAt(s, z)))
    BY <1>4, FirstKept
  <2> QED BY <1>7, <1>10, <2>1, <2>2, <2>3 DEF First
<1> QED BY <1>8, <1>9, <1>10

-----------------------------------------------------------------------------
\* The breaks of a bar are all of the same side.
OneSided(brks) ==
  \A k, l \in DOMAIN brks : brks[k].bar = brks[l].bar => brks[k].side = brks[l].side

\* What window t tells after window s, of the breaks and the sweeps of its whole bars.
Follows(s, t, old, new, ss, tt) ==
  /\ Extends(t, s)
  /\ old \in Seq(Break) /\ new \in Seq(Break) /\ Prefix(old, new) /\ OneSided(new)
  /\ \A b \in 1..Whole(s) : SweptAt(ss, b) = SweptAt(tt, b)

LEMMA SoundIsOneSided ==
  ASSUME ConstantsAssumption, NEW st, NEW s \in Seq(Bars), Sound(st, s, Len(s) - PivotLen)
  PROVE  OneSided(st.breaks)
<1>1. Len(s) \in Nat /\ PivotLen \in Nat BY LenProperties DEF ConstantsAssumption
<1> DEFINE h == Len(s) - PivotLen
<1>2. h \in Int /\ h <= Len(s) BY <1>1
<1>3. Typed(st) /\ \A side \in Sides : Decided(st, s, side, h) BY DEF Sound
<1> HIDE DEF h
<1> QED BY <1>2, <1>3, OneSidePerBar DEF OneSided

LEMMA WindowsFollow ==
  ASSUME ConstantsAssumption, ZoneAssumption, ZoneInv, NEW tick \in Bars, NextSecond(tick)
  PROVE  /\ Follows(seconds, seconds', breaks, breaks', Sweeps(bars), Sweeps(bars'))
         /\ Follows(seconds, seconds', breaks, breaks', {}, {})
<1>1. /\ ZoneInv' /\ Extends(seconds', seconds)
      /\ Len(bars) = Whole(seconds) /\ Len(bars') = Whole(seconds')
      /\ \/ UNCHANGED vars
         \/ /\ Extends(bars', bars) /\ Len(bars') = Len(bars) + 1
            /\ \E bar \in Bars : NextBar(bar)
  BY SecondStep
<1>2. OneSided(breaks')
  <2> DEFINE st == LoopState'
             w == bars'
  <2>1. /\ w \in Seq(Bars) /\ Sound(st, w, Len(w) - PivotLen) /\ st.breaks = breaks'
    BY <1>1 DEF ZoneInv, IInv, LoopState
  <2> HIDE DEF st, w
  <2>2. OneSided(st.breaks) BY <2>1, SoundIsOneSided
  <2> QED BY <2>1, <2>2
<1>3. breaks \in Seq(Break) /\ IInv
  BY DEF ZoneInv, IInv, Sound, Typed, LoopState
<1>4. CASE UNCHANGED vars
  <2>1. breaks' = breaks /\ bars' = bars BY <1>4 DEF vars
  <2>2. Prefix(breaks, breaks') BY <2>1 DEF Prefix
  <2> QED BY <1>1, <1>2, <1>3, <2>1, <2>2 DEF Follows
<1>5. ASSUME Extends(bars', bars), NEW bar \in Bars, NextBar(bar)
      PROVE  /\ Follows(seconds, seconds', breaks, breaks', Sweeps(bars), Sweeps(bars'))
             /\ Follows(seconds, seconds', breaks, breaks', {}, {})
  <2>1. /\ breaks \in Seq(Break) /\ breaks' \in Seq(Break) /\ Prefix(breaks, breaks')
    BY <1>3, <1>5, WindowStep
  <2>2. \A b \in 1..Whole(seconds) : SweptAt(Sweeps(bars), b) = SweptAt(Sweeps(bars'), b)
    BY <1>1, <1>5, SweepsKept
  <2> QED BY <1>1, <1>2, <2>1, <2>2 DEF Follows
<1> QED BY <1>1, <1>4, <1>5

\* The whole bars of two windows, and the bars that their seconds are told about.
LEMMA WholeBars ==
  ASSUME ConstantsAssumption, NEW s, NEW t, Extends(t, s)
  PROVE  /\ Whole(s) \in Nat /\ Whole(t) \in {Whole(s), Whole(s) + 1}
         /\ LastSecond(Whole(s)) \in Nat /\ LastSecond(Whole(s)) <= Len(s)
         /\ Whole(s) > 0 => LastSecond(Whole(s)) > 0
         /\ \A j \in 1..Len(s) :
              IF j <= LastSecond(Whole(s))
              THEN /\ BarOf(j) \in 1..Whole(s)
                   /\ ToldBar(j, Whole(s)) = BarOf(j) /\ ToldBar(j, Whole(t)) = BarOf(j)
              ELSE ToldBar(j, Whole(s)) = Whole(s)
         /\ ToldBar(LastSecond(Whole(s)), Whole(s)) = Whole(s)
<1> DEFINE n == Whole(s)
           e == LastSecond(n)
<1>1. /\ Len(s) \in Nat /\ Len(t) = Len(s) + 1 /\ Resample \in Nat \ {0}
  BY LenProperties DEF Extends, ConstantsAssumption
<1>2. n \in Nat /\ Whole(t) \in {n, n + 1} BY <1>1, Quotient, QuotientGrows DEF Whole
<1>3. e \in Nat /\ e <= Len(s) /\ Len(s) < e + Resample
  <2>1. /\ Len(s) \div Resample \in Nat /\ Len(s) % Resample \in 0..(Resample - 1)
        /\ Len(s) = Resample * (Len(s) \div Resample) + (Len(s) % Resample)
    BY <1>1, Quotient
  <2>2. e = Resample * (Len(s) \div Resample) BY <1>1, <2>1 DEF LastSecond, Whole
  <2> DEFINE r == Len(s) % Resample
  <2>3. e \in Nat BY <1>1, <1>2 DEF LastSecond
  <2>4. r \in 0..(Resample - 1) /\ Len(s) = e + r BY <2>1, <2>2
  <2> HIDE DEF e, r
  <2> QED BY <1>1, <2>3, <2>4
<1>4. n > 0 => e > 0
  <2> HIDE DEF n
  <2>1. ASSUME n > 0 PROVE e > 0
    <3>1. n * Resample >= 1 * Resample BY <1>1, <1>2, <2>1
    <3> QED BY <1>1, <1>3, <3>1 DEF LastSecond
  <2> QED BY <2>1
<1>5. ASSUME NEW j \in 1..Len(s)
      PROVE  IF j <= e THEN /\ BarOf(j) \in 1..n
                            /\ ToldBar(j, n) = BarOf(j) /\ ToldBar(j, Whole(t)) = BarOf(j)
             ELSE ToldBar(j, n) = n
  <2>1. j \in 1..(e + Resample)
    <3> HIDE DEF e
    <3> QED BY <1>1, <1>3
  <2> HIDE DEF n
  <2> QED BY <1>2, <2>1, ToldBars
<1>6. ToldBar(e, n) = n
  <2> HIDE DEF n
  <2>1. CASE n = 0
    <3>1. e = 0 /\ e - 1 = -1 BY <1>1, <2>1 DEF LastSecond
    <3>2. BarOf(e) \in Int BY <1>1, <3>1 DEF BarOf
    <3>3. BarOf(e) >= 0
      <4>1. (-1) \div Resample >= -1 BY <1>1
      <4> QED BY <1>1, <3>1, <4>1 DEF BarOf
    <3> QED BY <2>1, <3>2, <3>3 DEF ToldBar, Smaller
  <2>2. CASE n > 0
    <3>1. e \in 1..Len(s) BY <1>1, <1>3, <1>4, <2>2
    <3>2. BarOf(e) \in 1..n /\ ToldBar(e, n) = BarOf(e)
      <4>1. e <= e BY <1>3
      <4> QED BY <1>5, <3>1, <4>1
    <3>3. BarOf(e) = n
      <4>1. /\ (e - 1) \div Resample \in Nat
            /\ \A k \in Nat : k <= (e - 1) \div Resample <=> Resample * k <= e - 1
        <5> DEFINE a == e - 1
        <5>1. a \in Nat /\ Resample \in Nat \ {0} BY <1>1, <3>1
        <5> HIDE DEF a
        <5>2. a \div Resample \in Nat /\ \A k \in Nat : k <= a \div Resample <=> Resample * k <= a
          BY <5>1, Quotient
        <5> QED BY <5>2 DEF a
      <4>2. Resample * (n - 1) <= e - 1
        <5>1. e = Resample * (n - 1) + Resample BY <1>1, <1>2 DEF LastSecond
        <5>2. Resample * (n - 1) \in Int BY <1>1, <1>2
        <5> QED BY <1>1, <5>1, <5>2
      <4>3. n - 1 <= (e - 1) \div Resample BY <1>2, <2>2, <4>1, <4>2
      <4> QED BY <1>2, <3>2, <4>1, <4>3 DEF BarOf
    <3> QED BY <3>2, <3>3
  <2> QED BY <1>2, <2>1, <2>2
<1> QED BY <1>2, <1>3, <1>4, <1>5, <1>6

\* The event of a second is that of its bar.
BarEvent(brks, sweeps, bar) ==
  LET here  == {k \in DOMAIN brks : brks[k].bar = bar}
      swept == SweptAt(sweeps, bar)
  IN IF "low" \in swept THEN "sweep_low"
     ELSE IF swept # {} THEN "sweep_high"
     ELSE IF here = {} THEN "none"
     ELSE IF brks[Greatest(here)].side = "high" THEN "bull" ELSE "bear"

\* The event of an earlier bar is not written anew once there is one: a later break of
\* the bar is of the same side.
LEMMA EventKept ==
  ASSUME NEW old \in Seq(Break), NEW new \in Seq(Break), Prefix(old, new), OneSided(new),
         NEW ss, NEW tt, NEW bar, SweptAt(ss, bar) = SweptAt(tt, bar),
         BarEvent(old, ss, bar) # "none"
  PROVE  BarEvent(new, tt, bar) = BarEvent(old, ss, bar)
<1> DEFINE Here(brks) == {k \in DOMAIN brks : brks[k].bar = bar}
           Event(brks, swept) ==
             IF "low" \in swept THEN "sweep_low"
             ELSE IF swept # {} THEN "sweep_high"
             ELSE IF Here(brks) = {} THEN "none"
             ELSE IF brks[Greatest(Here(brks))].side = "high" THEN "bull" ELSE "bear"
<1>1. \A brks, sweeps : BarEvent(brks, sweeps, bar) = Event(brks, SweptAt(sweeps, bar))
  BY DEF BarEvent
<1>2. ASSUME NEW brks \in Seq(Break), Here(brks) # {} PROVE Greatest(Here(brks)) \in Here(brks)
  <2>1. Here(brks) \subseteq 0..Len(brks) /\ Len(brks) \in Nat BY LenProperties
  <2>2. Here(brks) \subseteq Int BY <2>1
  <2> HIDE DEF Here
  <2>3. \E x \in Here(brks) : \A y \in Here(brks) : y <= x BY <1>2, <2>1, GreatestExists
  <2>4. \E x \in Here(brks) : \A y \in Here(brks) : x >= y BY <2>2, <2>3
  <2> QED BY <2>4 DEF Greatest
<1>3. ASSUME Here(old) # {}
      PROVE  /\ Here(new) # {}
             /\ new[Greatest(Here(new))].side = old[Greatest(Here(old))].side
  <2>1. /\ Here(old) \subseteq Here(new) /\ \A k \in Here(old) : new[k] = old[k]
        /\ \A k, l \in Here(new) : new[k].side = new[l].side
    BY DEF Prefix, OneSided
  <2> HIDE DEF Here
  <2>2. Greatest(Here(old)) \in Here(old) /\ Greatest(Here(new)) \in Here(new)
    BY <1>2, <1>3, <2>1
  <2> QED BY <1>3, <2>1, <2>2
<1> HIDE DEF Here
<1>4. \A swept : Event(old, swept) # "none" => Event(new, swept) = Event(old, swept) BY <1>3
<1> HIDE DEF Event
<1> QED BY <1>1, <1>4

\* A zone that structure has rejected stays rejected, but for one that formed after the
\* last whole bar: that one is rejected in its first second.
LEMMA RejectedKept ==
  ASSUME ConstantsAssumption, NEW s, NEW t, NEW old, NEW new, NEW ss, NEW tt,
         Follows(s, t, old, new, ss, tt), Whole(s) > 0,
         NEW z, z.trigger \in 1..Len(s), RejectedAt(s, old, ss, z) # 0
  PROVE  \/ RejectedAt(t, new, tt, z) # 0
         \/ /\ Whole(t) # Whole(s) /\ z.trigger >= LastSecond(Whole(s))
            /\ RejectedAt(s, old, ss, z) = z.trigger + 1
<1> DEFINE n == Whole(s)
           m == Whole(t)
           e == LastSecond(n)
           R == {j \in After(s, z) : EventAt(s, old, ss, j) \in Opposing(z.dir)}
           Q == {j \in After(t, z) : EventAt(t, new, tt, j) \in Opposing(z.dir)}
           Old(b) == BarEvent(old, ss, b)
           New(b) == BarEvent(new, tt, b)
<1>1. /\ Extends(t, s) /\ old \in Seq(Break) /\ new \in Seq(Break) /\ Prefix(old, new) /\ OneSided(new)
      /\ \A b \in 1..n : SweptAt(ss, b) = SweptAt(tt, b)
  BY DEF Follows
<1>2. /\ Len(s) \in Nat /\ Len(t) = Len(s) + 1
      /\ After(s, z) \subseteq After(t, z) /\ After(t, z) \subseteq Nat \ {0}
      /\ \A j : j \in After(s, z) <=> j \in 1..Len(s) /\ z.trigger < j
      /\ z.trigger \in 1..Len(s)
  BY <1>1, LenProperties DEF Extends, After
<1>3. /\ n \in Nat /\ n > 0 /\ m \in {n, n + 1} /\ e \in Nat /\ e <= Len(s) /\ e > 0
      /\ \A j \in 1..Len(s) : IF j <= e
                              THEN /\ BarOf(j) \in 1..n
                                   /\ ToldBar(j, n) = BarOf(j) /\ ToldBar(j, m) = BarOf(j)
                              ELSE ToldBar(j, n) = n
      /\ ToldBar(e, n) = n
  BY <1>1, WholeBars
<1>4. /\ \A j : EventAt(s, old, ss, j) = Old(ToldBar(j, n))
      /\ \A j : EventAt(t, new, tt, j) = New(ToldBar(j, m))
  BY DEF EventAt, BarEvent, Whole
<1>5. /\ RejectedAt(s, old, ss, z) = First(R) /\ RejectedAt(t, new, tt, z) = First(Q)
      /\ R \subseteq Nat \ {0} /\ Q \subseteq Nat \ {0}
  BY <1>2 DEF RejectedAt
<1>6. "none" \notin Opposing(z.dir) BY DEF Opposing
<1>7. /\ \A j : j \in R <=> j \in After(s, z) /\ Old(ToldBar(j, n)) \in Opposing(z.dir)
      /\ \A j : j \in Q <=> j \in After(t, z) /\ New(ToldBar(j, m)) \in Opposing(z.dir)
  BY <1>4
<1>8. \A b \in 1..n : Old(b) \in Opposing(z.dir) => New(b) \in Opposing(z.dir)
  <2> TAKE b \in 1..n
  <2> HAVE Old(b) \in Opposing(z.dir)
  <2>1. SweptAt(ss, b) = SweptAt(tt, b) /\ Old(b) # "none" BY <1>1, <1>6
  <2> QED BY <1>1, <2>1, EventKept
<1> HIDE DEF n, m, e, R, Q, Old, New
<1>9. First(R) # 0 BY <1>5
<1>10. PICK j \in R : TRUE BY <1>5, <1>9, FirstIsSome
<1>11. j \in 1..Len(s) /\ z.trigger < j /\ Old(ToldBar(j, n)) \in Opposing(z.dir) BY <1>2, <1>7, <1>10
<1>12. ToldBar(j, n) \in 1..n
  <2>1. n \in 1..n BY <1>3
  <2> QED BY <1>3, <1>11, <2>1
<1>13. ASSUME NEW i \in After(s, z), ToldBar(i, n) = ToldBar(j, n), ToldBar(i, m) = ToldBar(i, n)
       PROVE  First(Q) # 0
  <2>1. New(ToldBar(i, m)) \in Opposing(z.dir) BY <1>8, <1>11, <1>12, <1>13
  <2>2. i \in Q BY <1>2, <1>7, <2>1
  <2> QED BY <1>5, <2>2, FirstIsSome
<1>14. CASE m = n BY <1>5, <1>7, <1>10, <1>13, <1>14
<1>15. CASE j <= e BY <1>3, <1>5, <1>7, <1>10, <1>11, <1>13, <1>15
<1>16. CASE m # n /\ ~(j <= e) /\ z.trigger < e
  <2>1. e \in After(s, z) /\ e \in 1..Len(s) /\ e <= e BY <1>2, <1>3, <1>16
  <2>2. ToldBar(e, m) = ToldBar(e, n) BY <1>3, <2>1
  <2>3. ToldBar(e, n) = ToldBar(j, n) BY <1>3, <1>11, <1>16
  <2> QED BY <1>5, <1>13, <2>1, <2>2, <2>3
<1>17. CASE m # n /\ ~(z.trigger < e)
  <2> DEFINE i == z.trigger + 1
  <2>1. i \in 1..Len(s) /\ ~(i <= e) /\ ~(j <= e) /\ z.trigger < i /\ z.trigger >= e
    BY <1>2, <1>3, <1>11, <1>17
  <2>2. ToldBar(i, n) = n /\ ToldBar(j, n) = n BY <1>3, <1>11, <2>1
  <2>3. i \in R BY <1>2, <1>7, <1>11, <2>1, <2>2
  <2>4. First(R) \in R /\ First(R) <= i BY <1>5, <1>9, <2>3, FirstIsSome
  <2>5. First(R) \in 1..Len(s) /\ z.trigger < First(R) BY <1>2, <1>7, <2>4
  <2>6. First(R) = i BY <1>2, <2>4, <2>5
  <2> QED BY <1>5, <1>17, <2>1, <2>6 DEF n, m, e
<1> QED BY <1>3, <1>14, <1>15, <1>16, <1>17

-----------------------------------------------------------------------------
\* What a window says of a zone comes from the scans.
LEMMA ZoneFields ==
  ASSUME NEW s, NEW brks, NEW sweeps, NEW y \in Detected(s, brks, sweeps)
  PROVE  /\ y.key \in Formed(s)
         /\ y.superseded = SupersededAt(s, y.key)
         /\ y.superseded # 0 => Dead(y) /\ y.inverted = 0
         /\ y.superseded = 0 =>
              /\ Dead(y) <=> \/ PlayedOutAt(s, y.key) # 0
                             \/ RejectedAt(s, brks, sweeps, y.key) # 0
              /\ y.mitigated = MitigatedAt(s, y.key)
              /\ y.playedOut = PlayedOutAt(s, y.key)
              /\ \/ y.inverted = InvertedAt(s, y.key)
                 \/ y.inverted # 0 /\ Dead(y)
              /\ PlayedOutAt(s, y.key) = 0 /\ RejectedAt(s, brks, sweeps, y.key) # 0 =>
                   y.inverted = RejectedAt(s, brks, sweeps, y.key)
         /\ Ends(y) # {} => First(Ends(y)) - y.key.trigger >= MinLifetime
<1>1. PICK z \in Formed(s) : y = Lifecycle(s, brks, sweeps, z)
  BY DEF Detected
<1>2. Ends(y) # {} => First(Ends(y)) - y.key.trigger >= MinLifetime
  BY DEF Detected
<1>3. y.key = z BY <1>1 DEF Lifecycle
<1>4. CASE SupersededAt(s, z) # 0
  BY <1>1, <1>2, <1>3, <1>4 DEF Lifecycle, Dead
<1>5. CASE SupersededAt(s, z) = 0
  <2>1. /\ y.superseded = 0 /\ y.mitigated = MitigatedAt(s, z) /\ y.playedOut = PlayedOutAt(s, z)
        /\ y.inverted = IF PlayedOutAt(s, z) = 0 /\ RejectedAt(s, brks, sweeps, z) # 0
                        THEN RejectedAt(s, brks, sweeps, z) ELSE InvertedAt(s, z)
        /\ y.live = (PlayedOutAt(s, z) = 0 /\ RejectedAt(s, brks, sweeps, z) = 0)
    BY <1>1, <1>5 DEF Lifecycle
  <2> QED BY <1>2, <1>3, <1>5, <2>1 DEF Dead
<1> QED BY <1>4, <1>5

\* A zone that is rejected in its first second is dropped, unless such short lives count.
LEMMA RejectedAtOnce ==
  ASSUME ZoneAssumption, NEW s, Len(s) \in Nat, NEW brks, NEW sweeps,
         NEW y \in Detected(s, brks, sweeps), y.key.trigger \in Nat,
         y.superseded = 0, PlayedOutAt(s, y.key) = 0,
         RejectedAt(s, brks, sweeps, y.key) = y.key.trigger + 1
  PROVE  MinLifetime < 2
<1> DEFINE i == y.key.trigger + 1
<1>1. /\ y.inverted = i /\ i # 0 /\ y.playedOut = 0 /\ y.mitigated = MitigatedAt(s, y.key)
      /\ Ends(y) # {} => First(Ends(y)) - y.key.trigger >= MinLifetime
  <2>1. i # 0 OBVIOUS
  <2> QED BY <2>1, ZoneFields
<1>2. MitigatedAt(s, y.key) \in Nat
  <2> DEFINE z == y.key
             In == {j \in After(s, z) : Inside(z, s[j].close)}
             Deep == {j \in After(s, z) : \A l \in After(s, z) : Depth(z, s[l]) <= Depth(z, s[j])}
  <2>1. In \subseteq Nat \ {0} /\ Deep \subseteq Nat \ {0} BY DEF After
  <2>2. MitigatedAt(s, z) \in {First(In), First(Deep), 0} BY DEF MitigatedAt
  <2> HIDE DEF In, Deep, z
  <2>3. First(In) \in Nat /\ First(Deep) \in Nat BY <2>1, FirstIsSome
  <2> QED BY <2>2, <2>3 DEF z
<1>3. Ends(y) \subseteq Nat \ {0} /\ i \in Ends(y)
  <2>1. y.mitigated \in Nat /\ y.inverted \in Nat BY <1>1, <1>2
  <2> QED BY <1>1, <2>1 DEF Ends
<1>4. First(Ends(y)) <= i /\ First(Ends(y)) \in Nat BY <1>3, FirstIsSome
<1>5. First(Ends(y)) - y.key.trigger >= MinLifetime BY <1>1, <1>3
<1>6. MinLifetime \in Nat BY DEF ZoneAssumption
<1> QED BY <1>4, <1>5, <1>6

\* What two successive windows say of a zone, with the sweeps looked at or not.
LEMMA DetectedKept ==
  ASSUME ConstantsAssumption, ZoneAssumption, NEW s, NEW t, NEW old, NEW new, NEW ss, NEW tt,
         Follows(s, t, old, new, ss, tt), Whole(s) > 0,
         NEW z \in Detected(s, old, ss), NEW y \in Detected(t, new, tt), z.key = y.key
  PROVE  /\ Dead(z) =>
              \/ Dead(y)
              \/ z.superseded = Len(s) /\ Unfinished(s)
              \/ /\ MinLifetime < 2 /\ Whole(t) # Whole(s) /\ z.key.trigger >= LastSecond(Whole(s))
                 /\ RejectedAt(s, old, ss, z.key) # 0
         /\ z.live /\ z.inverted # 0 =>
              \/ y.inverted = z.inverted
              \/ y.superseded = Len(t)
              \/ y.inverted # 0 /\ Dead(y)
<1>0. Extends(t, s) /\ Len(s) \in Nat BY LenProperties DEF Follows, Extends
<1>1. z.key \in Formed(s) /\ z.key.trigger \in 1..Len(s)
  BY <1>0, ZoneFields, FormedGrows
<1>2. /\ SupersededAt(s, z.key) # 0 => \/ SupersededAt(t, y.key) # 0
                                       \/ SupersededAt(s, z.key) = Len(s) /\ Unfinished(s)
      /\ SupersededAt(s, z.key) = 0 => SupersededAt(t, y.key) \in {0, Len(t)}
  BY <1>0, <1>1, SupersededKept
<1>3. /\ z.superseded = SupersededAt(s, z.key)
      /\ z.superseded # 0 => z.inverted = 0
      /\ z.superseded = 0 /\ ~Dead(z) => z.inverted = InvertedAt(s, z.key)
  BY ZoneFields
<1>4. /\ y.superseded = SupersededAt(t, y.key)
      /\ y.superseded # 0 => Dead(y)
      /\ y.superseded = 0 => y.inverted = InvertedAt(t, y.key) \/ (y.inverted # 0 /\ Dead(y))
  BY ZoneFields
<1>5. ASSUME Dead(z), ~Dead(y), ~(z.superseded = Len(s) /\ Unfinished(s))
      PROVE  /\ MinLifetime < 2 /\ Whole(t) # Whole(s) /\ z.key.trigger >= LastSecond(Whole(s))
             /\ RejectedAt(s, old, ss, z.key) # 0
  <2>1. z.superseded = 0 BY <1>2, <1>3, <1>4, <1>5
  <2>2. y.superseded = 0 BY <1>4, <1>5
  <2>3. PlayedOutAt(t, y.key) = 0 /\ RejectedAt(t, new, tt, y.key) = 0 BY <1>5, <2>2, ZoneFields
  <2>4. PlayedOutAt(s, z.key) = 0 BY <1>0, <1>1, <2>3, ScansKept
  <2>5. RejectedAt(s, old, ss, z.key) # 0 BY <1>5, <2>1, <2>4, ZoneFields
  <2>6. /\ Whole(t) # Whole(s) /\ z.key.trigger >= LastSecond(Whole(s))
        /\ RejectedAt(s, old, ss, z.key) = z.key.trigger + 1
    BY <1>1, <2>3, <2>5, RejectedKept
  <2>7. z.key.trigger \in Nat BY <1>0, <1>1
  <2>8. MinLifetime < 2 BY <1>0, <2>1, <2>4, <2>6, <2>7, RejectedAtOnce
  <2> QED BY <2>5, <2>6, <2>8
<1>6. ASSUME z.live, z.inverted # 0
      PROVE  y.inverted = z.inverted \/ y.superseded = Len(t) \/ (y.inverted # 0 /\ Dead(y))
  <2>1. z.superseded = 0 /\ z.inverted = InvertedAt(s, z.key) BY <1>3, <1>6 DEF Dead
  <2>2. y.superseded \in {0, Len(t)} BY <1>2, <1>3, <1>4, <2>1
  <2>3. InvertedAt(t, y.key) = z.inverted BY <1>0, <1>1, <1>6, <2>1, ScansKept
  <2> QED BY <1>4, <2>2, <2>3
<1> QED BY <1>5, <1>6

\* The live loop looks at the sweeps of its window, which agree on earlier bars.
LEMMA ZonesKept ==
  ASSUME ConstantsAssumption, ZoneAssumption, ZoneInv, NEW tick \in Bars, NextSecond(tick), Warm,
         NEW z \in Zones(seconds, bars, breaks), NEW y \in Zones(seconds', bars', breaks'),
         Same(z, y)
  PROVE  /\ Dead(z) =>
              \/ Dead(y)
              \/ Provisional(z)
              \/ MinLifetime < 2 /\ bars' # bars /\ z.key.trigger >= LastSecond(Len(bars))
         /\ z.live /\ z.inverted # 0 =>
              \/ y.inverted = z.inverted
              \/ y.superseded = Len(seconds')
              \/ y.inverted # 0 /\ Dead(y)
<1>1. Follows(seconds, seconds', breaks, breaks', Sweeps(bars), Sweeps(bars')) BY WindowsFollow
<1>2. Len(bars) = Whole(seconds) /\ Len(bars') = Whole(seconds') BY SecondStep
<1>3. Whole(seconds) > 0
  <2>1. PivotLen \in Nat /\ Len(bars) \in Nat
    BY LenProperties DEF ConstantsAssumption, ZoneInv, IInv
  <2> QED BY <1>2, <2>1 DEF Warm
<1>4. /\ z \in Detected(seconds, breaks, Sweeps(bars))
      /\ y \in Detected(seconds', breaks', Sweeps(bars'))
  BY DEF Zones
<1>5. z.key = y.key BY DEF Same
<1>6. Whole(seconds') # Whole(seconds) => bars' # bars BY <1>2
<1> QED BY <1>1, <1>2, <1>3, <1>4, <1>5, <1>6, DetectedKept DEF Provisional

\* A zone that one window shows dead is not alive in the next one, but for the two
\* exceptions of DeadZonesStayDead: for any prices and thresholds, candles and structure
\* bars of any length, whatever events structure adds behind the zone's trigger.
THEOREM DeadStayDead ==
  ASSUME ConstantsAssumption, ZoneAssumption
  PROVE  ZoneSpec => DeadZonesStayDead
<1>1. ZoneInv /\ [ZoneNext]_zoneVars =>
        [Warm => \A z \in Zones(seconds, bars, breaks), y \in Zones(seconds', bars', breaks') :
           Same(z, y) /\ Dead(z) =>
             \/ Dead(y)
             \/ Provisional(z)
             \/ MinLifetime < 2 /\ bars' # bars /\ z.key.trigger >= LastSecond(Len(bars))]_zoneVars
  BY ZonesKept DEF ZoneNext
<1>2. ZoneInit => ZoneInv BY InitZoneInv
<1>3. ZoneInv /\ [ZoneNext]_zoneVars => ZoneInv' BY NextZoneInv
<1> QED BY <1>1, <1>2, <1>3, PTL DEF ZoneSpec, DeadZonesStayDead

\* An inversion on which the walk of one window fires is there in the next one at the
\* same second, unless the zone of the new second supersedes it or structure rejects
\* it, for any prices and thresholds, candles and structure bars of any length.
THEOREM InversionKept ==
  ASSUME ConstantsAssumption, ZoneAssumption
  PROVE  ZoneSpec => InversionIsKept
<1>1. ZoneInv /\ [ZoneNext]_zoneVars =>
        [Warm => \A z \in Zones(seconds, bars, breaks), y \in Zones(seconds', bars', breaks') :
           Same(z, y) /\ z.live /\ z.inverted # 0 =>
             \/ y.inverted = z.inverted
             \/ y.superseded = Len(seconds')
             \/ y.inverted # 0 /\ Dead(y)]_zoneVars
  BY ZonesKept DEF ZoneNext
<1>2. ZoneInit => ZoneInv BY InitZoneInv
<1>3. ZoneInv /\ [ZoneNext]_zoneVars => ZoneInv' BY NextZoneInv
<1> QED BY <1>1, <1>2, <1>3, PTL DEF ZoneSpec, InversionIsKept
=============================================================================
