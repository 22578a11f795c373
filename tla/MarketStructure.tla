--------------------------- MODULE MarketStructure ---------------------------
(***************************************************************************)
(* Swings, breaks of structure (BoS), changes of character (CHoCH),        *)
(* liquidity sweeps and order blocks: src/core/market_structure.py.        *)
(*                                                                         *)
(* One step is one iteration of the detector's loop over its window, with  *)
(* the window one bar longer.  The loop body at bar i uses only swings     *)
(* that bar i confirms and closes up to it, so the state after n steps is  *)
(* what the detector returns for the first n bars.  What it computes after *)
(* the loop is a function of that state.  Bars are counted from 1.         *)
(*                                                                         *)
(* The window may be made of resampled bars; seconds are then mapped to    *)
(* them by _expand_state_to_original.                                      *)
(***************************************************************************)
EXTENDS Integers, Sequences, FiniteSets

CONSTANTS
  Bars,          \* the bars that may come: records [high, low, close]
  PivotLen,      \* bars on each side of a swing
  LiquidityLen,  \* the same for the pivots that sweeps are measured against
  Resample,      \* seconds in a bar of the window
  MaxAge,        \* seconds for which a break counts as recent
  MemoryLen,     \* breaks that the backtest's memory holds
  MaxBars        \* bound: bars in the window

ConstantsAssumption ==
  /\ Bars \subseteq [high : Int, low : Int, close : Int]
  /\ \A bar \in Bars : bar.low <= bar.close /\ bar.close <= bar.high
  /\ PivotLen \in Nat \ {0}
  /\ LiquidityLen \in Nat \ {0}
  /\ Resample \in Nat \ {0}
  /\ MaxAge \in Nat
  /\ MemoryLen \in Nat \ {0}
  /\ MaxBars \in Nat
ASSUME ConstantsAssumption

Sides == {"high", "low"}
Direction(side) == IF side = "high" THEN 1 ELSE -1

\* A break: the bar of the close that made it, the swing it broke, its
\* direction, and whether it went against the trend (CHoCH) or with it (BoS).
Break == [bar : Nat, swing : Nat, side : Sides, choch : BOOLEAN]

VARIABLES
  bars,    \* the window
  last,    \* the most recent confirmed swing of each side, 0 if none
  trend,   \* trend recorded at each bar
  breaks   \* in the order in which they were committed

vars == <<bars, last, trend, breaks>>

\* mutant: the trend is not carried from bar to bar
CurrentReset == 1

\* mutant: the first trend is unset
CurrentOrUnset == IF trend = <<>> THEN 0 ELSE trend[Len(trend)]

Current == IF trend = <<>> THEN 1 ELSE trend[Len(trend)]

-----------------------------------------------------------------------------
Extreme(s, side, k) == IF side = "high" THEN s[k].high ELSE s[k].low

Beyond(side, price, level) == IF side = "high" THEN price > level ELSE price < level

\* No bar within len of k goes beyond its extreme (an equal one is no obstacle).
IsPivot(s, side, k, len) ==
  /\ k - len >= 1
  /\ k + len <= Len(s)
  /\ \A j \in (k - len)..(k + len) : ~Beyond(side, Extreme(s, side, j), Extreme(s, side, k))

\* The closes beyond swing k in the bars from..to.
Closes(s, side, k, from, to) ==
  {j \in from..to : Beyond(side, s[j].close, Extreme(s, side, k))}

Greatest(S) == CHOOSE x \in S : \A y \in S : x >= y

Least(S) == CHOOSE x \in S : \A y \in S : x <= y

\* Bar c turns out to be a swing.  Only now is the previous swing of its side
\* tested for a break, over the bars after it up to c; from now on it is forgotten.
ConfirmSwing(st, s, side, c) ==
  LET swing  == st.last[side]
      closes == Closes(s, side, swing, swing + 1, c)
      found  == [bar |-> Least(closes), swing |-> swing, side |-> side,
                 choch |-> st.trend # Direction(side)]
      broken == swing # 0 /\ closes # {}
  IN [last   |-> [st.last EXCEPT ![side] = c],
      trend  |-> IF broken THEN Direction(side) ELSE st.trend,
      breaks |-> IF broken THEN Append(st.breaks, found) ELSE st.breaks]

\* Swings are taken in bar order, a high before a low of the same bar.
Confirmed(st, s, c) ==
  LET high == IF IsPivot(s, "high", c, PivotLen) THEN ConfirmSwing(st, s, "high", c) ELSE st
  IN IF IsPivot(s, "low", c, PivotLen) THEN ConfirmSwing(high, s, "low", c) ELSE high

-----------------------------------------------------------------------------
Init ==
  /\ bars = <<>>
  /\ last = [side \in Sides |-> 0]
  /\ trend = <<>>
  /\ breaks = <<>>

\* One more bar.  It can confirm the bar PivotLen before it as a swing.
NextBar(bar) ==
  LET s  == Append(bars, bar)
      st == Confirmed([last |-> last, trend |-> Current, breaks |-> breaks],
                      s, Len(s) - PivotLen)
  IN /\ Len(bars) < MaxBars
     /\ bars' = s
     /\ last' = st.last
     /\ trend' = Append(trend, st.trend)
     /\ breaks' = st.breaks

Next == \E bar \in Bars : NextBar(bar)

Spec == Init /\ [][Next]_vars

-----------------------------------------------------------------------------
\* What the detector computes after the loop.

\* A pivot is swept by the first bar after its confirmation that trades above it
\* and closes below it.  The code tests pivots of both sides that way.
SweepsOf(s, side, k) ==
  {j \in (k + LiquidityLen)..Len(s) :
     s[j].high > Extreme(s, side, k) /\ s[j].close < Extreme(s, side, k)}

Sweeps(s) ==
  UNION {{[side |-> side, pivot |-> k, bar |-> Least(SweepsOf(s, side, k))] :
            k \in {l \in DOMAIN s : IsPivot(s, side, l, LiquidityLen) /\ SweepsOf(s, side, l) # {}}} :
         side \in Sides}

SweptAt(sweeps, j) == {sw.side : sw \in {x \in sweeps : x.bar = j}}

\* mutant: the last commit is written to the whole array
LastCommit(brks, j) == Len(brks)

\* Per-second arrays.  last_break_bar is overwritten from the break's bar on with
\* every commit: at bar j it holds the last commit that is not after j.
LastBreak(brks, j) ==
  LET upTo == {k \in DOMAIN brks : brks[k].bar <= j}
  IN IF upTo = {} THEN 0 ELSE CHOOSE k \in upTo : \A l \in upTo : l <= k

\* last_choch_* and last_choch_plus_* are filled by walking a list of breaks as long as
\* its head is not after j: a later entry with an earlier bar has to wait for it.
LastListed(brks, list, j) ==
  LET reached == {k \in list : \A l \in list : l <= k => brks[l].bar <= j}
  IN IF reached = {} THEN 0 ELSE CHOOSE k \in reached : \A l \in reached : l <= k

Chochs(brks) == {k \in DOMAIN brks : brks[k].choch}

\* A three-bar gap (detect_fvg), which is stamped with the last second of its bar.
Gap(s, t) == t > 2 /\ (s[t - 2].high < s[t].low \/ s[t].high < s[t - 2].low)

FirstSecond(j) == (j - 1) * Resample + 1
LastSecond(j) == j * Resample

\* CHoCH+: there is a gap in the leg from the broken swing to the break.
ChochsPlus(s, brks) ==
  {k \in Chochs(brks) :
     \E t \in DOMAIN s : /\ Gap(s, t)
                         /\ FirstSecond(brks[k].swing) <= LastSecond(t)
                         /\ LastSecond(t) <= FirstSecond(brks[k].bar)}

\* What a second of the window is told: its bar's entries, with bars turned into
\* their first second.  An entry is <<second, direction, choch>>.
None == <<0, 0, FALSE>>

Entry(brks, k) ==
  IF k = 0 THEN None
  ELSE <<FirstSecond(brks[k].bar), Direction(brks[k].side), brks[k].choch>>

Smaller(x, y) == IF x < y THEN x ELSE y

\* The bar that second i is told about, of n whole ones.  The seconds of the bar that
\* is not over yet are told what the last whole one was told.
BarOf(i) == (i - 1) \div Resample + 1

ToldBar(i, n) == Smaller(BarOf(i), n)

\* The arrays when p seconds have come after the last whole bar.
Views(s, brks, p) ==
  LET sweeps == Sweeps(s)
      plus == ChochsPlus(s, brks)
      view == [j \in DOMAIN s |->
                 [break     |-> Entry(brks, LastBreak(brks, j)),
                  choch     |-> Entry(brks, LastListed(brks, Chochs(brks), j)),
                  chochPlus |-> Entry(brks, LastListed(brks, plus, j)),
                  swept     |-> SweptAt(sweeps, j)]]
  IN [i \in 1..(LastSecond(Len(s)) + p) |-> view[ToldBar(i, Len(s))]]

Recent(entry, i) == entry # None /\ i - entry[1] <= MaxAge

\* structure_conviction, in hundredths.  A low sweep overwrites a high one.
Conviction(view, i, dir) ==
  LET bos     == Recent(view.break, i) /\ view.break[2] = dir /\ ~view.break[3]
      plus    == Recent(view.chochPlus, i) /\ view.choch # None /\ view.choch[2] = dir
      against == Recent(view.choch, i) /\ view.choch[2] = -dir
      sweep   == IF dir = 1 THEN "low" \in view.swept ELSE view.swept = {"high"}
      score   == 100 + (IF bos THEN 25 ELSE 0) + (IF plus THEN 50 ELSE 0)
                     - (IF against THEN 50 ELSE 0) + (IF sweep THEN 10 ELSE 0)
  IN IF score > 150 THEN 150 ELSE score

\* bos_choch_directional_alignment.
Alignment(view, i, dir) ==
  IF ~Recent(view.break, i) THEN "none"
  ELSE IF view.break[2] = dir THEN "aligned" ELSE "opposed"

\* mutant: a full memory refuses the newest break instead of forgetting the oldest
RememberOldest(mem, br) == IF Len(mem) = MemoryLen THEN mem ELSE Append(mem, br)

\* BosChochMemory: the newest MemoryLen breaks in the order of their bars, breaks of
\* one bar in the order in which they are pushed.
Remember(mem, br) ==
  LET before == Cardinality({k \in DOMAIN mem : mem[k].bar <= br.bar})
      sorted == SubSeq(mem, 1, before) \o <<br>> \o SubSeq(mem, before + 1, Len(mem))
  IN IF Len(sorted) > MemoryLen THEN Tail(sorted) ELSE sorted

\* What an entry at bar j is compared with: only breaks up to j are pushed.
Memory(brks, j) ==
  LET mem[k \in 0..Len(brks)] ==
        IF k = 0 THEN <<>>
        ELSE IF brks[k].bar <= j THEN Remember(mem[k - 1], brks[k]) ELSE mem[k - 1]
  IN mem[Len(brks)]

\* The direction of the oldest break, unless a later one is a CHoCH; 0: none.
Thesis(mem) ==
  LET turns == {k \in DOMAIN mem : k = 1 \/ mem[k].choch}
  IN IF mem = <<>> THEN 0 ELSE Direction(mem[Greatest(turns)].side)

\* mutant: every bar has the trend of the last one
TrendNow(j) == Current

Trend(j) == IF Len(bars) < 2 * PivotLen + 1 THEN 0 ELSE trend[j]

\* Order blocks: the opposite extreme of the leg that made the break, until a
\* close goes beyond it.
Opposite(side) == IF side = "high" THEN "low" ELSE "high"

BlockOf(s, br) ==
  LET side  == Opposite(br.side)
      leg   == br.swing..br.bar
      start == Least({j \in leg : \A l \in leg : ~Beyond(side, Extreme(s, side, l), Extreme(s, side, j))})
      closes == Closes(s, side, start, br.bar + 1, Len(s))
  IN [start |-> start, mitigated |-> IF closes = {} THEN 0 ELSE Least(closes)]

-----------------------------------------------------------------------------
TypeOK ==
  /\ bars \in Seq(Bars) /\ Len(bars) <= MaxBars
  /\ last \in [Sides -> 0..Len(bars)]
  /\ trend \in Seq({1, -1}) /\ Len(trend) = Len(bars)
  /\ breaks \in Seq(Break)

\* "Break = first close through the prior swing, edge-triggered (one event per
\* swing level)": the breaks are, each once, the first closes beyond a swing that
\* come no later than the next swing of the same side, if that is confirmed.
Swings(side) == {k \in DOMAIN bars : IsPivot(bars, side, k, PivotLen)}

BreaksAreFirstCloses ==
  /\ {<<breaks[k].side, breaks[k].swing, breaks[k].bar>> : k \in DOMAIN breaks} =
       UNION {{<<side, c[1], c[2]>> : c \in
                {c \in Swings(side) \X DOMAIN bars :
                   /\ Closes(bars, side, c[1], c[1] + 1, c[2]) = {c[2]}
                   /\ \E b \in Swings(side) : b >= c[2]
                   /\ ~\E b \in Swings(side) : c[1] < b /\ b < c[2]}} : side \in Sides}
  /\ \A k, l \in DOMAIN breaks :
       breaks[k].side = breaks[l].side /\ breaks[k].swing = breaks[l].swing => k = l

\* A CHoCH is a break against the one committed before it (the first trend is
\* up), so their directions alternate, and the trend is that of the last break.
CharacterAlternates ==
  /\ \A k \in DOMAIN breaks :
       breaks[k].choch <=> Direction(breaks[k].side) #
                             IF k = 1 THEN 1 ELSE Direction(breaks[k - 1].side)
  /\ breaks # <<>> => Current = Direction(breaks[Len(breaks)].side)

\* However few breaks it holds, the memory knows the direction of the last one, as
\* long as breaks have been committed in the order of their bars.
MemoryFollowsTrend ==
  (\A k, l \in DOMAIN breaks : k < l => breaks[k].bar <= breaks[l].bar) =>
    \A j \in DOMAIN bars :
      LET k == LastBreak(breaks, j)
      IN Thesis(Memory(breaks, j)) = IF k = 0 THEN 0 ELSE Direction(breaks[k].side)

\* The detector repaints: a bar that arrives can change what earlier seconds are
\* told about breaks.  It never reaches further back than the swing that the new
\* swing replaces, for any reader of the arrays.  Its own seconds, read before it was
\* over, are told of its sweeps where they were told of those of the bar before it.
\* (Shorter windows of resampled bars are not looked at: the code detects structure
\* on the bare seconds then.)
HindsightIsBounded ==
  [][LET old == Views(bars, breaks, Resample - 1)
         new == Views(bars', breaks', 0)
         replaced == {last[side] : side \in {x \in Sides : last'[x] # last[x]}}
     IN Len(bars) > 2 * PivotLen =>
          \A i \in DOMAIN old :
            \/ \E swing \in replaced : i > FirstSecond(swing)
            \/ LET was == old[i]
                   is  == new[i]
               IN /\ \A dir \in {1, -1} : Alignment(was, i, dir) = Alignment(is, i, dir)
                  /\ \/ i > LastSecond(Len(bars)) /\ was.swept # is.swept
                     \/ /\ was.swept = is.swept
                        /\ \A dir \in {1, -1} : Conviction(was, i, dir) = Conviction(is, i, dir)]_vars

\* Trend and order blocks are not repainted: the trend of a bar stays, and a
\* block that is mitigated stays so, at its bar.
NoRepaint ==
  [][/\ Len(bars) > 2 * PivotLen => \A j \in DOMAIN bars : Trend(j)' = Trend(j)
     /\ \A k \in DOMAIN breaks :
          /\ BlockOf(bars', breaks'[k]).start = BlockOf(bars, breaks[k]).start
          /\ BlockOf(bars', breaks'[k]).mitigated \in
               {BlockOf(bars, breaks[k]).mitigated} \union
               (IF BlockOf(bars, breaks[k]).mitigated = 0 THEN {Len(bars')} ELSE {})]_vars
=============================================================================
