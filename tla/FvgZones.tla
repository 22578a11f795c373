------------------------------ MODULE FvgZones ------------------------------
(***************************************************************************)
(* Fair value gaps and their lifecycle: detect_fvg and fvg_retest_signals  *)
(* in src/core/ict_signals.py.  The window grows by a second at a time;    *)
(* gaps are looked for in its candles, and every Resample seconds make a   *)
(* bar of MarketStructure, whose events end zones.  The live loop and the  *)
(* backtest detect everything anew from the window, so a zone's history is *)
(* a function of the window, and the next second may tell it differently.  *)
(* Seconds are counted from 1; 0 stands for "never".                       *)
(***************************************************************************)
EXTENDS MarketStructure

CONSTANTS
  Candle,         \* seconds in a candle (fvg_resample_secs)
  Supersede,      \* fvg_supersede_on_new
  Pierce,         \* how far a close must go beyond a zone to pierce it
  Needed,         \* for how many seconds running
  RequireRetest,  \* invert only when price has come back through the zone
  Extension,      \* distance at which a zone has played out, 0: never
  MinLifetime,    \* zones that end sooner are dropped
  Ticks           \* bound: for each second of the window, what it may look like

\* Seconds that are made one bar make one of Bars.
ZoneAssumption ==
  /\ \A b, c, d \in Bars : c.low <= d.close /\ d.close <= b.high =>
       [high |-> b.high, low |-> c.low, close |-> d.close] \in Bars
  /\ Ticks \in Seq(SUBSET Bars)
  /\ Candle \in Nat \ {0}
  /\ Needed \in Nat \ {0}
  /\ {Pierce, Extension, MinLifetime} \subseteq Nat
  /\ {Supersede, RequireRetest} \subseteq BOOLEAN

ASSUME ZoneAssumption

-----------------------------------------------------------------------------
Larger(x, y) == IF x < y THEN y ELSE x
First(S) == IF S = {} THEN 0 ELSE Least(S)

HighOf(s, span) == LET H == {s[j].high : j \in span} IN CHOOSE x \in H : \A y \in H : y <= x
LowOf(s, span) == LET L == {s[j].low : j \in span} IN CHOOSE x \in L : \A y \in L : x <= y

VARIABLE seconds   \* the window, of which bars are the whole structure bars

zoneVars == <<vars, seconds>>

\* The structure bar that the last second of s completes.
StructureBar(s) ==
  LET span == (Len(s) - Resample + 1)..Len(s)
  IN [high |-> HighOf(s, span), low |-> LowOf(s, span), close |-> s[Len(s)].close]

ZoneInit == Init /\ seconds = <<>>

NextSecond(tick) ==
  LET s == Append(seconds, tick)
  IN /\ Len(seconds) < Len(Ticks)
     /\ tick \in Ticks[Len(s)]
     /\ seconds' = s
     /\ \/ Len(s) % Resample # 0 /\ UNCHANGED vars
        \/ Len(s) % Resample = 0 /\ NextBar(StructureBar(s))

ZoneNext == \E tick \in Bars : NextSecond(tick)

ZoneSpec == ZoneInit /\ [][ZoneNext]_zoneVars

\* Shorter windows have no structure bars enough: the code looks for structure in the
\* bare seconds then, which is not looked at here.
Warm == Len(bars) > 2 * PivotLen

-----------------------------------------------------------------------------
\* Candles of the window; the last one may be unfinished.
Candles(s) == 1..((Len(s) + Candle - 1) \div Candle)
Seconds(s, k) == ((k - 1) * Candle + 1)..Smaller(k * Candle, Len(s))
High(s, k) == HighOf(s, Seconds(s, k))
Low(s, k) == LowOf(s, Seconds(s, k))
Trigger(s, k) == Smaller(k * Candle, Len(s))
Unfinished(s) == \E k \in Candles(s) : k * Candle > Len(s)

\* The zone between the first and the third of three candles that do not overlap.
BullGap(s, k) == k > 2 /\ High(s, k - 2) < Low(s, k)
BearGap(s, k) == k > 2 /\ High(s, k) < Low(s, k - 2)

Formed(s) ==
  {[trigger |-> Trigger(s, k), dir |-> 1, low |-> High(s, k - 2), high |-> Low(s, k)] :
     k \in {c \in Candles(s) : BullGap(s, c)}}
  \union
  {[trigger |-> Trigger(s, k), dir |-> -1, low |-> High(s, k), high |-> Low(s, k - 2)] :
     k \in {c \in Candles(s) : BearGap(s, c)}}

Overlap(z, y) == z.low <= y.high /\ y.low <= z.high

\* The first later zone in its price range supersedes a zone.  The code means to
\* spare zones that have ended, but looks before any lifecycle has been scanned.
SupersededAt(s, z) ==
  IF Supersede THEN First({y.trigger : y \in {x \in Formed(s) : x.trigger > z.trigger /\ Overlap(z, x)}})
  ELSE 0

-----------------------------------------------------------------------------
\* The lifecycle of a zone over the closes after its trigger.
After(s, z) == (z.trigger + 1)..Len(s)

Inside(z, close) == z.low <= close /\ close <= z.high
Pierces(z, close) == IF z.dir = 1 THEN close < z.low - Pierce ELSE close > z.high + Pierce
Returns(z, close) == IF z.dir = 1 THEN close > z.high ELSE close < z.low
PlaysOut(z, close) ==
  Extension > 0 /\ IF z.dir = 1 THEN close > z.high + Extension ELSE close < z.low - Extension

Depth(z, bar) == Larger(0, Smaller(bar.high, z.high) - Larger(bar.low, z.low))

\* The first close inside, or else the deepest bar if it fills half the zone.
MitigatedAt(s, z) ==
  LET inside  == First({j \in After(s, z) : Inside(z, s[j].close)})
      deepest == First({j \in After(s, z) : \A l \in After(s, z) : Depth(z, s[l]) <= Depth(z, s[j])})
  IN IF inside # 0 THEN inside
     ELSE IF deepest # 0 /\ 2 * Depth(z, s[deepest]) >= z.high - z.low /\ z.high > z.low
          THEN deepest ELSE 0

\* The scan for a run of piercing closes.  The closes after the trigger are counted
\* from 0, and a set of them is an array in increasing order, indexed from 0.
Segment(s, z) == 0..(Len(s) - z.trigger - 1)
PierceMask(s, z, k) == Pierces(z, s[z.trigger + 1 + k].close)
FalseIdx(s, z) == {k \in Segment(s, z) : ~PierceMask(s, z, k)}

SearchSorted(F, k) == Cardinality({f \in F : f < k})
At(F, n) == CHOOSE f \in F : SearchSorted(F, f) = n

LastFalse(F, k) == IF SearchSorted(F, k) > 0 THEN At(F, SearchSorted(F, k) - 1) ELSE -1

\* At a close that does not pierce, this is the length of the run that it ends.
Streak(F, k) == IF F = {} THEN k + 1 ELSE k - LastFalse(F, k)

\* mutant: the mask is left out, a close that ends a run of one less qualifies
QualifyingUnmasked(s, z) == {k \in Segment(s, z) : Streak(FalseIdx(s, z), k) >= Needed}

Qualifying(s, z) ==
  {k \in Segment(s, z) : Streak(FalseIdx(s, z), k) >= Needed /\ PierceMask(s, z, k)}

\* The second that completes the run.
StreakAt(s, z) ==
  LET qual == Qualifying(s, z) IN IF qual = {} THEN 0 ELSE z.trigger + 1 + Least(qual)

\* mutant: the last second on which price has come back through the zone
InvertedAtLast(s, z) ==
  LET streak  == StreakAt(s, z)
      returns == {j \in After(s, z) : streak # 0 /\ j > streak /\ Returns(z, s[j].close)}
  IN IF returns = {} THEN 0 ELSE CHOOSE j \in returns : \A l \in returns : l <= j

InvertedAt(s, z) ==
  LET streak == StreakAt(s, z)
  IN IF RequireRetest /\ streak # 0
     THEN First({j \in After(s, z) : j > streak /\ Returns(z, s[j].close)}) ELSE streak

PlayedOutAt(s, z) == First({j \in After(s, z) : PlaysOut(z, s[j].close)})

\* The event written for a second, which is that of its structure bar: sweeps overwrite
\* breaks, a low sweep a high one.  Seconds after the last whole bar repeat its event.
EventAt(s, brks, sweeps, j) ==
  LET bar   == ToldBar(j, Len(s) \div Resample)
      here  == {k \in DOMAIN brks : brks[k].bar = bar}
      swept == SweptAt(sweeps, bar)
  IN IF "low" \in swept THEN "sweep_low"
     ELSE IF swept # {} THEN "sweep_high"
     ELSE IF here = {} THEN "none"
     ELSE IF brks[Greatest(here)].side = "high" THEN "bull" ELSE "bear"

\* Events that end a zone of this direction: all negative codes, the sweep of a
\* low among them, end a bull zone; only breaks end a bear zone.
Opposing(dir) == IF dir = 1 THEN {"bear", "sweep_low"} ELSE {"bull"}

\* mutant: only the event of the last second counts
RejectedNow(s, brks, sweeps, z) ==
  IF EventAt(s, brks, sweeps, Len(s)) \in Opposing(z.dir) THEN Len(s) ELSE 0

RejectedAt(s, brks, sweeps, z) ==
  First({j \in After(s, z) : EventAt(s, brks, sweeps, j) \in Opposing(z.dir)})

\* What detect_fvg returns for a zone.  Structure overrules an inversion by price.
Lifecycle(s, brks, sweeps, z) ==
  LET superseded == SupersededAt(s, z)
      playedOut  == PlayedOutAt(s, z)
      rejected   == RejectedAt(s, brks, sweeps, z)
  IN IF superseded # 0
     THEN [key |-> z, superseded |-> superseded, mitigated |-> 0, inverted |-> 0,
           playedOut |-> 0, live |-> FALSE]
     ELSE [key |-> z, superseded |-> 0, mitigated |-> MitigatedAt(s, z),
           inverted  |-> IF playedOut = 0 /\ rejected # 0 THEN rejected ELSE InvertedAt(s, z),
           playedOut |-> playedOut,
           live      |-> playedOut = 0 /\ rejected = 0]

Ends(z) == {z.superseded, z.mitigated, z.inverted, z.playedOut} \ {0}

Detected(s, brks, sweeps) ==
  {z \in {Lifecycle(s, brks, sweeps, f) : f \in Formed(s)} :
     Ends(z) # {} => First(Ends(z)) - z.key.trigger >= MinLifetime}

\* The live loop hands the detector all events, sweeps included.
Zones(s, w, brks) == LET sweeps == Sweeps(w) IN Detected(s, brks, sweeps)

-----------------------------------------------------------------------------
\* The first second that ends Needed piercing closes in a row, all after the trigger.
RunAt(s, z) ==
  First({j \in After(s, z) : /\ j - Needed >= z.trigger
                             /\ \A l \in (j - Needed + 1)..j : Pierces(z, s[l].close)})

\* The index arithmetic of the scan finds "First k where streak_at[k] >= needed AND
\* pierce_mask[k]", streaks being counted over the seconds themselves.
ScanFindsFirstRun == \A z \in Formed(seconds) : StreakAt(seconds, z) = RunAt(seconds, z)

Same(z, y) == z.key = y.key
Dead(z) == ~z.live

\* Superseded by a zone of the unfinished candle, which may be gone a second later.
Provisional(z) == z.superseded = Len(seconds) /\ Unfinished(seconds)

\* "live: False once consumed, expired, superseded, OR played out": a zone that one
\* window shows dead is not alive in the next one, with two exceptions.  It was
\* superseded only by the unfinished candle; or it formed after the last whole
\* structure bar, whose event its seconds had repeated until their own bar was over
\* (that rejects it in its first second, so such a zone is dropped as born dead unless
\* zones that live for a second only are kept).
DeadZonesStayDead ==
  [][Warm => \A z \in Zones(seconds, bars, breaks), y \in Zones(seconds', bars', breaks') :
       Same(z, y) /\ Dead(z) =>
         \/ Dead(y)
         \/ Provisional(z)
         \/ MinLifetime < 2 /\ bars' # bars /\ z.key.trigger >= LastSecond(Len(bars))]_zoneVars

\* The walk of one window fires on an inversion that later windows must not tell
\* otherwise: the next one shows the same inversion of a live zone, unless the zone
\* that this second formed has superseded it or structure has rejected it.
InversionIsKept ==
  [][Warm => \A z \in Zones(seconds, bars, breaks), y \in Zones(seconds', bars', breaks') :
       Same(z, y) /\ z.live /\ z.inverted # 0 =>
         \/ y.inverted = z.inverted
         \/ y.superseded = Len(seconds')
         \/ y.inverted # 0 /\ Dead(y)]_zoneVars
=============================================================================
