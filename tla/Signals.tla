------------------------------ MODULE Signals ------------------------------
(***************************************************************************)
(* The entries that the backtest is given: fvg_retest_signals, detect_orb, *)
(* orb_signals, detect_wyckoff and generate_ict_pending_signals in         *)
(* src/core/ict_signals.py.                                                *)
(*                                                                         *)
(* The backtest calls them once, over its whole series, and then walks the *)
(* bars.  So a bar of the walk is told what the whole series says of it;   *)
(* here the series is the window of FvgZones, and what a longer one says   *)
(* differently of an earlier second is look-ahead.                         *)
(***************************************************************************)
EXTENDS FvgZones

CONSTANTS
  RetestAge,        \* seconds for which a retest is waited for
  Lookback,         \* fvg_retest_lookback, 0: off
  MinTouches,       \* the larger of fvg_entry_confirm_bars and fvg_min_retest_count
  MinInversionAge,  \* fvg_ifvg_min_inversion_age_secs
  Gates,            \* settings of gate_on_gmma_bias: entries must follow the trend
  ReversesBias,     \* those of inverted zones must go against it
  MinSweepWidth,    \* fvg_sweep_min_zone_usd
  DayLength,        \* seconds in a day
  RangeStart,       \* the opening range in it
  RangeLength,
  RangeLookback,    \* seconds whose range a spring or an upthrust fails to leave
  SpringBreak       \* how far it goes beyond

SignalsAssumption ==
  /\ {RetestAge, DayLength, RangeLength, RangeLookback} \subseteq Nat \ {0}
  /\ {Lookback, MinTouches, MinInversionAge, MinSweepWidth, RangeStart, SpringBreak} \subseteq Nat
  /\ ReversesBias \in BOOLEAN /\ Gates \subseteq BOOLEAN

ASSUME SignalsAssumption

-----------------------------------------------------------------------------
\* The series, what MarketStructure says of it, and whether the gate is on.
Series(gate) == [bars |-> seconds, trend |-> trend, breaks |-> breaks, gate |-> gate]

\* The zones of the backtest: it asks for structure without sweeps.
TestedZones(x) == Detected(x.bars, x.breaks, {})

TradesIn(z, bar) == bar.low <= z.high /\ z.low <= bar.high

Touches(x, z) == Cardinality({j \in After(x.bars, z) : TradesIn(z, x.bars[j])})

\* mutant: the retest of an inverted zone is looked for from the mitigation on
AnchorAtMitigation(z) == Larger(z.mitigated, z.key.trigger)

\* What a retest has to follow: the inversion of an inverted zone, the mitigation,
\* or the trigger.
Anchor(z) == IF z.inverted # 0 THEN z.inverted ELSE Larger(z.mitigated, z.key.trigger)

\* The first second after that at which price trades in the zone.
RetestAt(x, z) ==
  First({j \in (Anchor(z) + 1)..Smaller(Len(x.bars), Anchor(z) + RetestAge) : TradesIn(z.key, x.bars[j])})

\* An inverted zone is traded against its direction, and so is the trend.
Side(z) == IF z.inverted # 0 THEN -z.key.dir ELSE z.key.dir

\* The trend of a second is that of its structure bar, or of the last whole one.
Bias(x, j) == IF Len(x.trend) > 2 * PivotLen THEN x.trend[ToldBar(j, Len(x.trend))] ELSE 0

FollowsBias(x, j, dir, reverse) ==
  x.gate => (IF reverse THEN -Bias(x, j) ELSE Bias(x, j)) \in {0, dir}

RecentlyAnchored(x, z) ==
  Lookback > 0 => /\ z.mitigated # 0 \/ z.inverted # 0
                  /\ RetestAt(x, z) - Anchor(z) <= Lookback

\* A live zone has at most one retest entry.  The source "fvg" takes the zones that
\* are not inverted, "ifvg" those that are.
Source(z) == IF z.inverted # 0 THEN "ifvg" ELSE "fvg"

Retest(x, z) ==
  {[source |-> Source(z), zone |-> z.key, at |-> j, dir |-> Side(z)] :
     j \in {k \in {RetestAt(x, z)} \ {0} :
              /\ z.live
              /\ Touches(x, z.key) >= MinTouches
              /\ z.inverted # 0 => z.inverted - z.key.trigger >= MinInversionAge
              /\ RecentlyAnchored(x, z)
              /\ FollowsBias(x, k, Side(z), z.inverted # 0 /\ ReversesBias)}}

\* Both sources place a stop order beyond the edge of every zone that is live at the
\* end of the series, inverted or not, from the second after its trigger on.
SweepOrders(x, z) ==
  {[source |-> source, zone |-> z.key, at |-> Smaller(z.key.trigger + 1, Len(x.bars)), dir |-> z.key.dir] :
     source \in {src \in {"fvg", "ifvg"} :
                   /\ z.live
                   /\ z.key.high - z.key.low >= MinSweepWidth
                   /\ FollowsBias(x, Smaller(z.key.trigger + 1, Len(x.bars)), z.key.dir,
                                  src = "ifvg" /\ ReversesBias)}}

ZoneEntries(x) == UNION {Retest(x, z) \union SweepOrders(x, z) : z \in TestedZones(x)}

InverseEntries(x) == {e \in UNION {Retest(x, z) : z \in TestedZones(x)} : e.source = "ifvg"}

-----------------------------------------------------------------------------
\* Opening ranges.  Every day that has begun its range has one.
Day(j) == (j - 1) \div DayLength
Clock(j) == (j - 1) % DayLength

OpeningRange(x, d) ==
  {j \in DOMAIN x.bars : Day(j) = d /\ RangeStart <= Clock(j) /\ Clock(j) < RangeStart + RangeLength}

PastOpening(x, d) == {j \in DOMAIN x.bars : Day(j) = d /\ RangeStart + RangeLength <= Clock(j)}

\* mutant: a later breakout replaces the first one
BreaksOutAgain(x, d, side) ==
  LET beyond == {j \in PastOpening(x, d) :
                   \A k \in OpeningRange(x, d) : Beyond(side, x.bars[j].close, Extreme(x.bars, side, k))}
  IN IF beyond = {} THEN 0 ELSE Greatest(beyond)

\* The first close on either side that is beyond the whole range.
BreaksOut(x, d, side) ==
  First({j \in PastOpening(x, d) :
           \A k \in OpeningRange(x, d) : Beyond(side, x.bars[j].close, Extreme(x.bars, side, k))})

OrbEntries(x) ==
  {e \in {[at |-> BreaksOut(x, p[1], p[2]), dir |-> Direction(p[2])] :
            p \in {d \in {Day(j) : j \in DOMAIN x.bars} : OpeningRange(x, d) # {}} \X Sides} :
     e.at # 0 /\ FollowsBias(x, e.at, e.dir, FALSE)}

\* A spring trades below the range of the seconds before it and closes back above
\* its low; an upthrust mirrors it.  A second that is both counts as a spring.
Fails(x, j, side) ==
  /\ j > RangeLookback
  /\ LET before == (j - RangeLookback)..(j - 1)
     IN /\ \A k \in before : Beyond(side, Extreme(x.bars, side, j),
                                    Extreme(x.bars, side, k) + Direction(side) * SpringBreak)
        /\ \E k \in before : Beyond(side, Extreme(x.bars, side, k), x.bars[j].close)

WyckoffEntries(x) ==
  {e \in {[at |-> j, dir |-> IF Fails(x, j, "low") THEN 1 ELSE -1] :
            j \in {k \in DOMAIN x.bars : Fails(x, k, "low") \/ Fails(x, k, "high")}} :
     FollowsBias(x, e.at, e.dir, FALSE)}

-----------------------------------------------------------------------------
\* The last second whose trend this step leaves as it was: the seconds of a structure
\* bar that was not over are told its own trend when it is.
Settled(gate) == IF gate /\ bars' # bars THEN LastSecond(Len(bars)) ELSE Len(seconds)

\* The sources "orb" and "wyckoff" do not look ahead: more data adds entries at its
\* own seconds and leaves those of earlier seconds as they are.  With the gate on this
\* holds of the seconds of whole structure bars.
RangeEntriesAreCausal ==
  [][Warm => \A gate \in Gates :
     LET Told(x) == {e \in OrbEntries(x) \union WyckoffEntries(x) : e.at <= Settled(gate)}
     IN Told(Series(gate)') = Told(Series(gate))]_zoneVars

\* The entries at zones do look ahead.  An entry that more data adds at a settled
\* second is of one of three kinds: its zone had been dropped as born dead, had been
\* touched too seldom, or had been superseded by a zone of the unfinished candle.
BackdatedEntries ==
  [][Warm => \A gate \in Gates :
     LET old == Series(gate)
         new == Series(gate)'
     IN \A e \in ZoneEntries(new) \ ZoneEntries(old) :
          \/ e.at > Settled(gate)
          \/ ~\E z \in TestedZones(old) : z.key = e.zone
          \/ Touches(old, e.zone) < MinTouches
          \/ \E z \in TestedZones(old) : z.key = e.zone /\ Provisional(z)]_zoneVars

\* The entry on the retest of an inverted zone does not move when more data arrives;
\* it is only taken back with the zone, or because its second is told another trend.
InverseEntriesAreFinal ==
  [][Warm => \A gate \in Gates :
     LET old == Series(gate)
         new == Series(gate)'
     IN \A e \in InverseEntries(old) \ InverseEntries(new) :
          \/ ~\E y \in TestedZones(new) : y.key = e.zone /\ y.live
          \/ e.at > Settled(gate)]_zoneVars
=============================================================================
