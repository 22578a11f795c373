------------------------------ MODULE Backtest ------------------------------
(***************************************************************************)
(* The bar loop of run_ict_backtest (src/backtest/ict_backtest.py).        *)
(*                                                                         *)
(* Zones and retest signals are computed before the loop, from all of the  *)
(* data: a zone's flags are final, an "fvg" signal is the retest of a zone *)
(* that is never inverted and an "ifvg" signal that of an inverted one, in *)
(* the direction against it (FvgZones!Signals).  When a signal comes is    *)
(* left open, and so is where price goes.  One step is one bar, in the     *)
(* order of the loop's body.  A bar is one second.                         *)
(***************************************************************************)
EXTENDS Integers, Sequences, FiniteSets, Selection

CONSTANTS
  Bars,           \* the bars that may come: records [open, high, low, close]
  Zones,          \* zones with a signal in the data: [low, high, dir, inverted]
  Sizes,          \* what compute_layer_sl_tp may return: records [stop, target]
  SniperMode,     \* entry_mode = "sniper"
  RankSkip,       \* the fvg_rolling treatment may drop signals (fvg_rolling_skip_pct_above < 1)
  NumLayers,      \* layers of a ladder
  Lifetime,       \* seconds for which a layer stays pending, 0: for ever
  MaxAge,         \* the same for a sniper
  RegimeGate,     \* snipers wait while the market is calm
  MinWidth,       \* narrower zones get no inverse trade
  SlMult,         \* stop and target of an inverse trade, in zone widths
  TpMult,
  InvTrades,      \* a soft stop opens an inverse trade
  MaxPer,         \* at most so many per zone
  Grace,          \* seconds after its entry in which a trade gets no soft stop
  IgnoreAligned,  \* nor does a trade that is aligned with structure at its entry
  Buffer,         \* distance of a soft stop from its zone
  RenkoBuffer,    \* the same for a soft stop that Renko sets
  Brick,          \* size of a Renko brick
  MinBricks,      \* bricks that make a reversal, 0: Renko is not used
  Decay,          \* <<seconds held, stop in percent>>, in the order given
  TrailBy,        \* distance of the trailing stop, 0: none
  TrailFrom,      \* profit from which on it is set
  TieBreak,       \* when a bar reaches both stop and target
  MaxBars         \* bound: bars in the data

Zone == [low : Int, high : Int, dir : {1, -1}, inverted : BOOLEAN]

ConstantsAssumption ==
  /\ Bars \subseteq [open : Int, high : Int, low : Int, close : Int]
  /\ Zones \subseteq Zone
  /\ \A z \in Zones : z.low < z.high /\ (z.high - z.low) % (NumLayers - 1) = 0
  /\ Sizes \subseteq [stop : Nat, target : Nat]
  /\ NumLayers \in Nat \ {0, 1}
  /\ {Lifetime, MaxAge, MinWidth, SlMult, TpMult, Grace, Buffer, RenkoBuffer,
      MinBricks, TrailBy, TrailFrom, MaxBars} \subseteq Nat
  /\ {MaxPer, Brick} \subseteq Nat \ {0}
  /\ {SniperMode, RankSkip, RegimeGate, InvTrades, IgnoreAligned} \subseteq BOOLEAN
  /\ TieBreak \in {"sl_first", "tp_first", "tp_if_wider"}
  /\ Decay \in Seq(Nat \X Nat)
ASSUME ConstantsAssumption

VARIABLES
  bar,      \* bars processed
  price,    \* the last close
  renko,    \* the last brick
  todo,     \* zones whose signal is still to come
  snipers,  \* pending_sniper_layers
  layers,   \* pending_layers
  inverse,  \* pending_inv_layers
  used,     \* inv_zone_count
  trades,   \* open_trades
  closed,   \* closed_trades
  fate,     \* what has become of the snipers
  skipped,  \* a bar has been left in the middle (history: read by no action)
  ended     \* the positions left at the end of the data are closed

vars == <<bar, price, renko, todo, snipers, layers, inverse, used, trades, closed, fate,
          skipped, ended>>

-----------------------------------------------------------------------------
\* Signals of a bar, sorted by direction.  Each zone gives one signal.
SignalDir(z) == IF z.inverted THEN -z.dir ELSE z.dir

Arrivals ==
  {<<>>} \union {<<z>> : z \in todo} \union
  {pair \in todo \X todo : pair[1] # pair[2] /\ SignalDir(pair[1]) <= SignalDir(pair[2])}

\* In sniper mode the first signal of a bar is taken for a sniper.
Intercepted(signals, i) ==
  IF SniperMode /\ signals # <<>>
  THEN <<[zone |-> Head(signals), dir |-> SignalDir(Head(signals)), at |-> i]>> ELSE <<>>

\* The next one goes on to the ladder, unless layers of its zone are pending; any
\* further signals of the bar are dropped.
LadderPrice(z, dir, k) ==
  LET step == (z.high - z.low) \div (NumLayers - 1)
  IN IF dir = 1 THEN z.low + (k - 1) * step ELSE z.high - (k - 1) * step

Offered(signals) == IF SniperMode /\ signals # <<>> THEN Tail(signals) ELSE signals

TakesLadder(signals) ==
  /\ Offered(signals) # <<>>
  /\ \A k \in DOMAIN layers : layers[k].zone # Head(Offered(signals))

Ladder(signals, sizes, i) ==
  LET z == Head(Offered(signals))
  IN IF ~TakesLadder(signals)
     THEN <<>>
     ELSE [k \in 1..NumLayers |->
             [by |-> "ladder", layer |-> k, zone |-> z, dir |-> SignalDir(z), at |-> i,
              price |-> LadderPrice(z, SignalDir(z), k),
              stop |-> sizes[k].stop, target |-> sizes[k].target]]

-----------------------------------------------------------------------------
\* The sniper walk.
Width(z) == z.high - z.low

\* mutant: the regime is tested before the age
VerdictCalmFirst(sp, i, calm) ==
  IF calm THEN "waits"
  ELSE IF MaxAge > 0 /\ i - sp.at > MaxAge THEN "expired"
  ELSE IF ~sp.zone.inverted THEN "waits"
  ELSE IF Width(sp.zone) < MinWidth \/ used[sp.zone] >= MaxPer THEN "cancelled"
  ELSE "fires"

\* Zones that have been superseded or have played out give no signal, so the tests
\* for them never cancel a sniper here; and a zone has one sniper.
Verdict(sp, i, calm) ==
  IF MaxAge > 0 /\ i - sp.at > MaxAge THEN "expired"
  ELSE IF calm \/ ~sp.zone.inverted THEN "waits"
  ELSE IF Width(sp.zone) < MinWidth \/ used[sp.zone] >= MaxPer THEN "cancelled"
  ELSE "fires"

\* An order to enter at the open of the next bar.
InverseOrder(by, z, dir, i) ==
  [by |-> by, layer |-> 0, zone |-> z, dir |-> dir, at |-> i + 1,
   stop |-> Width(z) * SlMult, target |-> Width(z) * TpMult]

-----------------------------------------------------------------------------
\* Fills.  The price at which a bar is worst and best for a direction:
Worst(b, dir) == IF dir = 1 THEN b.low ELSE b.high
Best(b, dir) == IF dir = 1 THEN b.high ELSE b.low

\* price is at or beyond level, seen in direction dir
Reaches(dir, at, level) == dir * (at - level) >= 0

TooOld(layer, i) == Lifetime > 0 /\ i - layer.at > Lifetime

\* mutant: a layer may fill on the bar that submits it
FillsAtOnce(layer, b, i) == ~TooOld(layer, i) /\ Reaches(-layer.dir, Worst(b, layer.dir), layer.price)

Fills(layer, b, i) ==
  /\ i > layer.at
  /\ ~TooOld(layer, i)
  /\ Reaches(-layer.dir, Worst(b, layer.dir), layer.price)

Remains(layer, b, i) == i <= layer.at \/ (~TooOld(layer, i) /\ ~Fills(layer, b, i))

\* thesis: the direction that market structure supports at the bar, 0 if none.
Opened(order, entry, i, thesis) ==
  [by |-> order.by, layer |-> order.layer, zone |-> order.zone, dir |-> order.dir,
   at |-> order.at, bar |-> i, entry |-> entry, stop |-> order.stop, target |-> order.target,
   aligned |-> IgnoreAligned /\ order.dir = thesis, soft |-> {}]

-----------------------------------------------------------------------------
\* Soft stops.  A trade of an inverted zone gets one, but of the trades of a zone
\* only the first in the list that could get one on this bar.
SoftLevel(t, buffer) == (IF t.dir = 1 THEN t.zone.low ELSE t.zone.high) - t.dir * buffer

MayTighten(t, i) ==
  /\ ~(Grace > 0 /\ i - t.bar < Grace)
  /\ ~t.aligned
  /\ t.soft = {}
  /\ t.zone.inverted

Tightens(open, k, i) ==
  /\ MayTighten(open[k], i)
  /\ \A l \in 1..(k - 1) : open[l].zone = open[k].zone => ~MayTighten(open[l], i)

\* mutant: inverse trades are not counted
EmitsUncounted(open, k, i) ==
  InvTrades /\ Tightens(open, k, i) /\ Width(open[k].zone) >= MinWidth

EmitsInverse(open, k, i) ==
  /\ InvTrades
  /\ Tightens(open, k, i)
  /\ Width(open[k].zone) >= MinWidth
  /\ used[open[k].zone] < MaxPer

\* Renko bricks: at most one per bar, also when price has gone further.
NextBrick(last, close) ==
  LET dir == IF close >= last.close + Brick THEN 1
             ELSE IF close <= last.close - Brick THEN -1 ELSE 0
  IN IF dir = 0 THEN last
     ELSE [dir |-> dir, close |-> last.close + dir * Brick,
           streak |-> IF last.dir # dir THEN 1
                      ELSE IF last.streak < MinBricks THEN last.streak + 1 ELSE last.streak]

\* The bar of the very first brick still shows no direction.
Reverses(t, last, next) ==
  /\ MinBricks > 0
  /\ last.dir # 0
  /\ t.soft = {}
  /\ ~t.aligned
  /\ next.dir = -t.dir
  /\ next.streak >= MinBricks
  /\ IF t.dir = 1 THEN next.close < t.zone.low ELSE next.close > t.zone.high

Softened(open, i, last, next) ==
  [k \in DOMAIN open |->
     IF Tightens(open, k, i) THEN [open[k] EXCEPT !.soft = {SoftLevel(open[k], Buffer)}]
     ELSE IF Reverses(open[k], last, next)
     THEN [open[k] EXCEPT !.soft = {SoftLevel(open[k], RenkoBuffer)}]
     ELSE open[k]]

-----------------------------------------------------------------------------
\* Exits.  The first entry of the schedule that the trade is old enough for counts.
DecayLevels(t, i) ==
  LET reached == {k \in DOMAIN Decay : i - t.bar >= Decay[k][1]}
  IN {t.entry - t.dir * ((t.stop * Decay[k][2]) \div 100) :
        k \in {l \in reached : \A j \in reached : l <= j}}

TrailLevels(t, close) ==
  IF TrailBy > 0 /\ t.dir * (close - t.entry) >= TrailFrom THEN {close - t.dir * TrailBy} ELSE {}

OriginalStop(t) == t.entry - t.dir * t.stop

\* mutant: a soft stop replaces the other levels
StopSoft(t, i, close) ==
  IF t.soft # {} THEN CHOOSE x \in t.soft : TRUE
  ELSE IF DecayLevels(t, i) # {} THEN CHOOSE x \in DecayLevels(t, i) : TRUE ELSE OriginalStop(t)

\* The most protective of the levels.
Stop(t, i, close) ==
  LET levels == {OriginalStop(t)} \union t.soft \union DecayLevels(t, i) \union TrailLevels(t, close)
  IN CHOOSE x \in levels : \A y \in levels : Reaches(t.dir, x, y)

Target(t) == t.entry + t.dir * t.target

StopHit(t, b, i) == Reaches(-t.dir, Worst(b, t.dir), Stop(t, i, b.close))
TargetHit(t, b) == Reaches(t.dir, Best(b, t.dir), Target(t))

TargetFirst(t) == TieBreak = "tp_first" \/ (TieBreak = "tp_if_wider" /\ t.target >= t.stop)

Exits(t, b, i) == StopHit(t, b, i) \/ TargetHit(t, b)

Closed(t, exit, reason) ==
  [by |-> t.by, zone |-> t.zone, dir |-> t.dir, at |-> t.at, bar |-> t.bar, entry |-> t.entry,
   stop |-> t.stop, target |-> t.target, exit |-> exit, reason |-> reason]

Exited(t, b, i) ==
  IF TargetHit(t, b) /\ (StopHit(t, b, i) => TargetFirst(t))
  THEN Closed(t, Target(t), "tp")
  ELSE Closed(t, Stop(t, i, b.close), IF t.soft # {} THEN "inv" ELSE "sl")

-----------------------------------------------------------------------------
Init ==
  /\ bar = 0
  /\ price = 0
  /\ renko = [dir |-> 0, close |-> 0, streak |-> 0]
  /\ todo = Zones
  /\ snipers = <<>> /\ layers = <<>> /\ inverse = <<>>
  /\ used = [z \in Zones |-> 0]
  /\ trades = <<>> /\ closed = <<>>
  /\ fate = [submitted |-> 0, triggered |-> 0, cancelled |-> 0, expired |-> 0]
  /\ skipped = FALSE /\ ended = FALSE

\* The parts of the loop's body.  The walk over the snipers:
With(watched, verdict, i, calm) == {k \in DOMAIN watched : Verdict(watched[k], i, calm) = verdict}

Walk(watched, submitted, i, calm) ==
  /\ snipers' = Select(watched, With(watched, "waits", i, calm))
  /\ fate' = [submitted |-> fate.submitted + Len(submitted),
              triggered |-> fate.triggered + Cardinality(With(watched, "fires", i, calm)),
              cancelled |-> fate.cancelled + Cardinality(With(watched, "cancelled", i, calm)),
              expired   |-> fate.expired + Cardinality(With(watched, "expired", i, calm))]

\* the orders of the bar before and those of the snipers that fire,
Orders(watched, i, calm) ==
  inverse \o Select([k \in DOMAIN watched |->
                       InverseOrder("sniper", watched[k].zone, -watched[k].dir, i)],
                    With(watched, "fires", i, calm))

Due(orders, i) == {k \in DOMAIN orders : orders[k].at = i}

\* the trades that are open once layers and orders have been filled,
Open(pending, orders, b, i, thesis) ==
  trades \o Select([k \in DOMAIN pending |-> Opened(pending[k], pending[k].price, i, thesis)],
                   {k \in DOMAIN pending : Fills(pending[k], b, i)})
         \o Select([k \in DOMAIN orders |-> Opened(orders[k], b.open, i, thesis)], Due(orders, i))

\* the inverse trades that soft stops open,
Emit(open, orders, i) ==
  LET emitting == {k \in DOMAIN open : EmitsInverse(open, k, i)}
  IN /\ inverse' = Select(orders, DOMAIN orders \ Due(orders, i)) \o
                   Select([k \in DOMAIN open |->
                             InverseOrder("inv", open[k].zone, -open[k].dir, i)], emitting)
     /\ used' = [z \in Zones |-> used[z] + Cardinality({k \in emitting : open[k].zone = z})]

\* and the exits.
Leave(held, b, i) ==
  LET exiting == {k \in DOMAIN held : Exits(held[k], b, i)}
  IN /\ trades' = Select(held, DOMAIN held \ exiting)
     /\ closed' = closed \o Select([k \in DOMAIN held |-> Exited(held[k], b, i)], exiting)

\* The brick that a bar starts from: bricks are made of the whole series, before the loop.
Base(b) == IF bar = 0 THEN [renko EXCEPT !.close = b.close] ELSE renko

Advance(b, signals) ==
  /\ ~ended
  /\ bar < MaxBars
  /\ bar' = bar + 1
  /\ price' = b.close
  /\ renko' = NextBrick(Base(b), b.close)
  /\ todo' = todo \ {signals[k] : k \in DOMAIN signals}

\* The body of the loop.
NextBar(b, signals, calm, thesis, sizes) ==
  LET i       == bar + 1
      watched == snipers \o Intercepted(signals, i)
      pending == layers \o Ladder(signals, sizes, i)
      orders  == Orders(watched, i, calm)
      open    == Open(pending, orders, b, i, thesis)
  IN /\ Advance(b, signals)
     /\ Walk(watched, Intercepted(signals, i), i, calm)
     /\ layers' = Select(pending, {k \in DOMAIN pending : Remains(pending[k], b, i)})
     /\ Emit(open, orders, i)
     /\ Leave(Softened(open, i, Base(b), NextBrick(Base(b), b.close)), b, i)
     /\ UNCHANGED <<skipped, ended>>

\* The signal for the ladder is of a zone whose rank is beyond the cut-off: it is dropped
\* by a continue, and with it all that the body has after the ladder.
SkipBar(b, signals) ==
  /\ RankSkip
  /\ TakesLadder(signals)
  /\ Advance(b, signals)
  /\ snipers' = snipers \o Intercepted(signals, bar + 1)
  /\ fate' = [fate EXCEPT !.submitted = @ + Len(Intercepted(signals, bar + 1))]
  /\ skipped' = TRUE
  /\ UNCHANGED <<layers, inverse, used, trades, closed, ended>>

\* After the loop: what is open is closed at the last close, and stays in the list
\* from which open_lots_at_eod is added up.  Data of one bar are not looked at.
EndOfData ==
  /\ ~ended
  /\ bar > 1
  /\ ended' = TRUE
  /\ closed' = closed \o [k \in DOMAIN trades |-> Closed(trades[k], price, "eod")]
  /\ UNCHANGED <<bar, price, renko, todo, snipers, layers, inverse, used, trades, fate,
                 skipped>>

Next ==
  \/ \E b \in Bars, signals \in Arrivals, calm \in {FALSE, RegimeGate},
        thesis \in {-1, 0, 1}, sizes \in [1..NumLayers -> Sizes] :
       NextBar(b, signals, calm, thesis, sizes)
  \/ \E b \in Bars, signals \in Arrivals : SkipBar(b, signals)
  \/ EndOfData

Spec == Init /\ [][Next]_vars

-----------------------------------------------------------------------------
Sniper == [zone : Zones, dir : {1, -1}, at : 1..MaxBars]

Layer == [by : {"ladder"}, layer : 1..NumLayers, zone : Zones, dir : {1, -1}, at : 1..MaxBars,
          price : Int, stop : Nat, target : Nat]

Order == [by : {"sniper", "inv"}, layer : {0}, zone : Zones, dir : {1, -1},
          at : 1..(MaxBars + 1), stop : Nat, target : Nat]

Trade == [by : {"ladder", "sniper", "inv"}, layer : 0..NumLayers, zone : Zones, dir : {1, -1},
          at : 1..MaxBars, bar : 1..MaxBars, entry : Int, stop : Nat, target : Nat,
          aligned : BOOLEAN, soft : {levels \in SUBSET Int : \A x, y \in levels : x = y}]

ClosedTrade == [by : {"ladder", "sniper", "inv"}, zone : Zones, dir : {1, -1}, at : 1..MaxBars,
                bar : 1..MaxBars, entry : Int, stop : Nat, target : Nat, exit : Int,
                reason : {"tp", "sl", "inv", "eod"}]

TypeOK ==
  /\ bar \in 0..MaxBars /\ price \in Int /\ skipped \in BOOLEAN /\ ended \in BOOLEAN
  /\ renko \in [dir : {-1, 0, 1}, close : Int, streak : 0..(MinBricks + 1)]
  /\ todo \subseteq Zones
  /\ snipers \in Seq(Sniper)
  /\ layers \in Seq(Layer)
  /\ inverse \in Seq(Order)
  /\ \A k \in DOMAIN snipers : snipers[k].zone \notin todo /\ snipers[k].at <= bar
  /\ \A k \in DOMAIN layers : layers[k].zone \notin todo /\ layers[k].at <= bar
  /\ used \in [Zones -> 0..MaxPer]
  /\ trades \in Seq(Trade)
  /\ closed \in Seq(ClosedTrade)
  /\ fate \in [submitted : Nat, triggered : Nat, cancelled : Nat, expired : Nat]

\* n_sniper_* add up: every sniper has one fate or is pending, and none is pending
\* for longer than sniper_max_age_secs, whatever the regime gate does (until a bar is
\* skipped: a skipped bar has no walk).
SnipersSettle ==
  /\ fate.submitted = fate.triggered + fate.cancelled + fate.expired + Len(snipers)
  /\ MaxAge > 0 /\ ~skipped => \A k \in DOMAIN snipers : bar - snipers[k].at <= MaxAge

\* An order waits for no other bar than the one that comes next.
OrdersFillNextBar == \A k \in DOMAIN inverse : inverse[k].at = bar + 1

\* No look-ahead in the entries: a layer fills on a bar after its signal's, an
\* inverse trade opens on the bar for which it is ordered, and, until a bar is skipped,
\* every order is for the next bar: none is missed.
EntriesFollowOrders ==
  LET all == {trades[k] : k \in DOMAIN trades} \union {closed[k] : k \in DOMAIN closed}
  IN /\ \A t \in all : IF t.by = "ladder" THEN t.bar > t.at ELSE t.bar = t.at
     /\ ~skipped => OrdersFillNextBar

\* The inverse trades of a zone that are ordered, open or closed.
On(s, z, by) == Cardinality({k \in DOMAIN s : s[k].zone = z /\ s[k].by = by})
Made(z, by) == On(inverse, z, by) + On(closed, z, by) + (IF ended THEN 0 ELSE On(trades, z, by))

\* However many layers, inverse trades of inverse trades and bars: soft stops open no
\* more than fvg_inv_trade_max_per_zone trades on a zone, and snipers one.
InverseTradesCapped ==
  \A z \in Zones, by \in {"sniper", "inv"} : Made(z, by) <= IF by = "sniper" THEN 1 ELSE MaxPer

\* A trade loses at most the stop it was opened with and wins at most its target,
\* whichever of its stops closes it; only the end of the data closes elsewhere.
LossesAreBounded ==
  \A k \in DOMAIN closed :
    LET t == closed[k] gain == t.dir * (t.exit - t.entry)
    IN t.reason # "eod" => gain >= -t.stop /\ (t.reason = "tp" => gain = t.target)

\* Of two entries of the schedule the earlier in the list, when it comes later in
\* time, is the tighter one.
DecayTightens ==
  \A j, k \in DOMAIN Decay : j < k /\ Decay[j][1] > Decay[k][1] => Decay[j][2] <= Decay[k][2]

\* Without a trailing stop, and with a schedule that tightens, the stop of an open
\* trade never moves away from price.
StopNeverLoosens ==
  [][TrailBy = 0 /\ DecayTightens =>
       \A k \in DOMAIN trades, l \in DOMAIN trades' :
         [trades'[l] EXCEPT !.soft = trades[k].soft] = trades[k] =>
           Reaches(trades[k].dir, Stop(trades'[l], bar', price'), Stop(trades[k], bar, price))]_vars

\* "mirrors the bar-loop's sniper intercept + inversion-watch": the live engine
\* trades a sniper against the direction of its zone.
SnipersMirrorLive ==
  \A k \in DOMAIN inverse : inverse[k].by = "sniper" => inverse[k].dir = -inverse[k].zone.dir
=============================================================================
