# Verification of the ICT engine: live loop, detectors, backtest

TLA+ modules, TLC runs and TLAPS proofs about the trading engine of this
repository. Paths below are relative to the repository root (`src/live/...` is
the package); PROJECT.json gives, for each definition, the lines it translates.

## 1. Inventory

The repository has two programs. The *live engine* (`src/live`) is one asyncio
process that turns trades into bars, bars into fair-value-gap zones and pending
snipers, and fired snipers into orders at the broker. The *research code*
(`src/core`, `src/backtest`) holds the detectors the live engine calls and the
backtest whose decisions it is meant to repeat. Concurrency, failure and
recovery are in the first; index arithmetic and the order of tests in the second.

| Component | State it keeps | Operations | What makes it correct |
|---|---|---|---|
| Order manager (`order_manager.py`) and the handler (`main._on_sniper`) | `_open`, the `orders` table, failsafe `broker_reject_freeze` | submit a sniper's market order, retry it, attach stop loss and take profit, cancel all | no sniper's order executes twice; every order has a row before it can execute; rows tell the truth; the open-trade limit; a handler returns |
| Bar loop and sniper pool (`live_backtest.py`) | `_zones`, `_zones_by_id`, `_next_zone_id`, `_pending`, tables `fvg_zones`, `pending_snipers` | `on_bar`, `_refresh_zones`, `_intercept_new_signals`, `_walk_pending_snipers`, `_load_persisted_state` | a sniper fires once; a pending row is watched; a fate is final; every sniper is settled; ids name one zone |
| Lifecycle (`main.run`, `shutdown.py`) | the shutdown event, four tasks, the cleanup list | start, wait for the first completion, cancel, clean up | runs until told to stop; nothing uses the store after it is closed |
| Store (`state_store.py`) | SQLite tables, autocommit | one statement per write | a restart loses no open state |
| Broker client (`binance_client.py`) | HTTP session, stream | signed requests, reconnecting stream | errors are classified as the callers assume |
| Reconciler (`reconciler.py`) | counters, failsafe `account_drift` | every 60 s: list orders, compare, mark | ends up agreeing with the broker |
| Feed and aggregator (`feed_handler.py`, `bar_aggregator.py`) | current bar, `last_feed_ns` | trade in, closed bar out | bars are ordered and contiguous |
| Failsafes, heartbeat, health (`main.py`, `health.py`, `metrics.py`) | `failsafes`, `heartbeat` | set, clear at midnight, read | a set failsafe stops trading |
| Market structure (`market_structure.py`) | none between calls; within one, the last swings and the last break | swings, breaks (BoS/CHoCH), sweeps, order blocks, conviction, memory | a break is the first close through its swing; characters fit the trend; earlier bars are told the same later |
| FVG detector (`ict_signals.py`) | none (a function of the window) | form, supersede, mitigate, invert, play out, reject | what one window says of a zone holds in the next one |
| Entries (`ict_signals.py`) | none (a function of the series) | retests, sweep orders, opening range, springs and upthrusts | no entry uses bars after it |
| Backtest (`ict_backtest.py`, `ict_strategy.py`) | open trades, orders for the next bar, pending snipers, inverse counts, bricks | bar loop | orders fill in time, risk is bounded, snipers settle, the live loop takes the same decisions |
| Data fetcher (`tools/fetch_binance_aggtrades.py`) | cached files, two checkpoints | download, resample, combine | a month that is marked complete is complete |

How they interact. The stream gives trades to `FeedHandler`, the aggregator closes bars, and `FeedHandler` calls `on_bar` for a closed bar.
`on_bar` runs to its end without awaiting and creates a task for
`_walk_pending_snipers`, which nothing waits for. The walk awaits `_on_sniper`
for each sniper that fires; that awaits `submit_sniper_market`, whose awaits are
the token bucket and the broker. `on_bar` calls the detectors anew on its
ring buffer for every bar; the backtest calls them once on its whole series and then walks the bars. The reconciler, the heartbeat and the rollup are further
tasks; all share the store. So the hard behaviours are: walks of successive bars
that overlap, checks made before an await and used after it, answers of the
broker that get lost, a process that dies between any two writes, a stream that breaks
between two trades, and detectors whose answer about an earlier bar depends on later ones.
PROJECT.json lists each of these hazards at its line.

## 2. Modules

**`OrderLedger`** is the abstract promise about entry orders: an order is
recorded before it may execute, records are never forgotten, and each sniper's order
executes at most once.

**`OrderManager`** models `submit_sniper_market`, `_submit_with_retry`, both legs,
the reject freeze and the handler around them. A *call* is one invocation of the handler.
What a call does between two awaits is one step; a broker round trip is two, the
broker's (`BrokerExecutesEntry`, `BrokerRefusesEntry`, and the same for legs) and the resumption
with the answer (`EntryAcked`, `EntryRetried`, `EntryRejected`, `EntryErrored`,
`LegAcked`, `LegRejected`, `LegErrored`). A broker that executes may still
answer with a server error or not at all. Each write of the store commits by itself, so the
process can die at an await (`Restart`) and between two writes of one resumption (`DiesBetweenWrites`): a fill is on
record and the row of its stop loss is not. Both keep the tables and forget `_open` and the calls. The entry's client order id is the sniper
(`make_client_order_id` is deterministic), a leg's is the call (a fresh uuid).

**`SniperPool`** models the bar loop. A zone has one of the phases the walk
tells apart (active, inverted, dead). The detectors are an
environment: on a bar they may stop reporting any zone (its object stays in
`_zones_by_id`), report it with any phase, and report new ones. That is wider
than what they compute, on purpose: every bar recomputes the window from
scratch, zones are matched by bar index, and the last candle is unfinished, so
the key of a zone and its lifecycle fields do change from bar to bar. `OnBar`
is the whole of `on_bar`, with the writes to both tables; `WalkStarts` and
`HandlerReturned` are the segments of a walk between its awaits; `Restart` is
`_load_persisted_state` after the process died.

**`Lifecycle`** models the tail of `main.run`: four tasks, first completion,
cancellation, cleanups.

**`BarWindow`** is the abstract promise about the bars the detectors are given: a bounded
window of the newest bars, in the order in which they were closed.

**`LiveFeed`** models the way of a trade to that window: the exchange makes trades (`Trades`), the
connection delivers them in order and may break and lose the last of them (`Breaks`), the
feed task takes one at a time (`FirstTrade`, `SameSecond`, `Rollover`, the three branches of
`on_trade`; a rollover contains the whole of `on_bar`'s write into the ring
buffer), and `stream_aggtrade_bookticker` reconnects with a growing wait or
ends (`ClosedCleanly`, `Disconnected`, `OtherException`, `Connect`, `ConnectFails`). `Restart` forgets
bar and ring. `Window` is what `_contig` gives the detectors.

**`MarketStructure`** models `compute_market_structure`. One step (`NextBar`) is one iteration of the
loop over the window: the swing that is confirmed now, the breaks of the last swing that are
looked for in hindsight and committed, and the trend of the bar. What the code
computes after its loop is a set of operators over that state: sweeps, order
blocks, CHoCH+, the expansion of resampled state (`Views`, with the seconds of the bar that is not over, which repeat
the last whole one), conviction, alignment, and the BoS/CHoCH memory.

**`FvgZones`** extends it with `detect_fvg`. A zone's history is a function of the window (`Lifecycle`, `Zones`), as it is in
the code, which recomputes it for every bar. A step (`NextSecond`) adds a second; every `Resample` seconds make a bar of `MarketStructure`,
every `Candle` seconds a candle in which gaps are looked for, and the last candle may be unfinished. The scan for a run of piercing closes is the
code's index arithmetic (`FalseIdx`, `SearchSorted`, `Streak`, `Qualifying`). Action properties compare what two successive windows say.

**`Signals`** extends `FvgZones` with the entries of the backtest: `fvg_retest_signals` with its filters, sweep orders,
`detect_orb` and `orb_signals`, springs and upthrusts of `detect_wyckoff`. The backtest computes them once over its whole
series. What a longer series says differently of an earlier second is look-ahead, so
a step that adds a second shows all of it.

**`Backtest`** models the bar loop of `run_ict_backtest`. One step (`NextBar`) is one bar, with
all that the code does in it, in its order: new signals and the sniper intercept, the
walk over pending snipers, fills of the orders of the bar before, soft stops and the inverse
trades they open, Renko bricks, decay and trailing of the stop, exits. Each of these parts is an operator
(`Walk`, `Orders`, `Open`, `Emit`, `Leave` and what they use), so that the proof can go through them one by one. `EndOfData`
closes what is open. `SkipBar` is a bar that ends in the middle: the rank of the ladder's signal is beyond
the cut-off and a `continue` leaves the rest of the body. Ranks are not computed; with `RankSkip` any ladder signal may be the one.
`skipped`, which no action reads, remembers that it has happened.

**`Selection`** holds the elements of a sequence at given positions; the lists of the backtest are filtered with it.

**`MC*`** modules give TLC its model values; the **`*Proofs`** modules hold the theorems.

How they are composed: `Signals` EXTENDS `FvgZones` EXTENDS `MarketStructure`, and `LiveFeed` and
`OrderManager` instantiate their abstract specifications. `SniperPool` does not instantiate the
detectors but allows more than they do (above), and `FvgZones` shows what they guarantee
from one window to the next; the order manager is in `SniperPool` a handler
that returns some time, which is `HandlerReturns`. `Backtest` takes entries as arbitrary arrivals, which `Signals`
would narrow.

`Lifecycle` and the other two components have to be read together. As the code
stands, `run()` stops the engine right after it has started (run
`lifecycle_stops`). `OrderManager`, `SniperPool` and `LiveFeed` describe the parts
when something drives them: `run()` with that defect repaired, or the tests
and scripts that construct them.

## 3. Runs

| Run | Shows | States |
|---|---|---|
| `order_overlap` | two calls in flight at once, two of the three for the same sniper, lost answers, retries, a restart: `RecordedBeforeBroker`, `FilledIsReal`, `UntrackedIsExplained`, `UnprotectedIsOnRecord`, and `OrderManager` implements `OrderLedger` | 1,733,789 |
| `order_serial` | one call at a time, no restart: `OpenMeansPosition`, `LegsFollowFill`, `FilledIsFinal`, and under fairness `HandlerReturns` | 54,359 |
| `pool_overlap` | two walks alive together, one process: no pending sniper is lost from the pool (`NoLostSniper`), and every one is settled (`AllSettled`) | 193,116 |
| `pool_serial` | a walk ends before the next bar, one restart: a sniper fires at most once, against a zone of its own direction, and its fate is final | 2,443,656 |
| `live_feed` | lost connections, failed attempts, a restart: bars are candles of trades of their seconds (of all of them, where none was lost), none missed or made twice, the window ascends and is the newest bars, the stream comes back | 683,952 |
| `market_structure` | all windows of seven bars of four shapes: breaks are first closes through swings, each once; characters alternate; the memory follows the trend, also when it has evicted a break; what an arriving bar changes about earlier seconds is bounded; no trend or order block is repainted | 21,845 |
| `fvg_zones` | series of twelve seconds, candles and structure bars of two: the scan's index arithmetic finds the first run of piercing closes; dead zones stay dead and inversions are kept, but for named exceptions; which entries look ahead and which do not | 43,705 |
| `backtest` | all paths of five bars of three shapes with three zones, where ranks may skip the rest of a bar: snipers settle, orders fill in time, inverse trades are capped, losses bounded, stops never loosen (without trailing by distance, and with a schedule that tightens) | 181,464 |
| `order_cap` (violation) | two overlapping calls open two positions under a limit of one | |
| `pool_restart` (violation) | after a restart the first walk drops the reloaded snipers; their rows stay `pending` | |
| `lifecycle_stops` (violation) | the engine shuts itself down | |
| `backtest_mirror` (violation) | a sniper enters with its zone in the backtest, against it in the live engine | |

The passing runs beside the violations say in which regime the property does hold:
`OpenMeansPosition`, `LegsFollowFill` and `FilledIsFinal` need calls that do
not overlap and a process that does not die; `FiresOnce` needs a handler that
is faster than a bar; `NoLostSniper` needs a process that does not restart; that no order is missed and no sniper
outlives its age holds until a bar is skipped (`skipped`). `Concurrency`, `Walks` and `MaxRestarts` are the constants that set the regime of the others.

Some properties describe an imperfection exactly rather than deny it. `HindsightIsBounded` and `NoRepaint`
say which earlier bars a new bar may tell differently, since breaks are committed in
hindsight; the seconds of a structure bar that is not over repeat the last whole one until then. `DeadZonesStayDead` has two exceptions: a zone that only a gap of the
unfinished candle superseded comes back when that gap is gone a second later, and, where zones that live for a second are kept (`MinLifetime < 2`), one that
was rejected by the event its seconds repeated before their own bar was over. `BackdatedEntries` says when a longer series adds an entry at an earlier second: only
at a zone that was missing from the shorter one (dropped by the minimum lifetime), touched too
seldom in it, for touches are counted over the whole series, or superseded in it by the unfinished candle. `InverseEntriesAreFinal` says that
the entries of inverted zones have nothing of this but to be taken back with their zone, and `RangeEntriesAreCausal` that opening
range, springs and upthrusts have nothing of it at all. With the gate on, all three speak of settled seconds (`Settled`): the trend of a second, which the gate
reads, is told anew when its structure bar is over. `UnprotectedIsOnRecord`
says what is left when a stop loss fails: the code neither repeats it nor closes the position,
but the store tells that the position has none. It does not tell of a position whose process died between the write of the fill
and the row of the stop loss, and the property allows one such position for each death.

**Bounds.** *Orders.* Three calls for two snipers give two concurrent calls for one
sniper, two for different ones, and a third that comes after both. `Attempts` is 2
in the overlap run and 3, the code's number, in the serial one: a first and a last attempt
are what the retry loop tells apart. `MaxOpenTrades` is 1 where the limit is the question and
2 where a second call must be admitted. *Pool.* Two zones and two snipers give a pool
with two entries, a sniper that fires after another in the same walk, and an id
used again; two walks are the least that overlap. `fires` is counted to two since
the property asks whether it passes one. `pool_overlap` has one direction, for no property of it reads one.
*Feed.* Four trades of two prices in four seconds fill a ring of two bars and wrap it; two losses
are a connection that breaks and an attempt that fails, so the wait doubles to its largest value. *Structure.* Seven bars of four shapes
with swings of one bar on each side (`PivotLen` 1) give three breaks one after the other, so the memory of two evicts the first, breaks committed out of order, and sweeps;
`Resample` 2 makes a bar that is unfinished at every other second. *Zones and
entries.* Candles and structure bars of two seconds: three candles form a zone, two seconds pierce it (`Needed` 2), one returns, and the last candle
and the last structure bar are unfinished at every other step. The first six seconds set the scene with few shapes, the other six choose among four
(`Ticks`), which leaves room for a supersession that the next second takes back, an inversion, a retest and what follows it; a day of four seconds with a range of two gives
three days. Both settings of the gate are checked. In this run the inverse entries are at bull zones only; a zone superseded by the unfinished candle comes back, and all three causes of `BackdatedEntries` and a trend told anew occur. `MinLifetime` is 2: with less, `DeadZonesStayDead` needs its second exception, which is proved but does not occur here.
*Backtest.* Five bars, three zones and two layers let a sniper arrive, wait, expire or fire, fill on the next bar,
be stopped softly and open the one inverse trade it may; every switch is on except trailing by distance (and, in `backtest_mirror`, `RankSkip`).
The longest run takes one to two minutes.
Deadlock is not checked: the bounds end every behaviour of
these models, and the engine may stop.

**Fairness.** `OrderManager!Fairness`: the HTTP client has a total timeout, so a
round trip ends, and the event loop resumes whoever has an answer. Nothing is
assumed of what the broker answers. `SniperPool!Fairness`: bars keep closing
while a walk slot is free, ready tasks run, a handler returns (this is
`HandlerReturns`), and time passes, so snipers grow old. No fairness is
assumed of the detectors: `AllSettled` rests on the age cap alone.
`LiveFeed!Fairness`: the event loop resumes the feed task when a frame has come or its
sleep has ended, and the clock ticks. Attempts may fail, but only `MaxLosses` times: `Reconnects` says that
the code does not give up before the exchange can be reached again.

## 4. Proofs

All theorems hold for any constants; what they assume of them is `ConstantsAssumption`
of the module, which types them, and the regime a theorem names.

`OrderManagerProofs`:

- `TypeCorrect`: `Spec => []TypeOK`;
- `OvershootBounded` (`Calls` finite, `Concurrency` not 0): how far the violation of `order_cap` can go. Positions whose entries
  did not fail on record number at most `MaxOpenTrades` and the overlapping calls less one;
- `RecordedFirst`, `FilledOnlyIfExecuted`, `UntrackedExplained`: the three
  safety invariants of `order_overlap`;
- `UnprotectedRecorded`: `UnprotectedIsOnRecord`, the fourth, in which each death of the process may cost one position;
- `ImplementsLedger`: `Spec => Ledger!LedgerSpec`, the refinement;
- `SerialOpenMeansPosition`, `SerialLegsFollowFill`, `SerialFilledIsFinal`: the safety properties of
  `order_serial`, in its regime (`Serial`: `Concurrency = 1` and `MaxRestarts = 0`).

None of the invariants is inductive alone. `RecordedBeforeBroker` fails from a
state in which a call is sending without a row, and `FilledIsReal` from one
in which an acknowledgement is under way for an order that never executed. The
strengthening `IInv` adds what connects the three parts: the client ids the
broker has seen are exactly the snipers with one fill (`SeenMeansFilled`); a
sending call has its row (`EntriesRecorded`, `LegsRecorded`); an acknowledgement
stands for an execution (`AcksAreReal`). `NextTypeOK` and `NextIInv` go through
the actions one by one. The refinement follows from `IInv`: every step leaves
`recorded` and `fills` alone, adds a record, or executes an
order that has a record and no execution.

`OvershootBounded` counts what is `Tracked`: the entries in `_open` and the snipers of calls that are still settling theirs. It grows only
when a call is admitted, and then fewer entries than the limit are counted and fewer calls than may overlap are inside.

The serial theorems add two facts that only one call at a time gives: no other call is in flight
(`Alone`), and a row that a leg's call relies on is that of a fill (`FillsFirst`).
`UnprotectedRecorded` needs neither. A call *tells* of its entry (`StopTells`) when it has
set up a stop loss since the fill, and this stop loss works, or has a row that
tells, or has closed the position; a closed position does not open again, for the broker has seen its client id. Filled entries of which no call tells
are `Untold`: a sniper joins them only by `DiesBetweenWrites`, one for each restart (`UntoldStep`), so their number is at most `restarts` (`DeathsExplain`).

`SniperPoolProofs`:

- `PoolTypeCorrect`: `Spec => []TypeOK`, by `Base`: the zones a walk drops are zone
  ids only because all it looks at are rows that exist (`RowsExist`, `WatchedExist`);
- `NoSniperLost` (`MaxRestarts = 0`, any number of overlapping walks): `NoLostSniper`, by
  `Kept`: a walk that resumes may put back a stale list or drop a zone, and this is
  harmless because each zone has one sniper (`OneSniperPerZone`), every zone
  id handed out has an object (`ZonesKnown`), and the zones a walk will drop have
  no pending sniper but the one it fires (`DropsSettled`);
- `FiresAgainstInvertedZone` (any walks, any restarts): `FiresAgainstItsZone`, by `Cold`
  and `Matched`: the first walk of a process precedes every zone and empties the pool of the
  reloaded snipers, so a reused id never meets an old sniper. The very defect of `pool_restart` protects
  this property; a repair that keeps the reloaded snipers has to change the seeding too;
- `SniperFiresOnce` and `StoredFateIsFinal` (`OneWalk`: walks do not overlap; any
  restarts), by `Serial`: what a walk has still to look at, and what stays in the pool,
  is undecided and has not fired.

The steps of a walk share one lemma, `ProceedStep`, which restates what a walk
does between two awaits as: it passes some snipers, keeps some of those, and
either ends or fires the first one that is due. That the least firing sniper exists rests on
`MinExists`, the well-ordering of the naturals.

`LiveFeedProofs` (`ConstantsAssumption` types the constants; prices are integers):

- `FeedTypeCorrect`; `WindowInOrder`: the window ascends; `RingImplementsWindow`: ring, cursor and count implement `BarWindow`;
- `Klines`: a closed bar is the candle of trades of its second, of all of them unless one was lost; `NoneMissed`: every second before the current bar whose trades all arrived has one bar.

`WindowAscends` is not inductive: the bar that is appended next has to be later than the
window, and the trades on the wire later than that. `InOrder` orders wire, current bar and window; `Filling` says where the
ring is filled while it is not full, which is what index arithmetic at exactly
`Warmup` bars depends on.

The candles need an account of every trade (`Accounted`). Some number `a` splits the tape: what is on the wire is the piece after the first `a` trades, and the seconds of those
after that piece are in `gaps` (`Sent`); each of the first `a` trades is of a second that has a closed bar, or is the current bar's, or is in `gaps` (`Covered`); and the current bar
is the candle of trades of its second among the first `a`, of all of them unless the second is in `gaps` (`Growing`). Three facts of candles carry it:
one trade is a candle of itself (`CandleStarts`), a candle grows by a trade to the candle of one place more (`CandleGrows`), and a longer tape leaves it
as it is (`CandleKept`). A rollover closes a bar whose trades have all been taken, since tape and wire ascend (`AllTaken`).

`MarketStructureProofs`, for any pivot length and any bars:

- `StructureTypeCorrect`, `CharactersAlternate`, `BreaksFound`;
- `NothingRepainted` (`NoRepaint`), `HindsightBounded` (`HindsightIsBounded`): what an arriving bar says differently of earlier ones;
- `MemoryFollows`: the memory follows the trend.

The invariant `Sound` speaks of the loop's state between its parts: breaks are `Typed`, their characters
`Alternate`, and for each side all swings up to `Len(bars) - PivotLen` are
`Decided`: broken at their first close beyond, and recorded once, if a later swing has been confirmed or the
search has reached that bar, not otherwise. That one lemma covers the off-by-one of a search that begins only when the
next swing is confirmed.

`NothingRepainted` follows the order blocks through a longer window: the extreme of a stretch exists (`ExtremeExists`), is the same in a window that
contains the stretch (`BlockKept`), and the stretch from a swing to its break lies within the window in which it was found (`BreakPlaced`). `HindsightBounded` rests on `BreaksLater`: a break found in hindsight is later than the
swing that the one confirmed now replaces; all views of earlier bars are functions of the breaks up to them, so they are
kept (`ViewsKept`). The memory is a recursive function of the events, for which induction over data would be the natural argument. Instead its values are given in closed form
(`Newest`: positions of the newest events), the closed form is shown to satisfy the recursion, and
two functions that satisfy it agree, for else they would first differ somewhere.

`FvgZonesProofs`:

- `ScansFindRuns` (`ScanFindsFirstRun`): the index arithmetic of the scan finds the first run of piercing closes. The non-piercing closes form a finite set of
  indices; the last of them before an index is the one whose rank is the count less one (`At`, by cardinalities), so the streak at a piercing close is
  the distance from it, and a streak of `Needed` is a run of `Needed`;
- `DeadStayDead`, `InversionKept`, for any candle and structure resampling, once the window has structure bars enough (`Warm`): what the next window says of a zone. The seconds that were found first are found again
  (`First` over a longer window), breaks are only added, sweeps only at the new structure bar, and whole candles stay as they are; what is new can only supersede the zone or reject it.
  What may go is what the unfinished candle formed and what unfinished structure seconds repeated, and this is what the exceptions name.

`SignalsProofs`, over two series of which one has one second more (`Longer`):

- `InverseEntriesFinal`, `BackdatedEntriesExplained`: a mitigation or an inversion moves only to the new second, touches only grow,
  and the gate tells settled seconds what it told them before;
- `RangeEntriesCausal`: `BreakoutKept` uses the order of the clock within a day; ranges of springs and upthrusts end before their second.

`SelectionProofs`, for any sequence and positions: a selection has as many elements as it has positions, each position has its
rank and each rank its position, in order; what is counted in a selection and in the rest adds up to the whole.

`BacktestProofs`, for any bars, zones, sizes and switches:

- `TypeCorrect`, `Settles` (`SnipersSettle`), `FollowOrders` (`EntriesFollowOrders`), `Capped` (`InverseTradesCapped`), `Bounds`
  (`LossesAreBounded`), `NeverLoosens` (`StopNeverLoosens`).

The invariant is `Typed /\ SnipersSettle /\ Counted /\ Distinct`. `Typed` says of each list what its elements have been through: trades have filled in time,
closed ones within their stop. `Counted` and `Distinct` follow quantities that a bar moves between lists: what a zone has
of inverse trades is the number it has used, however many of them are orders, trades or closed, and one entry is in one place. The code compares only the number
used with the cap, so the cap says nothing of the lists without the first; `NeverLoosens` needs the second, to know that a trade before a bar and
one after it, alike but for soft stops, are the same trade.
Each part of the bar has lemmas of its own (`WalkSettles`, `FiredType`, `FilledType`, `EnteredType`, `EmitsOnce`, `SoftenedType`,
`ExitedType`); `MadeBar`, `CountedBar` and `DistinctBar` put their counts together. `StopIsStrictest` says of the stop that it is the tightest of the
levels that apply, so a level more only tightens; the decay replaces none by a wider one when its schedule tightens (`DecayTightens`). An ascending
schedule like the example at ict_strategy.py:843-846 tightens in this sense because the code never gets past its first entry.
Until a bar is skipped an order is due on the next bar, after that on the next or one that is over (`Waits`, `OrdersWait`); a skipped bar adds snipers and leaves
the other lists alone (`SkipInvariant`).
The proof found one thing in the model: the verdict on a sniper was a CASE whose guards
overlapped, of which TLA+ leaves the value open and TLC takes the first; it is a chain of IF and ELSE now, like the code.

So every invariant and action property of the passing runs is also a theorem. Only model-checked: liveness (`HandlerReturns`, `AllSettled`,
`Reconnects`), which the prover does not reach, and the four violations.

## 5. Not modelled, and why

- *Order manager.* `cancel_all_open` and what the cleanups do to the store and the session: they come with the
  engine's composition (section 7). The token bucket only delays a request inside a round trip. `broker_reject_freeze` expires at any
  time rather than after 60 s; the handler's stale-feed and daily-loss guards are one refusal that may always happen.
- *Reconciler.* Its loop touches no row, and the drift failsafe it sets is read by nobody (section 6).
- *Feed.* Book tickers, volumes and `flush()`: no bar depends on the first, no detector of this project on
  the second, and nothing calls the third.
- *Live loop.* Its BoS/CHoCH memory and the sizes it computes: stored, but no decision reads them.
- *Detectors.* The rolling ranks (`RollingFvgRanker`), the conviction gate (its threshold is 0 by default), sizes of stops and targets,
  a resampling of their own for single sources, tests on bodies only, and Wyckoff's squeeze tags. Windows with fewer than `2 * PivotLen + 1` structure bars, for which the code looks
  for structure in bare seconds (market_structure.py:278), are outside `Warm`. The loop over seconds that the vectorised scans replaced is not in the repository, only named in comments; they are held against a definition of the run.
- *Backtest.* Sweep entries, the sizes and the outermost-layer skip of the rank tiers, entries at the opening range and at springs (their signals are in `Signals`), targets by ATR, the age
  of zones. Layer sizes are abstract; entries are arbitrary arrivals.
- *Data fetcher.* Read, not modelled: one offline run at a time, whose disagreements are in section 6.
- Configuration, logging, metrics, the health server, notebooks and experiment drivers: pure input and output, or scripts
  that call the above.

The map covers about 4380 of 37386 lines of implementation. `src/core`, `src/backtest` and `src/live`
together have about 10400, much of them parameters and docstrings; the other 27000 are
notebooks, their exported scripts and offline tools, which have no state of their own
to model.

## 6. Known disagreements

Four have a run (`order_cap`, `pool_restart`, `lifecycle_stops`, `backtest_mirror`, section 3). The others were met while reading; some of
them bound what the passing runs can claim.

*Orders and pool.*

- `UntrackedIsExplained` is about positions the engine does not know. The reverse happens too: a row written before a crash whose order never left is adopted as an open position (order_manager.py:213), and so is one that is still in flight.
- Of two overlapping calls for a sniper whose first order failed, one can write its rejection over the fill of the other (order_manager.py:269, 277).
- A death between the write of a fill (293) and that of its stop loss's row (385) leaves a position without protection of which the store does not tell.
- Overlapping walks hand a sniper to the handler twice (live_backtest.py:478); the deterministic client id keeps the second order from executing.
- Zone ids start again after a restart, so rows of an earlier process describe other zones (live_backtest.py:499).
- The cleanups close store and session before `cancel_all_open` runs (main.py:337, shutdown.py:60); if it did run, it would cancel the protection of open positions and mark filled rows canceled.
- `insert_trade` is never called by the live engine, so the daily-loss breaker cannot trip; the rollup and stale watchers end at their first iteration.

*Reconciler.* Rows it loads never have a broker id, so what it compares never matches; the module's text (reconciler.py:3-13) promises
cancelling of orphans, submitting again and asking for a status, none of which the code does.

*Feed.*

- Three classes of exception reconnect; a failed name lookup, a timeout or a malformed frame ends the feed, and with it the engine.
- Seconds whose trades were lost, and seconds without trades, give no bar or another bar than the exchange's one-second candle, which the docs promise. `BarsAreKlines` and `NoSecondMissed` say when they do agree.
- `last_feed_ns` is the time at which a book ticker was received; trades do not update it.

*Market structure.*

- Breaks are committed when the next swing is confirmed, at an earlier bar, against market_structure.py:1138-1142. `HindsightIsBounded` says how far back.
- After such a commit `last_break` is not the most recent one (151).
- The sweep of lows uses the condition of highs (471, against 130-141).
- CHoCH+ raises the conviction by the kind of the last CHoCH (936-939), and `BosChochMemory` does other than its docstring (983-985, 1057-1063).
- Resampled events are stamped at the first second of their candle, before they can be known (694-700).

*FVG detector (ict_signals.py).*

- The structure gate counts a sweep of a low as bearish (`ev < 0`, 1344), which is bullish.
- Supersession does not ask whether the old zone had already died (1006-1018 before 1025-1044), and a structure event overwrites an inversion by price.
- Zones rejected by the gate are not live, so the retest scan skips them although 1328-1330 says it does not.
- With resampling, zones of the unfinished last candle supersede real ones (552) and vanish with the next bar, and a zone that died below the minimum lifetime comes back. The zone properties name these exceptions. The live engine resamples to 60 s by default (`fvg_resample_secs`), so it is exposed.
- With a zone age, `expired_bar` is set for every zone when it is formed, and both walks (live_backtest.py:442, ict_backtest.py:1100) take it as expired at once.

*Entries (ict_signals.py).*

- The ranker has seen all zones before the first percentile is read (2115-2120, against 2492), and a percentile can leave [0, 1].
- `n_touches` counts over the whole series, although 2317-2318 calls it causal. `BackdatedEntries` says exactly what this does.
- Retests of zones that are not inverted move or vanish with later bars.
- Sweep orders are made only for zones alive at the end of the data (2139-2296), a choice with hindsight, and both passes make them (against 2524-2530).
- "Cannot conflict on the same bar" (2380-2387) holds for one zone, not for two.
- `is_spring` and `is_utad` do not ask for `in_range`, against their docstring (1744-1748).
- Structure events in the backtest leave sweeps out (2019), in the live engine they do not (live_backtest.py:184, 277).

*Backtest (ict_backtest.py, ict_strategy.py).*

- The soft stop's `continue` (1393-1394) tightens one trade per zone and bar, against 28-38, and a soft stop may lie beyond the market.
- The second signal of a bar enters the ladder in sniper mode (842-853); `fvg` snipers can never fire and `ifvg` ones fire on the bar that submits them (662-668); `zone.inverted` is called causal (1123) and is not.
- A skip by rank leaves the whole bar (988-991), and orders due on it are never filled, against 847-849 ("so the bar loop fills it at next-bar open"); `EntriesFollowOrders` says that orders are missed by nothing else before.
- The trailing stop uses the close, not the best price (ict_strategy.py:830-835); the example of `sl_decay_schedule` ascends (843-846) while the code stops at the first match (1617-1624).
- The cap on snipers is counted anew in each bar, and the block for inverse trades does not count snipers (against optimal_config.py:202).
- Inverse orders of the last bar never fill, what is closed at the end of a day is not in the equity, and `open_lots_at_eod` counts closed trades.

*Data fetcher (fetch_binance_aggtrades.py).*

- A month is marked complete before anything of it is saved (244-247), a month of which only some days were fetched is complete once it has bars, also after the range is extended (406).
- The checkpoint of bars is shared by both bar lengths, and a damaged one fails every later run.
- A cache path that contains "tmp" makes the raw months be deleted (445); `--force` clears the checkpoint and reads the cached files again; "parallel" downloads run one after the other.

## 7. Plan

Done: `OrderLedger`, `OrderManager`, `SniperPool`, `BarWindow`, `LiveFeed`, `MarketStructure`, `FvgZones`, `Signals`, `Backtest`, and
proofs for all of them; `Lifecycle` is a beginning. Left, in this order:

1. `LiveEngine`: pool, order manager and shutdown composed, with `cancel_all_open`; at most one
   position per sniper end to end, and no use of the store after it is closed (walk tasks are not cancelled at shutdown).
2. The reconciler composed with the order manager against an abstract ledger of what the broker holds.
3. Failsafes: which guards consult which flags, clearing at midnight, staleness of the heartbeat.
4. The data fetcher's two checkpoints under crashes: what is marked complete is saved.
5. The ranker, the token bucket, and the entries of `Signals` in the place of `Backtest`'s arrivals.
6. Windows that are not `Warm`, and the ring buffer composed with the detectors, whose bar indices shift once it wraps.
