------------------------------ MODULE LiveFeed ------------------------------
(***************************************************************************)
(* From the market-data stream to the window of the detectors: the         *)
(* reconnecting stream (binance_client.stream_aggtrade_bookticker), the    *)
(* feed task (FeedHandler.run), the one-second aggregator                  *)
(* (BarAggregator.on_trade) and the ring buffer (LiveBacktest.on_bar).     *)
(*                                                                         *)
(* One step of the feed task is one frame, up to the await of the next.    *)
(* Frames of a connection arrive in the order in which the exchange made   *)
(* them; those it makes while there is no connection are never sent.  A    *)
(* trade is its second and its price; book tickers are left out.           *)
(***************************************************************************)
EXTENDS Integers, Sequences, FiniteSets

CONSTANTS
  Prices,
  Warmup,       \* bars in the ring buffer
  MaxBackoff,   \* longest wait before a connection attempt, in seconds
  MaxTime,      \* bound: the clock stands still in the last second
  MaxTrades,    \* bound: trades of the exchange
  MaxLosses,    \* bound: connections that break, and attempts that fail
  MaxRestarts   \* bound: crashes of the process

ConstantsAssumption ==
  /\ Prices \subseteq Int
  /\ {Warmup, MaxBackoff} \subseteq Nat \ {0}
  /\ {MaxTime, MaxTrades, MaxLosses, MaxRestarts} \subseteq Nat
ASSUME ConstantsAssumption

Trade == [sec : 0..MaxTime, price : Prices]
Bar == [sec : 0..MaxTime, open : Prices, high : Prices, low : Prices, close : Prices, trades : Nat]
NoBar == [sec |-> -1]

VARIABLES
  now,       \* the clock of the exchange, in seconds
  tape,      \* the trades it has made
  gaps,      \* seconds of which a trade never reached the aggregator, or died in it
  link,      \* "up", "closed", "waiting" or "dead": the feed task has ended
  wire,      \* trades sent and not yet taken
  backoff, wait,
  current,   \* the aggregator's bar, NoBar before the first trade
  ring, cursor, n,
  emitted,   \* the bars that have closed, by all processes so far
  losses, restarts

stream == <<link, wire, backoff, wait, losses>>
buffer == <<ring, cursor, n>>
vars == <<now, tape, gaps, stream, current, buffer, emitted, restarts>>

-----------------------------------------------------------------------------
\* BarAggregator.
InitBar(t) ==
  [sec |-> t.sec, open |-> t.price, high |-> t.price, low |-> t.price, close |-> t.price,
   trades |-> 1]

\* mutant: a price that is not above the high is taken for the low
UpdateBarElse(bar, t) ==
  [bar EXCEPT !.high = IF t.price > bar.high THEN t.price ELSE bar.high,
              !.low = IF t.price > bar.high THEN bar.low ELSE t.price,
              !.close = t.price,
              !.trades = bar.trades + 1]

UpdateBar(bar, t) ==
  [bar EXCEPT !.high = IF t.price > bar.high THEN t.price ELSE bar.high,
              !.low = IF t.price < bar.low THEN t.price ELSE bar.low,
              !.close = t.price,
              !.trades = bar.trades + 1]

\* The ring buffer of LiveBacktest, from index 0.
EmptyRing == [k \in 0..(Warmup - 1) |-> NoBar]

\* mutant: the cursor runs one cell beyond the buffer
AdvancedLate(c) == IF c = Warmup THEN 0 ELSE c + 1

Advanced(c) == IF c + 1 = Warmup THEN 0 ELSE c + 1

\* mutant: the window is read from the start of the buffer
ContigFromStart(r, c, m) == [k \in 1..m |-> r[k - 1]]

\* _contig_arrays: what the detectors are given.
Contig(r, c, m) ==
  [k \in 1..m |-> IF m < Warmup THEN r[k - 1]
                  ELSE IF c + k <= Warmup THEN r[c + k - 1] ELSE r[c + k - 1 - Warmup]]

Window == Contig(ring, cursor, n)

OnBar(bar) ==
  /\ ring' = [ring EXCEPT ![cursor] = bar]
  /\ cursor' = Advanced(cursor)
  /\ n' = IF n < Warmup THEN n + 1 ELSE n
  /\ emitted' = Append(emitted, bar)

-----------------------------------------------------------------------------
Init ==
  /\ now = 0 /\ tape = <<>> /\ gaps = {}
  /\ link = "waiting" /\ wire = <<>> /\ backoff = 1 /\ wait = 0
  /\ current = NoBar
  /\ ring = EmptyRing /\ cursor = 0 /\ n = 0
  /\ emitted = <<>>
  /\ losses = 0 /\ restarts = 0

Tick ==
  /\ wait > 0 \/ now < MaxTime
  /\ now' = IF now < MaxTime THEN now + 1 ELSE now
  /\ wait' = IF wait > 0 THEN wait - 1 ELSE 0
  /\ UNCHANGED <<tape, gaps, link, wire, backoff, losses, current, buffer, emitted, restarts>>

\* The exchange makes a trade.
Trades(price) ==
  LET t == [sec |-> now, price |-> price]
  IN /\ Len(tape) < MaxTrades
     /\ tape' = Append(tape, t)
     /\ IF link = "up"
        THEN wire' = Append(wire, t) /\ UNCHANGED gaps
        ELSE gaps' = gaps \union {now} /\ UNCHANGED wire
     /\ UNCHANGED <<now, link, backoff, wait, losses, current, buffer, emitted, restarts>>

\* The connection breaks.  Of the trades on their way only the first ones arrive.
Breaks(kept) ==
  /\ link = "up"
  /\ losses < MaxLosses
  /\ kept <= Len(wire)
  /\ link' = "closed"
  /\ losses' = losses + 1
  /\ wire' = SubSeq(wire, 1, kept)
  /\ gaps' = gaps \union {wire[k].sec : k \in (kept + 1)..Len(wire)}
  /\ UNCHANGED <<now, tape, backoff, wait, current, buffer, emitted, restarts>>

\* The frames of the old connection have been read; a clean close reconnects at
\* once, and of all exceptions three classes after a wait.
BackOff ==
  /\ link' = "waiting"
  /\ wait' = backoff
  /\ backoff' = IF 2 * backoff < MaxBackoff THEN 2 * backoff ELSE MaxBackoff

ClosedCleanly ==
  /\ link = "closed" /\ wire = <<>>
  /\ link' = "waiting"
  /\ UNCHANGED <<now, tape, gaps, wire, backoff, wait, losses, current, buffer, emitted, restarts>>

Disconnected ==
  /\ link = "closed" /\ wire = <<>>
  /\ BackOff
  /\ UNCHANGED <<now, tape, gaps, wire, losses, current, buffer, emitted, restarts>>

\* Any other exception, of a connection, an attempt or a frame, ends the feed task.
OtherException ==
  /\ \/ link = "closed" /\ wire = <<>>
     \/ link = "waiting" /\ wait = 0 /\ losses < MaxLosses
     \/ link = "up" /\ losses < MaxLosses
  /\ link' = "dead"
  /\ UNCHANGED <<now, tape, gaps, wire, backoff, wait, losses, current, buffer, emitted, restarts>>

\* mutant: an unfinished bar is thrown away
ConnectAfresh ==
  /\ link = "waiting" /\ wait = 0
  /\ link' = "up"
  /\ backoff' = 1
  /\ current' = NoBar
  /\ UNCHANGED <<now, tape, gaps, wire, wait, losses, buffer, emitted, restarts>>

\* mutant: the stream gives up when the wait is as long as it gets
ConnectOrGiveUp ==
  /\ link = "waiting" /\ wait = 0 /\ backoff < MaxBackoff
  /\ link' = "up"
  /\ backoff' = 1
  /\ UNCHANGED <<now, tape, gaps, wire, wait, losses, current, buffer, emitted, restarts>>

Connect ==
  /\ link = "waiting" /\ wait = 0
  /\ link' = "up"
  /\ backoff' = 1
  /\ UNCHANGED <<now, tape, gaps, wire, wait, losses, current, buffer, emitted, restarts>>

ConnectFails ==
  /\ link = "waiting" /\ wait = 0
  /\ losses < MaxLosses
  /\ losses' = losses + 1
  /\ BackOff
  /\ UNCHANGED <<now, tape, gaps, wire, current, buffer, emitted, restarts>>

-----------------------------------------------------------------------------
\* The feed task takes a trade.  A trade of another second closes the bar; the bar
\* of a second is not closed before that.
Take ==
  /\ link \in {"up", "closed"}
  /\ wire # <<>>
  /\ wire' = Tail(wire)
  /\ UNCHANGED <<now, tape, gaps, link, backoff, wait, losses, restarts>>

FirstTrade ==
  /\ Take
  /\ current = NoBar
  /\ current' = InitBar(Head(wire))
  /\ UNCHANGED <<buffer, emitted>>

SameSecond ==
  /\ Take
  /\ current.sec = Head(wire).sec
  /\ current' = UpdateBar(current, Head(wire))
  /\ UNCHANGED <<buffer, emitted>>

Rollover ==
  /\ Take
  /\ current # NoBar
  /\ current.sec # Head(wire).sec
  /\ OnBar(current)
  /\ current' = InitBar(Head(wire))

\* The process dies and starts again.  Bars live in its memory only.
Restart ==
  /\ restarts < MaxRestarts
  /\ restarts' = restarts + 1
  /\ gaps' = gaps \union {wire[k].sec : k \in DOMAIN wire}
                  \union (IF current = NoBar THEN {} ELSE {current.sec})
  /\ link' = "waiting" /\ wire' = <<>> /\ backoff' = 1 /\ wait' = 0
  /\ current' = NoBar
  /\ ring' = EmptyRing /\ cursor' = 0 /\ n' = 0
  /\ UNCHANGED <<now, tape, losses, emitted>>

TakeTrade == FirstTrade \/ SameSecond \/ Rollover

Reconnect == ClosedCleanly \/ Disconnected \/ OtherException \/ Connect \/ ConnectFails

Next ==
  \/ Tick
  \/ \E price \in Prices : Trades(price)
  \/ \E kept \in 0..MaxTrades : Breaks(kept)
  \/ ClosedCleanly \/ Disconnected \/ OtherException \/ Connect \/ ConnectFails
  \/ FirstTrade \/ SameSecond \/ Rollover
  \/ Restart

\* The event loop resumes the feed task when a frame has come or a sleep has ended.
Fairness == WF_vars(Tick) /\ WF_vars(TakeTrade) /\ WF_vars(Reconnect)

Spec == Init /\ [][Next]_vars

FairSpec == Spec /\ Fairness

-----------------------------------------------------------------------------
TypeOK ==
  /\ now \in 0..MaxTime
  /\ tape \in Seq(Trade) /\ wire \in Seq(Trade)
  /\ gaps \subseteq 0..MaxTime
  /\ link \in {"up", "closed", "waiting", "dead"}
  /\ backoff \in 1..MaxBackoff /\ wait \in 0..MaxBackoff
  /\ current \in Bar \union {NoBar}
  /\ ring \in [0..(Warmup - 1) -> Bar \union {NoBar}]
  /\ cursor \in 0..(Warmup - 1)
  /\ n \in 0..Warmup
  /\ emitted \in Seq(Bar)
  /\ losses \in 0..MaxLosses /\ restarts \in 0..MaxRestarts

\* The trades of a second, by their places on the tape.
OfSecond(s) == {j \in DOMAIN tape : tape[j].sec = s}

\* The bar is the candle of the trades at these places.
IsCandle(bar, trades, places) ==
  /\ \A j \in places : trades[j].sec = bar.sec
  /\ \E first, last \in places :
       /\ \A j \in places : first <= j /\ j <= last
       /\ bar.open = trades[first].price /\ bar.close = trades[last].price
  /\ \E top, bottom \in places :
       /\ \A j \in places : trades[bottom].price <= trades[j].price
                            /\ trades[j].price <= trades[top].price
       /\ bar.high = trades[top].price /\ bar.low = trades[bottom].price
  /\ bar.trades = Cardinality(places)

\* "This matches Binance's REST 1s kline semantics": a closed bar is the candle of all
\* trades of its second, unless one of them was lost with a connection or a process;
\* then it is the candle of some of them.
BarsAreKlines ==
  \A k \in DOMAIN emitted :
    \E places \in SUBSET OfSecond(emitted[k].sec) :
      /\ IsCandle(emitted[k], tape, places)
      /\ emitted[k].sec \notin gaps => places = OfSecond(emitted[k].sec)

\* Every second before the current bar that had trades, all of which arrived, has
\* its bar, and only one, although connections break within it.
NoSecondMissed ==
  current # NoBar =>
    \A j \in DOMAIN tape :
      tape[j].sec < current.sec /\ tape[j].sec \notin gaps =>
        \E k \in DOMAIN emitted :
          \A l \in DOMAIN emitted : emitted[l].sec = tape[j].sec <=> l = k

\* The detectors see bars of different seconds in order of time, also after the ring
\* has wrapped: they never find a bar before the one that made it.
WindowAscends ==
  \A k, l \in DOMAIN Window : k < l => Window[k].sec < Window[l].sec

\* The ring buffer, its cursor and its count implement the window of the newest bars.
Abstract == INSTANCE BarWindow WITH Size <- Warmup, window <- Window
WindowImplemented == Abstract!WindowSpec

\* "Reconnects with exponential backoff on disconnect": a connection that breaks is
\* replaced, unless the feed task ends with an exception.
Reconnects == link = "closed" ~> link \in {"up", "dead"}
=============================================================================
