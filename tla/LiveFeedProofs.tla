--------------------------- MODULE LiveFeedProofs ---------------------------
(***************************************************************************)
(* Proofs about LiveFeed: its types, the ring buffer as an implementation  *)
(* of the window of the newest bars, the order of that window, and the     *)
(* account of the trades: every closed bar is the candle of its second,    *)
(* and every second without a loss has one.                                *)
(***************************************************************************)
EXTENDS LiveFeed, SequenceTheorems, FiniteSetTheorems, TLAPS

-----------------------------------------------------------------------------
\* Types, in three parts that seldom change together.

ClockOK ==
  /\ now \in 0..MaxTime
  /\ link \in {"up", "closed", "waiting", "dead"}
  /\ backoff \in 1..MaxBackoff /\ wait \in 0..MaxBackoff
  /\ losses \in 0..MaxLosses /\ restarts \in 0..MaxRestarts

TradesOK ==
  /\ tape \in Seq(Trade) /\ wire \in Seq(Trade)
  /\ gaps \subseteq 0..MaxTime

BarsOK ==
  /\ current \in Bar \union {NoBar}
  /\ ring \in [0..(Warmup - 1) -> Bar \union {NoBar}]
  /\ cursor \in 0..(Warmup - 1)
  /\ n \in 0..Warmup
  /\ emitted \in Seq(Bar)

LEMMA TypeParts == TypeOK <=> ClockOK /\ TradesOK /\ BarsOK
BY DEF TypeOK, ClockOK, TradesOK, BarsOK

LEMMA InitTypeOK == ASSUME ConstantsAssumption PROVE Init => TypeOK
BY DEF ConstantsAssumption, Init, TypeOK, EmptyRing

\* The first trade of a second makes a bar, and further ones keep it one.
LEMMA BarTypes ==
  ASSUME NEW t \in Trade
  PROVE  /\ InitBar(t) \in Bar
         /\ \A bar \in Bar : UpdateBar(bar, t) \in Bar
<1>1. InitBar(t) \in Bar BY DEF Trade, Bar, InitBar
<1>2. ASSUME NEW bar \in Bar PROVE UpdateBar(bar, t) \in Bar
  <2> DEFINE high == IF t.price > bar.high THEN t.price ELSE bar.high
             low  == IF t.price < bar.low THEN t.price ELSE bar.low
  <2>1. high \in Prices /\ low \in Prices /\ t.price \in Prices BY <1>2 DEF Trade, Bar
  <2>2. UpdateBar(bar, t) = [bar EXCEPT !.high = high, !.low = low, !.close = t.price,
                                         !.trades = bar.trades + 1]
    BY DEF UpdateBar
  <2>3. bar.trades + 1 \in Nat BY <1>2 DEF Bar
  <2> HIDE DEF high, low
  <2> QED BY <1>2, <2>1, <2>2, <2>3 DEF Bar
<1> QED BY <1>1, <1>2

LEMMA NextClockOK ==
  ASSUME ConstantsAssumption, ClockOK, [Next]_vars
  PROVE  ClockOK'
<1> USE DEF ConstantsAssumption, ClockOK
<1>1. CASE Tick BY <1>1 DEF Tick
<1>2. ASSUME NEW price \in Prices, Trades(price) PROVE ClockOK'
  BY <1>2 DEF Trades
<1>3. ASSUME NEW kept \in 0..MaxTrades, Breaks(kept) PROVE ClockOK'
  BY <1>3 DEF Breaks
<1>4. CASE ClosedCleanly BY <1>4 DEF ClosedCleanly
<1>5. CASE Disconnected BY <1>5 DEF Disconnected, BackOff
<1>6. CASE OtherException BY <1>6 DEF OtherException
<1>7. CASE Connect BY <1>7 DEF Connect
<1>8. CASE ConnectFails BY <1>8 DEF ConnectFails, BackOff
<1>9. CASE FirstTrade \/ SameSecond \/ Rollover
  BY <1>9 DEF FirstTrade, SameSecond, Rollover, Take
<1>10. CASE Restart BY <1>10 DEF Restart
<1>11. CASE UNCHANGED vars BY <1>11 DEF vars, stream
<1> QED BY <1>1, <1>2, <1>3, <1>4, <1>5, <1>6, <1>7, <1>8, <1>9, <1>10, <1>11 DEF Next

\* What happens to the trades on their way.
LEMMA WireSteps ==
  ASSUME TradesOK, [Next]_vars
  PROVE  \/ wire' = wire
         \/ wire' = <<>>
         \/ \E price \in Prices : wire' = Append(wire, [sec |-> now, price |-> price])
                                  /\ UNCHANGED <<now, current, buffer>>
         \/ \E kept \in 0..Len(wire) : wire' = SubSeq(wire, 1, kept) /\ UNCHANGED <<now, current, buffer>>
         \/ wire # <<>> /\ wire' = Tail(wire) /\ Take
<1>1. CASE Tick BY <1>1 DEF Tick
<1>2. ASSUME NEW price \in Prices, Trades(price)
      PROVE  \/ wire' = wire
             \/ wire' = Append(wire, [sec |-> now, price |-> price])
                /\ UNCHANGED <<now, current, buffer>>
  BY <1>2 DEF Trades
<1>3. ASSUME NEW kept \in 0..MaxTrades, Breaks(kept)
      PROVE  /\ kept \in 0..Len(wire)
             /\ wire' = SubSeq(wire, 1, kept) /\ UNCHANGED <<now, current, buffer>>
  <2>1. Len(wire) \in Nat BY LenProperties DEF TradesOK
  <2> QED BY <2>1, <1>3 DEF Breaks
<1>4. CASE ClosedCleanly \/ Disconnected \/ OtherException \/ Connect \/ ConnectFails
  BY <1>4 DEF ClosedCleanly, Disconnected, OtherException, Connect, ConnectFails
<1>5. CASE FirstTrade \/ SameSecond \/ Rollover
  BY <1>5 DEF FirstTrade, SameSecond, Rollover, Take
<1>6. CASE Restart BY <1>6 DEF Restart
<1>7. CASE UNCHANGED vars BY <1>7 DEF vars, stream
<1> QED BY <1>1, <1>2, <1>3, <1>4, <1>5, <1>6, <1>7 DEF Next

LEMMA NextTradesOK ==
  ASSUME ConstantsAssumption, ClockOK, TradesOK, BarsOK, [Next]_vars
  PROVE  TradesOK'
<1>1. \A price \in Prices : [sec |-> now, price |-> price] \in Trade
  BY DEF Trade, ClockOK
<1>2. tape' \in Seq(Trade)
  <2>1. ASSUME NEW price \in Prices, Trades(price) PROVE tape' \in Seq(Trade)
    <3> DEFINE t == [sec |-> now, price |-> price]
    <3>1. tape' = Append(tape, t) BY <2>1 DEF Trades
    <3>2. t \in Trade BY <1>1
    <3>3. tape \in Seq(Trade) BY DEF TradesOK
    <3> HIDE DEF t
    <3> QED BY <3>1, <3>2, <3>3
  <2>2. ASSUME ~\E price \in Prices : Trades(price) PROVE tape' = tape
    BY <2>2 DEF Next, vars, Tick, Breaks, ClosedCleanly, Disconnected, OtherException, Connect,
             ConnectFails, FirstTrade, SameSecond, Rollover, Take, Restart
  <2> QED BY <2>1, <2>2 DEF TradesOK
<1>3. wire' \in Seq(Trade)
  <2>0. wire \in Seq(Trade) BY DEF TradesOK
  <2>1. ASSUME NEW price \in Prices, wire' = Append(wire, [sec |-> now, price |-> price])
        PROVE  wire' \in Seq(Trade)
    <3> DEFINE t == [sec |-> now, price |-> price]
    <3>1. t \in Trade /\ wire' = Append(wire, t) BY <1>1, <2>1
    <3> HIDE DEF t
    <3> QED BY <3>1, <2>0
  <2>2. ASSUME NEW kept \in 0..Len(wire), wire' = SubSeq(wire, 1, kept)
        PROVE  wire' \in Seq(Trade)
    BY <2>0, <2>2
  <2>3. ASSUME wire # <<>>, wire' = Tail(wire) PROVE wire' \in Seq(Trade)
    BY <2>0, <2>3
  <2>4. <<>> \in Seq(Trade) OBVIOUS
  <2> QED BY <2>0, <2>1, <2>2, <2>3, <2>4, WireSteps
<1>4. gaps' \subseteq 0..MaxTime
  <2>1. \A k \in 1..Len(wire) : wire[k] \in Trade /\ wire[k].sec \in 0..MaxTime
    <3>1. \A k \in 1..Len(wire) : wire[k] \in Trade BY ElementOfSeq DEF TradesOK
    <3> QED BY <3>1 DEF Trade
  <2>2. Len(wire) \in Nat /\ DOMAIN wire = 1..Len(wire) BY LenProperties DEF TradesOK
  <2>3. ASSUME NEW price \in Prices, Trades(price) PROVE gaps' \subseteq 0..MaxTime
    BY <2>3 DEF Trades, TradesOK, ClockOK
  <2>4. ASSUME NEW kept \in 0..MaxTrades, Breaks(kept) PROVE gaps' \subseteq 0..MaxTime
    <3>1. \A k \in (kept + 1)..Len(wire) : k \in 1..Len(wire) BY <2>2
    <3>2. gaps' = gaps \union {wire[k].sec : k \in (kept + 1)..Len(wire)} BY <2>4 DEF Breaks
    <3> QED BY <3>1, <3>2, <2>1 DEF TradesOK
  <2>5. CASE Restart
    <3>1. current # NoBar => current.sec \in 0..MaxTime BY DEF BarsOK, Bar
    <3> QED BY <3>1, <2>1, <2>2, <2>5 DEF Restart, TradesOK
  <2>6. ASSUME ~\E price \in Prices : Trades(price), ~\E kept \in 0..MaxTrades : Breaks(kept), ~Restart
        PROVE  gaps' = gaps
    BY <2>6 DEF Next, vars, Tick, ClosedCleanly, Disconnected, OtherException, Connect,
             ConnectFails, FirstTrade, SameSecond, Rollover, Take
  <2> QED BY <2>3, <2>4, <2>5, <2>6 DEF TradesOK
<1> QED BY <1>2, <1>3, <1>4 DEF TradesOK

LEMMA NextBarsOK ==
  ASSUME ConstantsAssumption, TradesOK, BarsOK, [Next]_vars
  PROVE  BarsOK'
<1> USE DEF ConstantsAssumption, BarsOK
<1>1. CASE Take /\ (FirstTrade \/ SameSecond \/ Rollover)
  <2>1. Head(wire) \in Trade BY <1>1, HeadTailProperties DEF Take, TradesOK
  <2>2. NoBar.sec # Head(wire).sec BY <2>1 DEF NoBar, Trade
  <2>3. CASE FirstTrade BY <2>3, <2>1, BarTypes DEF FirstTrade, buffer
  <2>4. CASE SameSecond
    <3>1. current \in Bar BY <2>2, <2>4 DEF SameSecond
    <3> QED BY <3>1, <2>4, <2>1, BarTypes DEF SameSecond, buffer
  <2>5. CASE Rollover
    <3>1. current \in Bar BY <2>5 DEF Rollover
    <3>2. current' \in Bar BY <2>5, <2>1, BarTypes DEF Rollover
    <3>3. emitted' = Append(emitted, current) BY <2>5 DEF Rollover, OnBar
    <3>4. emitted' \in Seq(Bar) BY <3>1, <3>3
    <3>5. ring' \in [0..(Warmup - 1) -> Bar \union {NoBar}]
      BY <3>1, <2>5 DEF Rollover, OnBar
    <3>6. cursor' \in 0..(Warmup - 1) BY <2>5 DEF Rollover, OnBar, Advanced
    <3>7. n' \in 0..Warmup BY <2>5 DEF Rollover, OnBar
    <3> QED BY <3>2, <3>4, <3>5, <3>6, <3>7
  <2> QED BY <1>1, <2>3, <2>4, <2>5
<1>2. CASE Restart BY <1>2 DEF Restart, EmptyRing
<1>3. CASE UNCHANGED <<current, buffer, emitted>> BY <1>3 DEF buffer
<1> QED BY <1>1, <1>2, <1>3 DEF Next, vars, Tick, Trades, Breaks, ClosedCleanly, Disconnected,
     OtherException, Connect, ConnectFails, FirstTrade, SameSecond, Rollover

\* Every variable keeps its type, for any prices, sizes, clocks and faults.
THEOREM FeedTypeCorrect == ASSUME ConstantsAssumption PROVE Spec => []TypeOK
<1>1. TypeOK /\ [Next]_vars => TypeOK'
  BY TypeParts, NextClockOK, NextTradesOK, NextBarsOK DEF TypeOK, ClockOK, TradesOK, BarsOK
<1> QED BY InitTypeOK, <1>1, PTL DEF Spec

-----------------------------------------------------------------------------
\* The ring buffer.

\* Until the buffer is full its bars start at index 0.
Filling == n < Warmup => cursor = n

\* What the window holds when a bar has been written at the cursor.
Shifted(bar) ==
  [k \in 1..(IF n < Warmup THEN n + 1 ELSE n) |->
     IF n < Warmup THEN IF k = n + 1 THEN bar ELSE Window[k]
                   ELSE IF k = n THEN bar ELSE Window[k + 1]]

LEMMA WindowShifts ==
  ASSUME ConstantsAssumption, BarsOK, Filling, NEW bar, OnBar(bar)
  PROVE  Window' = Shifted(bar) /\ Filling'
<1> USE DEF ConstantsAssumption, BarsOK, Filling
<1>1. /\ ring' = [ring EXCEPT ![cursor] = bar]
      /\ cursor' = IF cursor + 1 = Warmup THEN 0 ELSE cursor + 1
      /\ n' = IF n < Warmup THEN n + 1 ELSE n
  BY DEF OnBar, Advanced
<1>2. Filling' BY <1>1
<1>5. \A j \in 0..(Warmup - 1) : ring'[j] = IF j = cursor THEN bar ELSE ring[j] BY <1>1
<1>3. CASE n < Warmup
  <2>1. ASSUME NEW k \in 1..(n + 1)
        PROVE  Window'[k] = IF k = n + 1 THEN bar ELSE Window[k]
    <3>1. Window'[k] = ring'[k - 1]
      <4>1. n' = n + 1 BY <1>1, <1>3
      <4>2. Window' = Contig(ring', cursor', n') BY DEF Window
      <4> QED BY <1>1, <1>3, <4>1, <4>2 DEF Contig
    <3>2. k # n + 1 => Window[k] = ring[k - 1] BY <1>3 DEF Window, Contig
    <3>3. k - 1 \in 0..(Warmup - 1) /\ cursor = n BY <1>3
    <3> QED BY <3>1, <3>2, <3>3, <1>1
  <2>2. Window' = [k \in 1..(n + 1) |-> Window'[k]] BY <1>1, <1>3 DEF Window, Contig
  <2> QED BY <1>2, <1>3, <2>1, <2>2 DEF Shifted
<1>4. CASE n = Warmup
  <2>1. ASSUME NEW k \in 1..n
        PROVE  Window'[k] = IF k = n THEN bar ELSE Window[k + 1]
    <3>1. Window'[k] = IF cursor' + k <= Warmup THEN ring'[cursor' + k - 1]
                       ELSE ring'[cursor' + k - 1 - Warmup]
      BY <1>1, <1>4 DEF Window, Contig
    <3>2. k # n => Window[k + 1] = IF cursor + k + 1 <= Warmup THEN ring[cursor + k]
                                   ELSE ring[cursor + k - Warmup]
      <4>1. \A j \in 1..n : Window[j] = IF cursor + j <= Warmup THEN ring[cursor + j - 1]
                                        ELSE ring[cursor + j - 1 - Warmup]
        BY <1>4 DEF Window, Contig
      <4>2. k # n => k + 1 \in 1..n BY <1>4
      <4>3. cursor + (k + 1) - 1 = cursor + k /\ cursor + (k + 1) - 1 - Warmup = cursor + k - Warmup
        BY <1>4
      <4>4. cursor + (k + 1) <= Warmup <=> cursor + k + 1 <= Warmup BY <1>4
      <4> QED BY <4>1, <4>2, <4>3, <4>4
    <3>3. CASE cursor + 1 = Warmup
      <4>1. Window'[k] = ring'[k - 1] BY <3>1, <3>3, <1>1, <1>4
      <4>2. k # n => Window[k + 1] = ring[k - 1] BY <3>2, <3>3, <1>4
      <4>3. k - 1 \in 0..(Warmup - 1) /\ (k - 1 = cursor <=> k = n) BY <3>3, <1>4
      <4> QED BY <4>1, <4>2, <4>3, <1>5
    <3>4. CASE cursor + 1 # Warmup /\ cursor + 1 + k <= Warmup
      <4>1. Window'[k] = ring'[cursor + k] BY <3>1, <3>4, <1>1, <1>4
      <4>2. k # n /\ Window[k + 1] = ring[cursor + k] BY <3>2, <3>4, <1>4
      <4>3. cursor + k \in 0..(Warmup - 1) /\ cursor + k # cursor BY <3>4, <1>4
      <4> QED BY <4>1, <4>2, <4>3, <1>5
    <3>5. CASE cursor + 1 # Warmup /\ ~(cursor + 1 + k <= Warmup)
      <4>0. cursor' = cursor + 1 /\ cursor' + k - 1 - Warmup = cursor + k - Warmup
        BY <3>5, <1>1, <1>4
      <4>1. Window'[k] = ring'[cursor + k - Warmup] BY <4>0, <3>1, <3>5, <1>4
      <4>2. k # n => Window[k + 1] = ring[cursor + k - Warmup] BY <3>2, <3>5, <1>4
      <4>3. cursor + k - Warmup \in 0..(Warmup - 1) /\ (cursor + k - Warmup = cursor <=> k = n)
        BY <3>5, <1>4
      <4> QED BY <4>1, <4>2, <4>3, <1>5
    <3> QED BY <3>3, <3>4, <3>5
  <2>2. Window' = [k \in 1..n |-> Window'[k]] BY <1>1, <1>4 DEF Window, Contig
  <2> QED BY <1>2, <1>4, <2>1, <2>2 DEF Shifted
<1> QED BY <1>3, <1>4

LEMMA WindowTypes ==
  ASSUME ConstantsAssumption, BarsOK
  PROVE  /\ Window \in [1..n -> Bar \union {NoBar}]
         /\ Window \in Seq(Bar \union {NoBar})
         /\ Len(Window) = n
<1> USE DEF ConstantsAssumption, BarsOK
<1>1. ASSUME NEW k \in 1..n PROVE Window[k] \in Bar \union {NoBar}
  <2>1. CASE n < Warmup
    <3>1. Window[k] = ring[k - 1] /\ k - 1 \in 0..(Warmup - 1) BY <1>1, <2>1 DEF Window, Contig
    <3> QED BY <3>1
  <2>2. CASE ~(n < Warmup) /\ cursor + k <= Warmup
    <3>1. Window[k] = ring[cursor + k - 1] /\ cursor + k - 1 \in 0..(Warmup - 1)
      BY <1>1, <2>2 DEF Window, Contig
    <3> QED BY <3>1
  <2>3. CASE ~(n < Warmup) /\ ~(cursor + k <= Warmup)
    <3>1. Window[k] = ring[cursor + k - 1 - Warmup] BY <1>1, <2>3 DEF Window, Contig
    <3>2. cursor + k - 1 - Warmup \in 0..(Warmup - 1) BY <1>1, <2>3
    <3> QED BY <3>1, <3>2
  <2> QED BY <2>1, <2>2, <2>3
<1>2. Window = [k \in 1..n |-> Window[k]] BY DEF Window, Contig
<1>3. Window \in [1..n -> Bar \union {NoBar}] BY <1>1, <1>2
<1>4. n \in Nat OBVIOUS
<1>5. Window \in Seq(Bar \union {NoBar}) BY <1>3, <1>4, SeqDef
<1>6. Len(Window) = n BY <1>3, <1>4, <1>5, LenProperties
<1> QED BY <1>3, <1>5, <1>6

\* A bar that closes is pushed into the abstract window.
LEMMA OnBarPushes ==
  ASSUME ConstantsAssumption, BarsOK, Filling, NEW bar \in Bar, OnBar(bar)
  PROVE  Abstract!Push
<1> USE DEF ConstantsAssumption, BarsOK
<1> DEFINE B == Bar \union {NoBar}
<1>1. Window' = Shifted(bar) BY WindowShifts
<1>2. Window \in Seq(B) /\ Len(Window) = n BY WindowTypes
<1>3. bar \in B OBVIOUS
<1> HIDE DEF B
<1>4. CASE n < Warmup
  <2>1. Shifted(bar) = [k \in 1..(n + 1) |-> IF k = n + 1 THEN bar ELSE Window[k]]
    BY <1>4 DEF Shifted
  <2>2. Append(Window, bar) = [k \in 1..(n + 1) |-> IF k = n + 1 THEN bar ELSE Window[k]]
    <3>1. Append(Window, bar) \in Seq(B) /\ Len(Append(Window, bar)) = n + 1 BY <1>2, <1>3
    <3>2. \A k \in 1..(n + 1) : Append(Window, bar)[k] = IF k = n + 1 THEN bar ELSE Window[k]
      BY <1>2, <1>3, SMTT(30)
    <3> QED BY <3>1, <3>2, LenProperties
  <2>3. Append(Window, bar) # <<>> /\ Append(Window, bar)[Len(Append(Window, bar))] = bar
    BY <1>2, <1>3
  <2> QED BY <1>1, <1>2, <1>4, <2>1, <2>2, <2>3 DEF Abstract!Push, Abstract!With
<1>5. CASE n = Warmup
  <2> DEFINE T == Tail(Window)
  <2>1. Window # <<>> BY <1>2, <1>5
  <2>2. T \in Seq(B) /\ Len(T) = n - 1 /\ \A k \in 1..(n - 1) : T[k] = Window[k + 1]
    BY <1>2, <2>1, HeadTailProperties
  <2>3. Shifted(bar) = [k \in 1..n |-> IF k = n THEN bar ELSE Window[k + 1]]
    BY <1>5 DEF Shifted
  <2> HIDE DEF T
  <2>4. Append(T, bar) \in Seq(B) /\ Len(Append(T, bar)) = n BY <2>2, <1>3, <1>5
  <2>5. \A k \in 1..n : Append(T, bar)[k] = IF k = n THEN bar ELSE Window[k + 1]
    <3>1. /\ Append(T, bar)[Len(T) + 1] = bar
          /\ \A k \in 1..Len(T) : Append(T, bar)[k] = T[k]
      BY <2>2, <1>3
    <3> QED BY <3>1, <2>2, <1>5
  <2>6. Append(T, bar) = [k \in 1..n |-> IF k = n THEN bar ELSE Window[k + 1]]
    BY <2>4, <2>5, LenProperties
  <2>7. Append(T, bar) # <<>> /\ Append(T, bar)[Len(Append(T, bar))] = bar
    <3> DEFINE A == Append(T, bar)
    <3>1. n \in 1..n /\ n # 0 BY <1>5
    <3>2. A \in Seq(B) /\ Len(A) = n /\ A[n] = bar BY <2>4, <2>5, <3>1
    <3> HIDE DEF A
    <3>3. A # <<>> BY <3>1, <3>2
    <3> QED BY <3>2, <3>3 DEF A
  <2>8. Window' = Append(T, bar) BY <1>1, <2>3, <2>6
  <2>9. Window' # <<>> /\ Window'[Len(Window')] = bar BY <2>7, <2>8
  <2>10. Window' = Append(Tail(Window), bar) /\ ~(Len(Window) < Warmup)
    BY <2>8, <1>2, <1>5 DEF T
  <2> QED BY <2>9, <2>10 DEF Abstract!Push, Abstract!With
<1> QED BY <1>4, <1>5

-----------------------------------------------------------------------------
\* The order of the bars.

\* Trades come in order of time; those on their way are not older than the bar under
\* construction and not from the future.
InOrder ==
  /\ \A k, l \in 1..Len(wire) : k <= l => wire[k].sec <= wire[l].sec
  /\ \A k \in 1..Len(wire) : wire[k].sec <= now
  /\ current # NoBar => /\ current.sec <= now
                        /\ \A k \in 1..Len(wire) : current.sec <= wire[k].sec

\* The window is ascending and older than the bar under construction.
Ascending ==
  /\ \A k, l \in 1..n : k < l => Window[k].sec < Window[l].sec
  /\ \A k \in 1..n : Window[k] \in Bar
  /\ current = NoBar => n = 0
  /\ current # NoBar => \A k \in 1..n : Window[k].sec < current.sec

IInv == TypeOK /\ Filling /\ InOrder /\ Ascending

LEMMA InitIInv == ASSUME ConstantsAssumption PROVE Init => IInv
<1> SUFFICES ASSUME Init PROVE IInv OBVIOUS
<1>1. TypeOK BY InitTypeOK
<1>2. n = 0 /\ cursor = 0 /\ wire = <<>> /\ current = NoBar BY DEF Init
<1>3. Len(wire) = 0 BY <1>2
<1> QED BY <1>1, <1>2, <1>3 DEF IInv, Filling, InOrder, Ascending

\* A trade on its way stays so, unless it is taken or lost.
LEMMA NextInOrder ==
  ASSUME ConstantsAssumption, IInv, [Next]_vars
  PROVE  InOrder'
<1> USE DEF ConstantsAssumption
<1>0. ClockOK /\ TradesOK /\ BarsOK /\ InOrder BY TypeParts DEF IInv
<1>1. wire \in Seq(Trade) /\ Len(wire) \in Nat BY <1>0, LenProperties DEF TradesOK
<1>2. \A k \in 1..Len(wire) : wire[k].sec \in Int
  <2>1. \A k \in 1..Len(wire) : wire[k] \in Trade BY <1>1, ElementOfSeq
  <2> QED BY <2>1 DEF Trade
<1>3. now \in Int /\ now' \in Int /\ now <= now'
  <2>1. now \in Int BY <1>0 DEF ClockOK
  <2>2. CASE Tick BY <2>1, <2>2 DEF Tick
  <2>3. CASE ~Tick
    <3>1. now' = now
      BY <2>3 DEF Next, vars, Trades, Breaks, ClosedCleanly, Disconnected, OtherException,
         Connect, ConnectFails, FirstTrade, SameSecond, Rollover, Take, Restart
    <3> QED BY <2>1, <3>1
  <2> QED BY <2>2, <2>3
<1>4. CASE Tick \/ ClosedCleanly \/ Disconnected \/ OtherException \/ Connect \/ ConnectFails
           \/ UNCHANGED vars
  <2>1. wire' = wire /\ current' = current
    BY <1>4 DEF vars, stream, Tick, ClosedCleanly, Disconnected, OtherException, Connect, ConnectFails
  <2>2. current # NoBar => current.sec \in Int BY <1>0 DEF BarsOK, Bar
  <2>3. \A k \in 1..Len(wire) : wire[k].sec <= now' BY <1>0, <1>2, <1>3 DEF InOrder
  <2>4. current # NoBar => current.sec <= now' BY <1>0, <1>3, <2>2 DEF InOrder
  <2> QED BY <1>0, <2>1, <2>3, <2>4 DEF InOrder
<1>5. ASSUME NEW price \in Prices, Trades(price) PROVE InOrder'
  <2> DEFINE t == [sec |-> now, price |-> price]
  <2>1. t \in Trade /\ t.sec = now BY <1>0 DEF Trade, ClockOK
  <2>2. wire' = wire \/ wire' = Append(wire, t) BY <1>5 DEF Trades
  <2>3. current' = current /\ now' = now BY <1>5 DEF Trades
  <2> HIDE DEF t
  <2>4. CASE wire' = wire BY <2>3, <2>4, <1>0 DEF InOrder
  <2>5. CASE wire' = Append(wire, t)
    <3>1. Len(wire') = Len(wire) + 1 BY <2>5, <2>1, <1>1
    <3>2. \A k \in 1..Len(wire') : wire'[k] = IF k <= Len(wire) THEN wire[k] ELSE t
      BY <2>5, <2>1, <1>1, <3>1
    <3>3. \A k \in 1..Len(wire') : k <= Len(wire) => wire'[k].sec = wire[k].sec /\ k \in 1..Len(wire)
      BY <3>1, <3>2, <1>1
    <3>4. \A k \in 1..Len(wire') : ~(k <= Len(wire)) => wire'[k].sec = now /\ k = Len(wire')
      BY <3>1, <3>2, <2>1, <1>1
    <3>5. \A k, l \in 1..Len(wire') : k <= l => wire'[k].sec <= wire'[l].sec
      <4> TAKE k, l \in 1..Len(wire')
      <4> HAVE k <= l
      <4>1. CASE l <= Len(wire)
        <5>1. k <= Len(wire) BY <4>1, <3>1, <1>1
        <5> QED BY <5>1, <4>1, <3>3, <1>0 DEF InOrder
      <4>2. CASE ~(l <= Len(wire))
        <5>1. wire'[l].sec = now BY <4>2, <3>4
        <5>2. wire'[k].sec <= now
          <6>1. CASE k <= Len(wire) BY <6>1, <3>3, <1>0 DEF InOrder
          <6>2. CASE ~(k <= Len(wire)) BY <6>2, <3>4, <1>3
          <6> QED BY <6>1, <6>2
        <5> QED BY <5>1, <5>2
      <4> QED BY <4>1, <4>2
    <3>6. \A k \in 1..Len(wire') : wire'[k].sec <= now'
      BY <3>3, <3>4, <2>3, <1>0, <1>3 DEF InOrder
    <3>7. current' # NoBar => /\ current'.sec <= now'
                             /\ \A k \in 1..Len(wire') : current'.sec <= wire'[k].sec
      BY <3>3, <3>4, <2>3, <1>0 DEF InOrder
    <3> QED BY <3>5, <3>6, <3>7 DEF InOrder
  <2> QED BY <2>2, <2>4, <2>5
<1>6. ASSUME NEW kept \in 0..MaxTrades, Breaks(kept) PROVE InOrder'
  <2>1. wire' = SubSeq(wire, 1, kept) /\ kept <= Len(wire) /\ UNCHANGED <<now, current>>
    BY <1>6 DEF Breaks
  <2>2. Len(wire') = kept /\ \A k \in 1..kept : wire'[k] = wire[k] BY <2>1, <1>1
  <2>3. \A k \in 1..kept : k \in 1..Len(wire) BY <2>1, <1>1
  <2>4. \A k, l \in 1..kept : k <= l => wire'[k].sec <= wire'[l].sec
    BY <2>2, <2>3, <1>0 DEF InOrder
  <2>5. \A k \in 1..kept : wire'[k].sec <= now'
    BY <2>1, <2>2, <2>3, <1>0 DEF InOrder
  <2>6. current' # NoBar => /\ current'.sec <= now'
                           /\ \A k \in 1..kept : current'.sec <= wire'[k].sec
    BY <2>1, <2>2, <2>3, <1>0 DEF InOrder
  <2> QED BY <2>2, <2>4, <2>5, <2>6 DEF InOrder
<1>7. CASE FirstTrade \/ SameSecond \/ Rollover
  <2>1. wire # <<>> /\ wire' = Tail(wire) /\ now' = now
    BY <1>7 DEF FirstTrade, SameSecond, Rollover, Take
  <2>2. Len(wire') = Len(wire) - 1 /\ \A k \in 1..Len(wire') : wire'[k] = wire[k + 1]
    BY <1>1, <2>1, HeadTailProperties
  <2>3. Head(wire) = wire[1] /\ Len(wire) > 0 BY <1>1, <2>1
  <2>4. current'.sec = wire[1].sec
    <3>1. wire[1] \in Trade BY <2>3, <1>1
    <3>2. CASE SameSecond
      <4>1. current.sec = wire[1].sec /\ current' = UpdateBar(current, wire[1])
        BY <2>3, <3>2 DEF SameSecond
      <4>2. current \in Bar BY <4>1, <3>1, <1>0 DEF BarsOK, NoBar, Trade
      <4> QED BY <4>1, <4>2 DEF UpdateBar, Bar
    <3>3. CASE FirstTrade \/ Rollover BY <2>3, <3>3 DEF FirstTrade, Rollover, InitBar
    <3> QED BY <3>2, <3>3, <1>7
  <2> QED BY <2>1, <2>2, <2>3, <2>4, <1>0, <1>1, <1>2, <1>3 DEF InOrder
<1>8. CASE Restart
  <2>1. wire' = <<>> /\ current' = NoBar BY <1>8 DEF Restart
  <2>2. Len(wire') = 0 BY <2>1
  <2> QED BY <2>1, <2>2 DEF InOrder
<1> QED BY <1>4, <1>5, <1>6, <1>7, <1>8 DEF Next

LEMMA NextAscending ==
  ASSUME ConstantsAssumption, IInv, [Next]_vars
  PROVE  Filling' /\ Ascending'
<1> USE DEF ConstantsAssumption
<1>0. ClockOK /\ TradesOK /\ BarsOK /\ InOrder /\ Filling /\ Ascending BY TypeParts DEF IInv
<1>1. n \in 0..Warmup /\ n \in Nat BY <1>0 DEF BarsOK
<1>2. \A k \in 1..n : Window[k].sec \in Int BY <1>0 DEF Ascending, Bar
<1>3. ASSUME wire # <<>> PROVE Head(wire) \in Trade /\ Head(wire) = wire[1] /\ Len(wire) > 0
  BY <1>0, <1>3 DEF TradesOK
<1>4. CASE FirstTrade
  <2>1. n' = n /\ Window' = Window /\ cursor' = cursor /\ n = 0
    BY <1>0, <1>4 DEF FirstTrade, buffer, Ascending, Window
  <2>2. current' # NoBar BY <1>3, <1>4 DEF FirstTrade, Take, InitBar, NoBar, Trade
  <2> QED BY <2>1, <2>2, <1>0 DEF Filling, Ascending
<1>5. CASE SameSecond
  <2>1. n' = n /\ Window' = Window /\ cursor' = cursor BY <1>5 DEF SameSecond, buffer, Window
  <2>2. NoBar.sec # Head(wire).sec BY <1>3, <1>5 DEF SameSecond, Take, NoBar, Trade
  <2>3. current \in Bar /\ current # NoBar BY <2>2, <1>0, <1>5 DEF SameSecond, BarsOK
  <2>4. current'.sec = current.sec BY <2>3, <1>5 DEF SameSecond, UpdateBar, Bar
  <2>5. current' # NoBar BY <2>2, <2>4, <1>5 DEF SameSecond
  <2> QED BY <2>1, <2>3, <2>4, <2>5, <1>0 DEF Filling, Ascending
<1>6. CASE Rollover
  <2>1. OnBar(current) /\ current \in Bar /\ current # NoBar /\ wire # <<>>
        /\ current.sec # Head(wire).sec /\ current'.sec = Head(wire).sec
    BY <1>0, <1>6 DEF Rollover, Take, InitBar, BarsOK
  <2>2. Window' = Shifted(current) /\ Filling' BY <2>1, <1>0, WindowShifts
  <2>3. n' = IF n < Warmup THEN n + 1 ELSE n BY <2>1 DEF OnBar
  <2>4. current.sec \in Int /\ current'.sec \in Int /\ current.sec < current'.sec
    <3>1. current.sec <= Head(wire).sec BY <1>0, <1>3, <2>1 DEF InOrder
    <3>2. current.sec \in Int /\ Head(wire).sec \in Int BY <1>3, <2>1 DEF Bar, Trade
    <3> QED BY <3>1, <3>2, <2>1
  <2>5. current' # NoBar BY <1>3, <2>1 DEF NoBar, Trade
  <2>6. \A k \in 1..n' :
          IF k = n' THEN Window'[k] = current
          ELSE \E j \in 1..n : Window'[k] = Window[j] /\ j = IF n < Warmup THEN k ELSE k + 1
    BY <1>1, <2>2, <2>3 DEF Shifted
  <2>7. \A k \in 1..n : Window[k].sec < current.sec BY <1>0, <2>1 DEF Ascending
  <2>8. \A k, l \in 1..n' : k < l => Window'[k].sec < Window'[l].sec
    <3> TAKE k, l \in 1..n'
    <3> HAVE k < l
    <3>1. k # n' BY <1>1, <2>3
    <3>2. PICK j \in 1..n : Window'[k] = Window[j] /\ j = IF n < Warmup THEN k ELSE k + 1
      BY <3>1, <2>6
    <3>3. CASE l = n' BY <3>2, <3>3, <2>6, <2>7
    <3>4. CASE l # n'
      <4>1. PICK i \in 1..n : Window'[l] = Window[i] /\ i = IF n < Warmup THEN l ELSE l + 1
        BY <3>4, <2>6
      <4>2. j < i BY <3>2, <4>1, <1>1
      <4> QED BY <3>2, <4>1, <4>2, <1>0 DEF Ascending
    <3> QED BY <3>3, <3>4
  <2>9. \A k \in 1..n' : Window'[k] \in Bar BY <2>6, <2>1, <1>0 DEF Ascending
  <2>10. \A k \in 1..n' : Window'[k].sec < current'.sec BY <2>6, <2>7, <2>4, <1>2
  <2> QED BY <2>2, <2>5, <2>8, <2>9, <2>10 DEF Ascending
<1>7. CASE Restart
  <2>1. n' = 0 /\ cursor' = 0 /\ current' = NoBar BY <1>7 DEF Restart
  <2> QED BY <2>1 DEF Filling, Ascending
<1>8. CASE UNCHANGED <<current, buffer>> BY <1>8, <1>0 DEF buffer, Filling, Ascending, Window
<1> QED BY <1>4, <1>5, <1>6, <1>7, <1>8 DEF Next, vars, Tick, Trades, Breaks, ClosedCleanly,
     Disconnected, OtherException, Connect, ConnectFails

LEMMA NextIInv == ASSUME ConstantsAssumption, IInv, [Next]_vars PROVE IInv'
<1>1. TypeOK'
  BY TypeParts, NextClockOK, NextTradesOK, NextBarsOK DEF IInv, TypeOK, ClockOK, TradesOK, BarsOK
<1> QED BY <1>1, NextInOrder, NextAscending DEF IInv

\* The window the detectors see is ascending in time, however often the ring has wrapped,
\* connections have broken and the process has restarted.
THEOREM WindowInOrder == ASSUME ConstantsAssumption PROVE Spec => []WindowAscends
<1>1. IInv => WindowAscends
  <2>1. ASSUME IInv PROVE DOMAIN Window = 1..n BY DEF Window, Contig
  <2> QED BY <2>1 DEF IInv, Ascending, WindowAscends
<1> QED BY InitIInv, NextIInv, <1>1, PTL DEF Spec

\* The ring buffer, its cursor and its count implement the window of the newest bars.
THEOREM RingImplementsWindow == ASSUME ConstantsAssumption PROVE Spec => WindowImplemented
<1>1. Init => Abstract!Init
  <2>1. ASSUME Init PROVE Window = <<>> BY <2>1 DEF Init, Window, Contig
  <2> QED BY <2>1 DEF Abstract!Init
<1>2. IInv /\ [Next]_vars => [Abstract!Next]_Window
  <2> SUFFICES ASSUME IInv, [Next]_vars PROVE [Abstract!Next]_Window OBVIOUS
  <2>0. BarsOK /\ Filling BY TypeParts DEF IInv
  <2>1. CASE Rollover
    <3>1. OnBar(current) /\ current \in Bar BY <2>0, <2>1 DEF Rollover, BarsOK
    <3> QED BY <3>1, <2>0, OnBarPushes DEF Abstract!Next
  <2>2. CASE Restart
    <3>1. Window' = <<>> BY <2>2 DEF Restart, Window, Contig
    <3> QED BY <3>1 DEF Abstract!Next, Abstract!Reset
  <2>3. CASE UNCHANGED buffer BY <2>3 DEF buffer, Window
  <2> QED BY <2>1, <2>2, <2>3 DEF Next, vars, Tick, Trades, Breaks, ClosedCleanly, Disconnected,
       OtherException, Connect, ConnectFails, FirstTrade, SameSecond
<1> QED BY InitIInv, NextIInv, <1>1, <1>2, PTL DEF Spec, WindowImplemented, Abstract!WindowSpec

-----------------------------------------------------------------------------
\* The fate of every trade.

\* The tape is in order of time; bars close in that order, and before the time of
\* anything that is still on its way.
Ordered ==
  /\ \A i, j \in 1..Len(tape) : i <= j => tape[i].sec <= tape[j].sec
  /\ \A j \in 1..Len(tape) : tape[j].sec <= now
  /\ \A k, l \in 1..Len(emitted) : k < l => emitted[k].sec < emitted[l].sec
  /\ \A k \in 1..Len(emitted) :
       /\ emitted[k].sec < now
       /\ \A l \in 1..Len(wire) : emitted[k].sec < wire[l].sec
       /\ current # NoBar => emitted[k].sec < current.sec

\* What is on its way is the piece of the tape after its first a trades; what came
\* after that piece was made without a connection.
Sent(a) ==
  /\ a + Len(wire) <= Len(tape)
  /\ \A k \in 1..Len(wire) : wire[k] = tape[a + k]
  /\ \A j \in (a + Len(wire) + 1)..Len(tape) : tape[j].sec \in gaps
  /\ link = "up" => a + Len(wire) = Len(tape)
  /\ link = "waiting" => wire = <<>>

\* Each of the first a trades is in a bar, unless its second has lost one.
Covered(a) ==
  \A j \in 1..a :
    \/ tape[j].sec \in gaps
    \/ \E k \in 1..Len(emitted) : emitted[k].sec = tape[j].sec
    \/ current # NoBar /\ current.sec = tape[j].sec

\* The bar is a candle of some of the trades at these places, of all without a gap.
Sums(bar, trades, lost, places) ==
  \E some \in SUBSET places :
    /\ IsCandle(bar, trades, some)
    /\ bar.sec \notin lost => some = places

\* The bar under construction sums up the trades of its second among the first a.
Growing(a) ==
  current # NoBar =>
    Sums(current, tape, gaps, {j \in 1..a : tape[j].sec = current.sec})

Accounted == \E a \in 0..Len(tape) : Sent(a) /\ Covered(a) /\ Growing(a)

Invariant == IInv /\ Ordered /\ BarsAreKlines /\ Accounted

-----------------------------------------------------------------------------
\* The algebra of candles.

LEMMA CandleStarts ==
  ASSUME ConstantsAssumption, NEW trades \in Seq(Trade), NEW p \in 1..Len(trades)
  PROVE  IsCandle(InitBar(trades[p]), trades, {p})
<1>1. trades[p] \in Trade BY ElementOfSeq
<1>2. trades[p].price \in Int BY <1>1 DEF Trade, ConstantsAssumption
<1>3. Cardinality({p}) = 1 BY FS_Singleton
<1>4. p <= p /\ trades[p].price <= trades[p].price BY <1>2
<1> DEFINE bar == InitBar(trades[p])
<1>5. /\ bar.sec = trades[p].sec /\ bar.open = trades[p].price /\ bar.high = trades[p].price
      /\ bar.low = trades[p].price /\ bar.close = trades[p].price /\ bar.trades = 1
  BY DEF InitBar
<1> HIDE DEF bar
<1>6. IsCandle(bar, trades, {p}) BY <1>3, <1>4, <1>5 DEF IsCandle
<1> QED BY <1>6 DEF bar

LEMMA CandleGrows ==
  ASSUME ConstantsAssumption, NEW trades \in Seq(Trade), NEW p \in 1..Len(trades), NEW bar \in Bar,
         NEW places \in SUBSET (1..(p - 1)),
         IsCandle(bar, trades, places), trades[p].sec = bar.sec
  PROVE  IsCandle(UpdateBar(bar, trades[p]), trades, places \union {p})
<1> DEFINE all == places \union {p}
           grown == UpdateBar(bar, trades[p])
           high == IF trades[p].price > bar.high THEN trades[p].price ELSE bar.high
           low == IF trades[p].price < bar.low THEN trades[p].price ELSE bar.low
<1>0. /\ grown.sec = bar.sec /\ grown.open = bar.open /\ grown.high = high /\ grown.low = low
      /\ grown.close = trades[p].price /\ grown.trades = bar.trades + 1
  BY DEF UpdateBar, Bar
<1>1. p \in Nat /\ Len(trades) \in Nat OBVIOUS
<1>2. \A j \in all : j \in 1..Len(trades) /\ j \in Int /\ (j \in places => j < p) BY <1>1
<1>3. \A j \in all : trades[j].price \in Int
  <2>1. \A j \in 1..Len(trades) : trades[j] \in Trade BY ElementOfSeq
  <2>2. \A j \in 1..Len(trades) : trades[j].price \in Int BY <2>1 DEF Trade, ConstantsAssumption
  <2> QED BY <2>2, <1>2
<1>4. PICK first, last \in places :
        /\ \A j \in places : first <= j /\ j <= last
        /\ bar.open = trades[first].price /\ bar.close = trades[last].price
  BY DEF IsCandle
<1>5. PICK top, bottom \in places :
        /\ \A j \in places : trades[bottom].price <= trades[j].price
                             /\ trades[j].price <= trades[top].price
        /\ bar.high = trades[top].price /\ bar.low = trades[bottom].price
  BY DEF IsCandle
<1>6. bar.trades = Cardinality(places) /\ \A j \in places : trades[j].sec = bar.sec
  BY DEF IsCandle
<1> HIDE DEF grown, high, low
<1>7. \A j \in all : trades[j].sec = grown.sec BY <1>0, <1>6
<1>8. first \in all /\ p \in all /\ \A j \in all : first <= j /\ j <= p
  <2>1. first \in Int /\ first < p BY <1>2
  <2>2. \A j \in places : first <= j /\ j <= p BY <1>2, <1>4
  <2>3. first <= p /\ p <= p BY <2>1, <1>1
  <2> QED BY <2>2, <2>3
<1>9. \E first1, last1 \in all :
        /\ \A j \in all : first1 <= j /\ j <= last1
        /\ grown.open = trades[first1].price /\ grown.close = trades[last1].price
  BY <1>0, <1>4, <1>8
<1>10. \E top1 \in all : high = trades[top1].price
                         /\ \A j \in all : trades[j].price <= trades[top1].price
  <2>1. CASE trades[p].price > bar.high
    <3>0. /\ trades[p].price \in Int /\ trades[top].price \in Int
          /\ \A j \in places : trades[j].price \in Int
      BY <1>3
    <3>1. high = trades[p].price BY <2>1 DEF high
    <3>2. ASSUME NEW j \in places PROVE trades[j].price <= trades[p].price
      <4>1. trades[j].price <= trades[top].price /\ trades[top].price < trades[p].price
        BY <2>1, <1>5
      <4> QED BY <4>1, <3>0
    <3>3. trades[p].price <= trades[p].price BY <3>0
    <3> QED BY <3>1, <3>2, <3>3
  <2>2. CASE ~(trades[p].price > bar.high)
    <3>1. high = trades[top].price BY <2>2, <1>5 DEF high
    <3>2. \A j \in places : trades[j].price <= trades[top].price BY <1>5
    <3>3. trades[p].price <= trades[top].price
      <4>1. trades[p].price \in Int /\ trades[top].price \in Int BY <1>3
      <4> QED BY <4>1, <2>2, <1>5
    <3> QED BY <3>1, <3>2, <3>3
  <2> QED BY <2>1, <2>2
<1>11. \E bottom1 \in all : low = trades[bottom1].price
                            /\ \A j \in all : trades[bottom1].price <= trades[j].price
  <2>1. CASE trades[p].price < bar.low
    <3>0. /\ trades[p].price \in Int /\ trades[bottom].price \in Int
          /\ \A j \in places : trades[j].price \in Int
      BY <1>3
    <3>1. low = trades[p].price BY <2>1 DEF low
    <3>2. ASSUME NEW j \in places PROVE trades[p].price <= trades[j].price
      <4>1. trades[bottom].price <= trades[j].price /\ trades[p].price < trades[bottom].price
        BY <2>1, <1>5
      <4> QED BY <4>1, <3>0
    <3>3. trades[p].price <= trades[p].price BY <3>0
    <3> QED BY <3>1, <3>2, <3>3
  <2>2. CASE ~(trades[p].price < bar.low)
    <3>1. low = trades[bottom].price BY <2>2, <1>5 DEF low
    <3>2. \A j \in places : trades[bottom].price <= trades[j].price BY <1>5
    <3>3. trades[bottom].price <= trades[p].price
      <4>1. trades[p].price \in Int /\ trades[bottom].price \in Int BY <1>3
      <4> QED BY <4>1, <2>2, <1>5
    <3> QED BY <3>1, <3>2, <3>3
  <2> QED BY <2>1, <2>2
<1>12. grown.trades = Cardinality(all)
  <2>1. IsFiniteSet(places)
    <3>1. IsFiniteSet(1..(p - 1))
      <4>1. 1 \in Int /\ p - 1 \in Int BY <1>1
      <4> QED BY <4>1, FS_Interval
    <3> QED BY <3>1, FS_Subset
  <2>2. p \notin places BY <1>2
  <2> QED BY <2>1, <2>2, <1>0, <1>6, FS_AddElement
<1>13. \E top1, bottom1 \in all :
         /\ \A j \in all : trades[bottom1].price <= trades[j].price
                           /\ trades[j].price <= trades[top1].price
         /\ grown.high = trades[top1].price /\ grown.low = trades[bottom1].price
  BY <1>0, <1>10, <1>11
<1> HIDE DEF all
<1>14. IsCandle(grown, trades, all) BY <1>7, <1>9, <1>12, <1>13 DEF IsCandle
<1> QED BY <1>14 DEF grown, all

\* A candle depends on its own trades only.
LEMMA CandleKept ==
  ASSUME NEW bar, NEW trades, NEW longer, NEW places,
         \A j \in places : longer[j] = trades[j],
         IsCandle(bar, trades, places)
  PROVE  IsCandle(bar, longer, places)
<1>1. /\ \A j \in places : trades[j].sec = bar.sec
      /\ \E first, last \in places :
           /\ \A j \in places : first <= j /\ j <= last
           /\ bar.open = trades[first].price /\ bar.close = trades[last].price
      /\ \E top, bottom \in places :
           /\ \A j \in places : trades[bottom].price <= trades[j].price
                                /\ trades[j].price <= trades[top].price
           /\ bar.high = trades[top].price /\ bar.low = trades[bottom].price
      /\ bar.trades = Cardinality(places)
  BY DEF IsCandle
<1>2. PICK first, last \in places :
        /\ \A j \in places : first <= j /\ j <= last
        /\ bar.open = trades[first].price /\ bar.close = trades[last].price
  BY <1>1
<1>3. PICK top, bottom \in places :
        /\ \A j \in places : trades[bottom].price <= trades[j].price
                             /\ trades[j].price <= trades[top].price
        /\ bar.high = trades[top].price /\ bar.low = trades[bottom].price
  BY <1>1
<1>4. \E first1, last1 \in places :
        /\ \A j \in places : first1 <= j /\ j <= last1
        /\ bar.open = longer[first1].price /\ bar.close = longer[last1].price
  BY <1>2
<1>5. \E top1, bottom1 \in places :
        /\ \A j \in places : longer[bottom1].price <= longer[j].price
                             /\ longer[j].price <= longer[top1].price
        /\ bar.high = longer[top1].price /\ bar.low = longer[bottom1].price
  BY <1>3
<1> QED BY <1>1, <1>4, <1>5 DEF IsCandle

LEMMA SumsStarts ==
  ASSUME ConstantsAssumption, NEW trades \in Seq(Trade), NEW p \in 1..Len(trades), NEW lost
  PROVE  Sums(InitBar(trades[p]), trades, lost, {p})
BY CandleStarts DEF Sums

LEMMA SumsGrows ==
  ASSUME ConstantsAssumption, NEW trades \in Seq(Trade), NEW p \in 1..Len(trades), NEW bar \in Bar,
         NEW lost, NEW places \in SUBSET (1..(p - 1)),
         Sums(bar, trades, lost, places), trades[p].sec = bar.sec
  PROVE  Sums(UpdateBar(bar, trades[p]), trades, lost, places \union {p})
<1>1. PICK some \in SUBSET places :
        IsCandle(bar, trades, some) /\ (bar.sec \notin lost => some = places)
  BY DEF Sums
<1>2. some \in SUBSET (1..(p - 1)) OBVIOUS
<1>3. IsCandle(UpdateBar(bar, trades[p]), trades, some \union {p}) BY <1>1, <1>2, CandleGrows
<1>4. UpdateBar(bar, trades[p]).sec = bar.sec BY DEF UpdateBar, Bar
<1> QED BY <1>1, <1>3, <1>4 DEF Sums

LEMMA SumsKept ==
  ASSUME NEW bar, NEW trades, NEW longer, NEW lost, NEW more, NEW places, NEW others,
         Sums(bar, trades, lost, places),
         \A j \in places : longer[j] = trades[j],
         lost \subseteq more, places \subseteq others, bar.sec \notin more => places = others
  PROVE  Sums(bar, longer, more, others)
<1>1. PICK some \in SUBSET places :
        IsCandle(bar, trades, some) /\ (bar.sec \notin lost => some = places)
  BY DEF Sums
<1>2. IsCandle(bar, longer, some) BY <1>1, CandleKept
<1> QED BY <1>1, <1>2 DEF Sums

-----------------------------------------------------------------------------
\* What the feed task does with the first trade on its way.
LEMMA TakeFacts ==
  ASSUME ConstantsAssumption, IInv, FirstTrade \/ SameSecond \/ Rollover
  PROVE  /\ Len(wire) \in Nat /\ Len(wire) > 0
         /\ Head(wire) = wire[1] /\ wire[1] \in Trade /\ wire[1].sec \in Int
         /\ Len(wire') = Len(wire) - 1
         /\ \A k \in 1..Len(wire') : wire'[k] = wire[k + 1]
         /\ current' # NoBar /\ current'.sec = wire[1].sec
         /\ UNCHANGED <<now, tape, gaps, link>>
<1>0. TradesOK /\ BarsOK BY TypeParts DEF IInv
<1>1. wire # <<>> /\ wire' = Tail(wire) /\ UNCHANGED <<now, tape, gaps, link>>
  BY DEF FirstTrade, SameSecond, Rollover, Take
<1>2. wire \in Seq(Trade) /\ Len(wire) \in Nat BY <1>0, LenProperties DEF TradesOK
<1>3. Len(wire') = Len(wire) - 1 /\ \A k \in 1..Len(wire') : wire'[k] = wire[k + 1]
  BY <1>1, <1>2, HeadTailProperties
<1>4. Head(wire) = wire[1] /\ Len(wire) > 0 BY <1>1, <1>2
<1>5. wire[1] \in Trade BY <1>4, <1>2
<1>6. wire[1].sec \in Int /\ wire[1].sec # -1 BY <1>5 DEF Trade, ConstantsAssumption
<1>7. current'.sec = wire[1].sec
  <2>1. CASE SameSecond
    <3>1. current.sec = wire[1].sec /\ current' = UpdateBar(current, wire[1])
      BY <1>4, <2>1 DEF SameSecond
    <3>2. current \in Bar BY <3>1, <1>6, <1>0 DEF BarsOK, NoBar
    <3> QED BY <3>1, <3>2 DEF UpdateBar, Bar
  <2>2. CASE FirstTrade \/ Rollover BY <1>4, <2>2 DEF FirstTrade, Rollover, InitBar
  <2> QED BY <2>1, <2>2
<1>8. current' # NoBar BY <1>6, <1>7 DEF NoBar
<1> QED BY <1>1, <1>2, <1>3, <1>4, <1>5, <1>6, <1>7, <1>8

\* A bar that closes is older than the trade that closes it.
LEMMA RolloverFacts ==
  ASSUME ConstantsAssumption, IInv, Rollover
  PROVE  /\ current \in Bar /\ current # NoBar /\ current.sec \in Int
         /\ current.sec < wire[1].sec
         /\ emitted' = Append(emitted, current)
         /\ current' = InitBar(wire[1])
<1>0. BarsOK /\ InOrder BY TypeParts DEF IInv
<1>1. Len(wire) \in Nat /\ Len(wire) > 0 /\ Head(wire) = wire[1] /\ wire[1].sec \in Int
  BY TakeFacts
<1>2. current # NoBar /\ current.sec # wire[1].sec /\ emitted' = Append(emitted, current)
      /\ current' = InitBar(wire[1])
  BY <1>1 DEF Rollover, OnBar
<1>3. current \in Bar BY <1>0, <1>2 DEF BarsOK
<1>4. current.sec \in Int BY <1>3 DEF Bar, ConstantsAssumption
<1>5. 1 \in 1..Len(wire) BY <1>1
<1>6. current.sec <= wire[1].sec BY <1>0, <1>2, <1>5 DEF InOrder
<1> QED BY <1>1, <1>2, <1>3, <1>4, <1>6

\* The lengths and the seconds that are compared are numbers.
LEMMA Numbers ==
  ASSUME ConstantsAssumption, IInv
  PROVE  /\ Len(tape) \in Nat /\ Len(wire) \in Nat /\ Len(emitted) \in Nat
         /\ tape \in Seq(Trade) /\ wire \in Seq(Trade) /\ emitted \in Seq(Bar)
         /\ DOMAIN tape = 1..Len(tape) /\ DOMAIN emitted = 1..Len(emitted)
         /\ \A j \in 1..Len(tape) : tape[j] \in Trade /\ tape[j].sec \in Int
         /\ \A k \in 1..Len(wire) : wire[k] \in Trade /\ wire[k].sec \in Int
         /\ \A k \in 1..Len(emitted) : emitted[k] \in Bar /\ emitted[k].sec \in Int
         /\ current # NoBar => current \in Bar /\ current.sec \in Int
         /\ now \in Int /\ now \in 0..MaxTime
<1>0. ClockOK /\ TradesOK /\ BarsOK BY TypeParts DEF IInv
<1>1. tape \in Seq(Trade) /\ wire \in Seq(Trade) /\ emitted \in Seq(Bar)
  BY <1>0 DEF TradesOK, BarsOK
<1>2. /\ Len(tape) \in Nat /\ Len(wire) \in Nat /\ Len(emitted) \in Nat
      /\ DOMAIN tape = 1..Len(tape) /\ DOMAIN emitted = 1..Len(emitted)
  BY <1>1, LenProperties
<1>3. \A t \in Trade : t.sec \in Int BY DEF Trade, ConstantsAssumption
<1>4. \A bar \in Bar : bar.sec \in Int BY DEF Bar, ConstantsAssumption
<1>5. \A j \in 1..Len(tape) : tape[j] \in Trade BY <1>1, ElementOfSeq
<1>6. \A k \in 1..Len(wire) : wire[k] \in Trade BY <1>1, ElementOfSeq
<1>7. \A k \in 1..Len(emitted) : emitted[k] \in Bar BY <1>1, ElementOfSeq
<1>8. current # NoBar => current \in Bar BY <1>0 DEF BarsOK
<1>9. now \in 0..MaxTime /\ now \in Int BY <1>0 DEF ClockOK, ConstantsAssumption
<1> QED BY <1>1, <1>2, <1>3, <1>4, <1>5, <1>6, <1>7, <1>8, <1>9

\* A trade that is made comes last on the tape.
LEMMA TradeFacts ==
  ASSUME ConstantsAssumption, IInv, NEW price \in Prices, Trades(price)
  PROVE  /\ Len(tape') = Len(tape) + 1
         /\ \A j \in 1..Len(tape) : tape'[j] = tape[j]
         /\ tape'[Len(tape) + 1].sec = now
         /\ DOMAIN tape' = 1..(Len(tape) + 1)
         /\ UNCHANGED <<now, link, current, emitted>>
<1> DEFINE t == [sec |-> now, price |-> price]
<1>1. tape' = Append(tape, t) /\ UNCHANGED <<now, link, current, emitted>> BY DEF Trades
<1>2. t \in Trade /\ t.sec = now BY Numbers DEF Trade
<1>3. tape \in Seq(Trade) BY Numbers
<1> HIDE DEF t
<1>4. Len(tape') = Len(tape) + 1 BY <1>1, <1>2, <1>3
<1>5. tape' \in Seq(Trade) BY <1>1, <1>2, <1>3
<1>6. \A j \in 1..Len(tape) : tape'[j] = tape[j] BY <1>1, <1>2, <1>3
<1>7. tape'[Len(tape) + 1] = t BY <1>1, <1>2, <1>3
<1>8. DOMAIN tape' = 1..(Len(tape) + 1) BY <1>4, <1>5, LenProperties
<1> QED BY <1>1, <1>2, <1>4, <1>6, <1>7, <1>8

\* A trade that is made with a connection is sent, and another one leaves a gap.
LEMMA SendFacts ==
  ASSUME ConstantsAssumption, IInv, NEW price \in Prices, Trades(price)
  PROVE  \/ /\ link = "up" /\ gaps' = gaps
            /\ Len(wire') = Len(wire) + 1
            /\ \A k \in 1..Len(wire) : wire'[k] = wire[k]
            /\ wire'[Len(wire) + 1] = tape'[Len(tape) + 1]
         \/ link # "up" /\ wire' = wire /\ gaps' = gaps \union {now}
<1> DEFINE t == [sec |-> now, price |-> price]
<1>1. t \in Trade BY Numbers DEF Trade
<1>2. tape \in Seq(Trade) /\ wire \in Seq(Trade) BY Numbers
<1>3. tape' = Append(tape, t) BY DEF Trades
<1>4. \/ link = "up" /\ gaps' = gaps /\ wire' = Append(wire, t)
      \/ link # "up" /\ wire' = wire /\ gaps' = gaps \union {now}
  BY DEF Trades
<1> HIDE DEF t
<1>5. tape'[Len(tape) + 1] = t BY <1>1, <1>2, <1>3
<1>6. ASSUME wire' = Append(wire, t)
      PROVE  /\ Len(wire') = Len(wire) + 1
             /\ \A k \in 1..Len(wire) : wire'[k] = wire[k]
             /\ wire'[Len(wire) + 1] = t
  BY <1>1, <1>2, <1>6
<1> QED BY <1>4, <1>5, <1>6

LEMMA LossFacts ==
  ASSUME ConstantsAssumption, IInv, NEW kept \in 0..MaxTrades, Breaks(kept)
  PROVE  /\ kept \in Nat /\ kept <= Len(wire) /\ Len(wire') = kept
         /\ \A k \in 1..kept : wire'[k] = wire[k]
         /\ gaps' = gaps \union {wire[k].sec : k \in (kept + 1)..Len(wire)}
         /\ link = "up" /\ link' = "closed"
         /\ UNCHANGED <<now, tape, current, emitted>>
<1>1. /\ wire' = SubSeq(wire, 1, kept) /\ kept <= Len(wire)
      /\ gaps' = gaps \union {wire[k].sec : k \in (kept + 1)..Len(wire)}
      /\ link = "up" /\ link' = "closed" /\ UNCHANGED <<now, tape, current, emitted>>
  BY DEF Breaks
<1>2. wire \in Seq(Trade) /\ Len(wire) \in Nat BY Numbers
<1>3. kept \in Nat BY DEF ConstantsAssumption
<1>4. Len(wire') = kept /\ \A k \in 1..kept : wire'[k] = wire[k] BY <1>1, <1>2, <1>3
<1> QED BY <1>1, <1>3, <1>4

\* Nothing moves when the clock ticks or the stream changes its state.
Idle == Tick \/ ClosedCleanly \/ Disconnected \/ OtherException \/ Connect \/ ConnectFails
        \/ UNCHANGED vars

LEMMA IdleFacts ==
  ASSUME ConstantsAssumption, IInv, Idle
  PROVE  /\ UNCHANGED <<tape, gaps, wire, current, emitted>>
         /\ now' \in Int /\ now <= now'
<1>1. UNCHANGED <<tape, gaps, wire, current, emitted>>
  BY DEF Idle, vars, stream, Tick, ClosedCleanly, Disconnected, OtherException, Connect, ConnectFails
<1>2. now \in Int BY Numbers
<1>3. CASE Tick BY <1>1, <1>2, <1>3 DEF Tick
<1>4. CASE ~Tick
  <2>1. now' = now
    BY <1>4 DEF Idle, vars, ClosedCleanly, Disconnected, OtherException, Connect, ConnectFails
  <2> QED BY <1>1, <1>2, <2>1
<1> QED BY <1>1, <1>3, <1>4

LEMMA StepKinds ==
  [Next]_vars => \/ Idle
                 \/ \E price \in Prices : Trades(price)
                 \/ \E kept \in 0..MaxTrades : Breaks(kept)
                 \/ FirstTrade \/ SameSecond
                 \/ Rollover
                 \/ Restart
BY DEF Next, Idle

\* Time goes on, on the tape and in the bars.
LEMMA NextOrdered ==
  ASSUME ConstantsAssumption, IInv, Ordered, [Next]_vars
  PROVE  Ordered'
<1>0. InOrder BY DEF IInv
<1>1. CASE Idle
  <2>1. UNCHANGED <<tape, gaps, wire, current, emitted>> /\ now' \in Int /\ now <= now'
    BY <1>1, IdleFacts
  <2>2. \A j \in 1..Len(tape) : tape[j].sec <= now' BY <2>1, Numbers DEF Ordered
  <2>3. \A k \in 1..Len(emitted) : emitted[k].sec < now' BY <2>1, Numbers DEF Ordered
  <2> QED BY <2>1, <2>2, <2>3 DEF Ordered
<1>2. ASSUME NEW price \in Prices, Trades(price) PROVE Ordered'
  <2> DEFINE m == Len(tape)
  <2>1. /\ Len(tape') = m + 1 /\ \A j \in 1..m : tape'[j] = tape[j]
        /\ tape'[m + 1].sec = now /\ UNCHANGED <<now, link, current, emitted>>
    BY <1>2, TradeFacts
  <2>2. m \in Nat /\ now \in Int BY Numbers
  <2> HIDE DEF m
  <2>3. \A j \in 1..(m + 1) : j \in 1..m \/ j = m + 1 BY <2>2
  <2>4. \A j \in 1..(m + 1) : tape'[j].sec <= now BY <2>1, <2>2, <2>3 DEF Ordered, m
  <2>5. \A i, j \in 1..(m + 1) : i <= j => tape'[i].sec <= tape'[j].sec
    <3> TAKE i, j \in 1..(m + 1)
    <3> HAVE i <= j
    <3>1. CASE j = m + 1 BY <3>1, <2>1, <2>4
    <3>2. CASE j \in 1..m
      <4>1. i \in 1..m BY <3>2, <2>2
      <4> QED BY <4>1, <3>2, <2>1 DEF Ordered, m
    <3> QED BY <3>1, <3>2, <2>3
  <2>6. \A k \in 1..Len(emitted) : \A l \in 1..Len(wire') : emitted[k].sec < wire'[l].sec
    <3>1. CASE wire' = wire BY <3>1 DEF Ordered
    <3>2. CASE /\ Len(wire') = Len(wire) + 1
               /\ \A k \in 1..Len(wire) : wire'[k] = wire[k]
               /\ wire'[Len(wire) + 1] = tape'[m + 1]
      <4>1. \A l \in 1..Len(wire') : l \in 1..Len(wire) \/ l = Len(wire) + 1 BY <3>2, Numbers
      <4> QED BY <4>1, <3>2, <2>1 DEF Ordered
    <3> QED BY <1>2, <3>1, <3>2, SendFacts DEF m
  <2>7. /\ \A i, j \in 1..Len(tape') : i <= j => tape'[i].sec <= tape'[j].sec
        /\ \A j \in 1..Len(tape') : tape'[j].sec <= now'
    BY <2>1, <2>4, <2>5
  <2>8. /\ \A k, l \in 1..Len(emitted) : k < l => emitted[k].sec < emitted[l].sec
        /\ \A k \in 1..Len(emitted) :
             emitted[k].sec < now /\ (current # NoBar => emitted[k].sec < current.sec)
    BY DEF Ordered
  <2> QED BY <2>1, <2>6, <2>7, <2>8 DEF Ordered
<1>3. ASSUME NEW kept \in 0..MaxTrades, Breaks(kept) PROVE Ordered'
  <2>1. /\ kept \in Nat /\ kept <= Len(wire) /\ Len(wire') = kept
        /\ \A k \in 1..kept : wire'[k] = wire[k] /\ UNCHANGED <<now, tape, current, emitted>>
    BY <1>3, LossFacts
  <2>2. \A k \in 1..kept : k \in 1..Len(wire) BY <2>1, Numbers
  <2>3. UNCHANGED <<now, tape, current, emitted>> BY <1>3, LossFacts
  <2> QED BY <2>1, <2>2, <2>3 DEF Ordered
<1>4. CASE FirstTrade \/ SameSecond
  <2>1. /\ Len(wire) > 0 /\ Len(wire') = Len(wire) - 1
        /\ \A k \in 1..Len(wire') : wire'[k] = wire[k + 1]
        /\ current' # NoBar /\ current'.sec = wire[1].sec
        /\ UNCHANGED <<now, tape, gaps, link>>
    BY <1>4, TakeFacts
  <2>2. emitted' = emitted BY <1>4 DEF FirstTrade, SameSecond
  <2>3. 1 \in 1..Len(wire) /\ \A k \in 1..Len(wire') : k + 1 \in 1..Len(wire) BY <2>1, Numbers
  <2>4. \A k \in 1..Len(emitted) :
          /\ \A l \in 1..Len(wire') : emitted[k].sec < wire'[l].sec
          /\ emitted[k].sec < current'.sec
    BY <2>1, <2>3 DEF Ordered
  <2> QED BY <2>1, <2>2, <2>4 DEF Ordered
<1>5. CASE Rollover
  <2> DEFINE m == Len(emitted)
  <2>1. /\ Len(wire) > 0 /\ Len(wire') = Len(wire) - 1
        /\ \A k \in 1..Len(wire') : wire'[k] = wire[k + 1]
        /\ current' # NoBar /\ current'.sec = wire[1].sec
        /\ UNCHANGED <<now, tape, gaps, link>>
    BY <1>5, TakeFacts
  <2>2. /\ current \in Bar /\ current # NoBar /\ current.sec \in Int
        /\ current.sec < wire[1].sec /\ emitted' = Append(emitted, current)
    BY <1>5, RolloverFacts
  <2>3. m \in Nat /\ emitted \in Seq(Bar) BY Numbers
  <2>4. Len(emitted') = m + 1 /\ emitted'[m + 1] = current
        /\ \A k \in 1..m : emitted'[k] = emitted[k]
    BY <2>2, <2>3
  <2> HIDE DEF m
  <2>5. \A k \in 1..(m + 1) : k \in 1..m \/ k = m + 1 BY <2>3
  <2>6. 1 \in 1..Len(wire) /\ \A k \in 1..Len(wire') : k + 1 \in 1..Len(wire) BY <2>1, Numbers
  <2>7. \A k \in 1..m : emitted[k].sec < current.sec BY <2>2 DEF Ordered, m
  <2>8. \A k, l \in 1..(m + 1) : k < l => emitted'[k].sec < emitted'[l].sec
    <3> TAKE k, l \in 1..(m + 1)
    <3> HAVE k < l
    <3>1. k \in 1..m BY <2>3, <2>5
    <3>2. CASE l \in 1..m BY <3>1, <3>2, <2>4 DEF Ordered, m
    <3>3. CASE l = m + 1 BY <3>1, <3>3, <2>4, <2>7
    <3> QED BY <3>2, <3>3, <2>5
  <2>9. \A k \in 1..(m + 1) : emitted'[k].sec < wire[1].sec
    <3>1. wire[1].sec \in Int BY <2>6, Numbers
    <3>2. \A k \in 1..m : emitted'[k].sec < wire[1].sec BY <2>4, <2>6 DEF Ordered, m
    <3> QED BY <3>1, <3>2, <2>2, <2>4, <2>5
  <2>10. \A k \in 1..(m + 1) : emitted'[k].sec \in Int
    BY <2>2, <2>4, <2>5, Numbers DEF m
  <2>11. wire[1].sec <= now /\ \A l \in 1..Len(wire') : wire[1].sec <= wire'[l].sec
    <3>1. \A l \in 1..Len(wire') : 1 <= l + 1 BY <2>1, Numbers
    <3> QED BY <3>1, <2>1, <2>6, <1>0 DEF InOrder
  <2>12. wire[1].sec \in Int /\ now \in Int /\ \A l \in 1..Len(wire') : wire'[l].sec \in Int
    BY <2>1, <2>6, Numbers
  <2>13. \A k \in 1..(m + 1) :
           /\ emitted'[k].sec < now
           /\ \A l \in 1..Len(wire') : emitted'[k].sec < wire'[l].sec
           /\ emitted'[k].sec < current'.sec
    BY <2>1, <2>9, <2>10, <2>11, <2>12
  <2> QED BY <2>1, <2>4, <2>8, <2>13 DEF Ordered
<1>6. CASE Restart
  <2>1. wire' = <<>> /\ current' = NoBar /\ UNCHANGED <<now, tape, emitted>> BY <1>6 DEF Restart
  <2>2. Len(wire') = 0 BY <2>1
  <2> QED BY <2>1, <2>2 DEF Ordered
<1> QED BY StepKinds, <1>1, <1>2, <1>3, <1>4, <1>5, <1>6

-----------------------------------------------------------------------------
\* Closed bars.

At(trades, s) == {j \in DOMAIN trades : trades[j].sec = s}

LEMMA GapsGrow ==
  ASSUME ConstantsAssumption, IInv, [Next]_vars
  PROVE  gaps \subseteq gaps'
<1>1. CASE Idle BY <1>1, IdleFacts
<1>2. ASSUME NEW price \in Prices, Trades(price) PROVE gaps \subseteq gaps' BY <1>2 DEF Trades
<1>3. ASSUME NEW kept \in 0..MaxTrades, Breaks(kept) PROVE gaps \subseteq gaps' BY <1>3 DEF Breaks
<1>4. CASE FirstTrade \/ SameSecond \/ Rollover BY <1>4, TakeFacts
<1>5. CASE Restart BY <1>5 DEF Restart
<1> QED BY StepKinds, <1>1, <1>2, <1>3, <1>4, <1>5

LEMMA KlineSums ==
  BarsAreKlines <=>
    \A k \in DOMAIN emitted : Sums(emitted[k], tape, gaps, At(tape, emitted[k].sec))
BY DEF BarsAreKlines, Sums, OfSecond, At

\* When a trade of a later second is taken, all of the bar's own have been made.
LEMMA CurrentIsFull ==
  ASSUME ConstantsAssumption, IInv, Ordered, Accounted, Rollover
  PROVE  Sums(current, tape, gaps, At(tape, current.sec))
<1>1. PICK a \in 0..Len(tape) : Sent(a) /\ Covered(a) /\ Growing(a) BY DEF Accounted
<1> DEFINE s == current.sec
           early == {j \in 1..a : tape[j].sec = s}
<1>2. current # NoBar /\ s \in Int /\ s < wire[1].sec BY RolloverFacts
<1>3. Sums(current, tape, gaps, early) BY <1>1, <1>2 DEF Growing
<1>4. DOMAIN tape = 1..Len(tape) /\ Len(tape) \in Nat /\ Len(wire) \in Nat /\ a \in Nat
  BY Numbers
<1>5. early \subseteq At(tape, s) BY <1>4 DEF At
<1>6. ASSUME s \notin gaps PROVE At(tape, s) \subseteq early
  <2>1. ASSUME NEW j \in 1..Len(tape), ~(j <= a) PROVE tape[j].sec # s
    <3>1. CASE j >= a + Len(wire) + 1
      <4>1. j \in (a + Len(wire) + 1)..Len(tape) BY <2>1, <3>1, <1>4
      <4> QED BY <4>1, <1>1, <1>6 DEF Sent
    <3>2. CASE ~(j >= a + Len(wire) + 1)
      <4>1. j - a \in 1..Len(wire) /\ a + (j - a) = j BY <2>1, <3>2, <1>4
      <4>2. wire[j - a] = tape[j] BY <4>1, <1>1 DEF Sent
      <4>3. 1 \in 1..Len(wire) /\ 1 <= j - a BY <4>1, <1>4
      <4>4. wire[1].sec <= wire[j - a].sec BY <4>1, <4>3 DEF IInv, InOrder
      <4>5. wire[1].sec \in Int /\ wire[j - a].sec \in Int BY <4>1, <4>3, Numbers
      <4> QED BY <4>2, <4>4, <4>5, <1>2
    <3> QED BY <3>1, <3>2
  <2> QED BY <2>1, <1>4 DEF At
<1> HIDE DEF s, early
<1>7. s \notin gaps => early = At(tape, s) BY <1>5, <1>6
<1>8. Sums(current, tape, gaps, At(tape, s))
  <2>1. current.sec \notin gaps => early = At(tape, s) BY <1>7 DEF s
  <2>2. gaps \subseteq gaps /\ \A j \in early : tape[j] = tape[j] OBVIOUS
  <2> QED BY <2>1, <2>2, <1>3, <1>5, SumsKept
<1> QED BY <1>8 DEF s

LEMMA NextBarsAreKlines ==
  ASSUME ConstantsAssumption, IInv, Ordered, Accounted, BarsAreKlines, [Next]_vars
  PROVE  BarsAreKlines'
<1>1. \A k \in DOMAIN emitted : Sums(emitted[k], tape, gaps, At(tape, emitted[k].sec))
  BY KlineSums
<1>2. BarsAreKlines' <=>
        \A k \in DOMAIN emitted' : Sums(emitted'[k], tape', gaps', At(tape', emitted'[k].sec))
  BY DEF BarsAreKlines, Sums, OfSecond, At
<1>3. gaps \subseteq gaps' BY GapsGrow
<1>4. DOMAIN emitted = 1..Len(emitted) /\ DOMAIN tape = 1..Len(tape)
      /\ Len(tape) \in Nat /\ Len(emitted) \in Nat /\ now \in Int
  BY Numbers
<1>5. ASSUME NEW k \in DOMAIN emitted
      PROVE  Sums(emitted[k], tape', gaps', At(tape', emitted[k].sec))
  <2> DEFINE s == emitted[k].sec
  <2>1. s \in Int /\ s < now BY <1>4, <1>5, Numbers DEF Ordered
  <2>2. CASE tape' = tape BY <2>2, <1>1, <1>3, <1>5, SumsKept
  <2>3. ASSUME NEW price \in Prices, Trades(price)
        PROVE  Sums(emitted[k], tape', gaps', At(tape', s))
    <3>1. /\ \A j \in 1..Len(tape) : tape'[j] = tape[j]
          /\ tape'[Len(tape) + 1].sec = now
          /\ DOMAIN tape' = 1..(Len(tape) + 1)
      BY <2>3, TradeFacts
    <3>2. \A j \in 1..(Len(tape) + 1) : j \in 1..Len(tape) \/ j = Len(tape) + 1 BY <1>4
    <3>3. \A j \in 1..Len(tape) : j \in 1..(Len(tape) + 1) BY <1>4
    <3>4. tape'[Len(tape) + 1].sec # s BY <3>1, <2>1, <1>4
    <3> HIDE DEF s
    <3>5. At(tape', s) = At(tape, s) BY <3>1, <3>2, <3>3, <3>4, <1>4 DEF At
    <3>6. \A j \in At(tape, s) : tape'[j] = tape[j] BY <3>1, <1>4 DEF At
    <3>7. Sums(emitted[k], tape, gaps, At(tape, s)) BY <1>1, <1>5 DEF s
    <3> QED BY <3>5, <3>6, <3>7, <1>3, SumsKept
  <2>4. (\A price \in Prices : ~Trades(price)) => tape' = tape
    BY IdleFacts, LossFacts, TakeFacts, StepKinds DEF Restart
  <2> QED BY <2>2, <2>3, <2>4
<1>6. CASE Rollover
  <2>1. emitted' = Append(emitted, current) /\ current \in Bar BY <1>6, RolloverFacts
  <2>2. tape' = tape BY <1>6, TakeFacts
  <2>3. emitted \in Seq(Bar) BY Numbers
  <2>4. /\ DOMAIN emitted' = 1..(Len(emitted) + 1)
        /\ emitted'[Len(emitted) + 1] = current
        /\ \A k \in 1..Len(emitted) : emitted'[k] = emitted[k]
    <3>1. emitted' \in Seq(Bar) /\ Len(emitted') = Len(emitted) + 1 BY <2>1, <2>3
    <3>2. DOMAIN emitted' = 1..(Len(emitted) + 1) BY <3>1, LenProperties
    <3>3. emitted'[Len(emitted) + 1] = current BY <2>1, <2>3
    <3>4. \A k \in 1..Len(emitted) : emitted'[k] = emitted[k] BY <2>1, <2>3
    <3> QED BY <3>2, <3>3, <3>4
  <2>5. Sums(current, tape', gaps', At(tape', current.sec))
    <3>1. Sums(current, tape, gaps, At(tape, current.sec)) BY <1>6, CurrentIsFull
    <3>2. gaps' = gaps BY <1>6, TakeFacts
    <3> QED BY <3>1, <3>2, <2>2
  <2>6. \A k \in 1..(Len(emitted) + 1) : k \in 1..Len(emitted) \/ k = Len(emitted) + 1 BY <1>4
  <2>7. \A k \in DOMAIN emitted' : Sums(emitted'[k], tape', gaps', At(tape', emitted'[k].sec))
    BY <2>4, <2>5, <2>6, <1>4, <1>5
  <2> QED BY <2>7, <1>2
<1>7. CASE ~Rollover
  <2>1. emitted' = emitted
    <3>1. CASE Idle BY <3>1, IdleFacts
    <3>2. CASE ~Idle
      BY <3>2, <1>7, StepKinds DEF Trades, Breaks, FirstTrade, SameSecond, Restart
    <3> QED BY <3>1, <3>2
  <2> QED BY <2>1, <1>2, <1>5
<1> QED BY <1>6, <1>7

-----------------------------------------------------------------------------
\* The account of the trades.

\* Trades that are made, connections that break and the passing of time leave the taken
\* ones as they are; gaps excuse more of them.
LEMMA TakenKept ==
  ASSUME ConstantsAssumption, IInv, [Next]_vars, NEW a \in 0..Len(tape),
         Covered(a), Growing(a), UNCHANGED <<current, emitted>>,
         \A j \in 1..a : tape'[j] = tape[j]
  PROVE  Covered(a)' /\ Growing(a)'
<1>1. gaps \subseteq gaps' BY GapsGrow
<1>2. Covered(a)' BY <1>1 DEF Covered
<1>3. Growing(a)'
  <2>1. ASSUME current # NoBar
        PROVE  Sums(current, tape', gaps', {j \in 1..a : tape'[j].sec = current.sec})
    <3> DEFINE J == {j \in 1..a : tape[j].sec = current.sec}
    <3>1. Sums(current, tape, gaps, J) BY <2>1 DEF Growing
    <3>2. {j \in 1..a : tape'[j].sec = current.sec} = J OBVIOUS
    <3>3. \A j \in J : tape'[j] = tape[j] OBVIOUS
    <3> HIDE DEF J
    <3>4. J \subseteq J /\ (current.sec \notin gaps' => J = J) OBVIOUS
    <3>5. Sums(current, tape', gaps', J) BY <1>1, <3>1, <3>3, <3>4, SumsKept
    <3> QED BY <3>2, <3>5
  <2> QED BY <2>1 DEF Growing
<1> QED BY <1>2, <1>3

\* From here on nothing is on its way: all trades are taken or excused.
LEMMA AllTaken ==
  ASSUME ConstantsAssumption, IInv, NEW a \in 0..Len(tape), Sent(a), Covered(a), Growing(a),
         wire = <<>>
  PROVE  Covered(Len(tape)) /\ Growing(Len(tape))
<1> DEFINE m == Len(tape)
<1>1. m \in Nat /\ a \in Nat /\ Len(wire) = 0 BY Numbers
<1> HIDE DEF m
<1>2. \A j \in 1..m : j \in 1..a \/ j \in (a + 0 + 1)..m BY <1>1
<1>3. \A j \in (a + 0 + 1)..m : tape[j].sec \in gaps BY <1>1 DEF Sent, m
<1>4. Covered(m) BY <1>2, <1>3 DEF Covered
<1>5. Growing(m)
  <2>1. ASSUME current # NoBar
        PROVE  Sums(current, tape, gaps, {j \in 1..m : tape[j].sec = current.sec})
    <3> DEFINE J == {j \in 1..a : tape[j].sec = current.sec}
               K == {j \in 1..m : tape[j].sec = current.sec}
    <3>1. Sums(current, tape, gaps, J) BY <2>1 DEF Growing
    <3>2. J \subseteq K BY <1>1 DEF m
    <3>3. current.sec \notin gaps => J = K BY <1>2, <1>3, <3>2
    <3> HIDE DEF J, K
    <3>4. Sums(current, tape, gaps, K) BY <3>1, <3>2, <3>3, SumsKept
    <3> QED BY <3>4 DEF K
  <2> QED BY <2>1 DEF Growing
<1> QED BY <1>4, <1>5 DEF m

\* The trade that is taken makes or grows the bar.
LEMMA TakenGrows ==
  ASSUME ConstantsAssumption, IInv, Ordered, NEW a \in 0..Len(tape), Sent(a), Covered(a), Growing(a),
         FirstTrade \/ SameSecond \/ Rollover
  PROVE  /\ a + 1 \in 0..Len(tape)
         /\ Sent(a + 1)' /\ Covered(a + 1)' /\ Growing(a + 1)'
<1>1. /\ Len(wire) \in Nat /\ Len(wire) > 0
      /\ Head(wire) = wire[1] /\ wire[1] \in Trade /\ wire[1].sec \in Int
      /\ Len(wire') = Len(wire) - 1
      /\ \A k \in 1..Len(wire') : wire'[k] = wire[k + 1]
      /\ current' # NoBar /\ current'.sec = wire[1].sec
      /\ UNCHANGED <<now, tape, gaps, link>>
  BY TakeFacts
<1>2. Len(tape) \in Nat /\ a \in Nat /\ tape \in Seq(Trade) BY Numbers
<1>3. a + Len(wire) <= Len(tape) BY DEF Sent
<1> DEFINE p == a + 1
           s == wire[1].sec
<1>4. p \in 0..Len(tape) /\ p \in 1..Len(tape) BY <1>1, <1>2, <1>3
<1>5. tape[p] = wire[1]
  <2>1. 1 \in 1..Len(wire) BY <1>1
  <2> QED BY <2>1 DEF Sent
<1>6. Sent(p)'
  <2>1. \A k \in 1..Len(wire') : wire'[k] = tape[p + k]
    <3> TAKE k \in 1..Len(wire')
    <3>1. k + 1 \in 1..Len(wire) /\ p + k = a + (k + 1) BY <1>1, <1>2
    <3> QED BY <3>1, <1>1 DEF Sent
  <2>2. p + Len(wire') = a + Len(wire) BY <1>1, <1>2
  <2>3. link # "waiting" BY DEF FirstTrade, SameSecond, Rollover, Take
  <2> HIDE DEF p
  <2> QED BY <2>1, <2>2, <2>3, <1>1 DEF Sent
<1>7. \A j \in 1..p : j \in 1..a \/ j = p BY <1>2
<1>8. CASE SameSecond
  <2>1. current.sec = s /\ current' = UpdateBar(current, tape[p]) /\ emitted' = emitted
    BY <1>1, <1>5, <1>8 DEF SameSecond
  <2>2. current # NoBar
    <3>1. NoBar.sec = -1 BY DEF NoBar
    <3>2. s # -1 BY <1>1 DEF Trade, ConstantsAssumption
    <3> QED BY <3>1, <3>2, <2>1
  <2>3. current \in Bar BY <2>2, Numbers
  <2> DEFINE J == {j \in 1..a : tape[j].sec = s}
  <2>4. Sums(current, tape, gaps, J) BY <2>1, <2>2 DEF Growing
  <2>5. J \in SUBSET (1..(p - 1)) BY <1>2
  <2>6. {j \in 1..p : tape[j].sec = s} = J \union {p}
    <3>1. \A j \in 1..a : j \in 1..p BY <1>2
    <3>2. p \in 1..p BY <1>2
    <3> QED BY <3>1, <3>2, <1>5, <1>7
  <2> HIDE DEF J
  <2>7. tape[p].sec = current.sec BY <1>5, <2>1
  <2>8. Sums(UpdateBar(current, tape[p]), tape, gaps, J \union {p})
    BY <1>2, <1>4, <2>3, <2>4, <2>5, <2>7, SumsGrows
  <2> HIDE DEF p
  <2>9. Growing(p)' BY <1>1, <2>1, <2>6, <2>8 DEF Growing
  <2>10. Covered(p)' BY <1>1, <1>5, <1>7, <2>1 DEF Covered
  <2> QED BY <1>4, <1>6, <2>9, <2>10 DEF p
<1>9. CASE FirstTrade \/ Rollover
  <2>1. current' = InitBar(tape[p]) BY <1>1, <1>5, <1>9 DEF FirstTrade, Rollover
  <2>2. current # NoBar => current.sec # s
    BY <1>1, <1>9 DEF FirstTrade, Rollover
  <2>3. ASSUME s \notin gaps, NEW j \in 1..a PROVE tape[j].sec # s
    <3>1. 1 \in 1..Len(wire) BY <1>1
    <3>2. \A k \in 1..Len(emitted) : emitted[k].sec < s /\ emitted[k].sec \in Int
      BY <3>1, Numbers DEF Ordered
    <3>3. \A k \in 1..Len(emitted) : emitted[k].sec # s BY <3>2, <1>1
    <3> QED BY <2>2, <2>3, <3>3 DEF Covered
  <2> DEFINE K == {j \in 1..p : tape[j].sec = s}
  <2>4. Sums(InitBar(tape[p]), tape, gaps, {p}) BY <1>2, <1>4, SumsStarts
  <2>5. {p} \subseteq K
    <3>1. p \in 1..p BY <1>2
    <3> QED BY <3>1, <1>5
  <2>6. s \notin gaps => {p} = K BY <2>3, <2>5, <1>7
  <2>7. InitBar(tape[p]).sec = s BY <1>5 DEF InitBar
  <2> HIDE DEF K
  <2>8. Sums(InitBar(tape[p]), tape, gaps, K) BY <2>4, <2>5, <2>6, <2>7, SumsKept
  <2>9. Growing(p)' BY <2>1, <2>8, <1>1 DEF Growing, K
  <2>10. Covered(p)'
    <3>1. CASE FirstTrade
      <4>1. emitted' = emitted /\ current = NoBar BY <3>1 DEF FirstTrade
      <4> HIDE DEF p
      <4> QED BY <4>1, <1>1, <1>5, <1>7 DEF Covered
    <3>2. CASE Rollover
      <4>1. emitted' = Append(emitted, current) /\ current \in Bar BY <3>2, RolloverFacts
      <4>2. emitted \in Seq(Bar) /\ Len(emitted) \in Nat BY Numbers
      <4>3. /\ Len(emitted') = Len(emitted) + 1
            /\ emitted'[Len(emitted) + 1] = current
            /\ \A k \in 1..Len(emitted) : emitted'[k] = emitted[k]
        BY <4>1, <4>2
      <4>4. Len(emitted) + 1 \in 1..Len(emitted')
            /\ \A k \in 1..Len(emitted) : k \in 1..Len(emitted')
        BY <4>2, <4>3
      <4> HIDE DEF p
      <4>5. ASSUME NEW j \in 1..a
            PROVE  tape[j].sec \in gaps \/ \E k \in 1..Len(emitted') : emitted'[k].sec = tape[j].sec
        BY <4>3, <4>4, <4>5 DEF Covered
      <4> QED BY <4>5, <1>1, <1>5, <1>7 DEF Covered
    <3> QED BY <1>9, <3>1, <3>2
  <2> QED BY <1>4, <1>6, <2>9, <2>10
<1> QED BY <1>8, <1>9

LEMMA InitInvariant == ASSUME ConstantsAssumption PROVE Init => Invariant
<1> SUFFICES ASSUME Init PROVE Invariant OBVIOUS
<1>1. IInv BY InitIInv
<1>2. tape = <<>> /\ wire = <<>> /\ emitted = <<>> /\ current = NoBar /\ gaps = {}
      /\ link = "waiting"
  BY DEF Init
<1>3. Len(tape) = 0 /\ Len(wire) = 0 /\ Len(emitted) = 0 BY <1>2
<1>4. Ordered BY <1>3 DEF Ordered
<1>5. BarsAreKlines
  <2>1. DOMAIN emitted = {} BY <1>2
  <2> QED BY <2>1 DEF BarsAreKlines
<1>6. Sent(0) /\ Covered(0) /\ Growing(0)
  BY <1>2, <1>3 DEF Sent, Covered, Growing
<1>7. 0 \in 0..Len(tape) BY <1>3
<1> QED BY <1>1, <1>4, <1>5, <1>6, <1>7 DEF Invariant, Accounted

LEMMA NextAccounted ==
  ASSUME ConstantsAssumption, IInv, Ordered, Accounted, [Next]_vars
  PROVE  Accounted'
<1>1. PICK a \in 0..Len(tape) : Sent(a) /\ Covered(a) /\ Growing(a) BY DEF Accounted
<1>2. Len(tape) \in Nat /\ Len(wire) \in Nat /\ a \in Nat BY Numbers
<1>3. CASE Idle /\ ~Connect
  <2>1. UNCHANGED <<tape, gaps, wire, current, emitted>> BY <1>3, IdleFacts
  <2>2. Covered(a)' /\ Growing(a)' BY <1>1, <2>1, TakenKept
  <2>3. (link' = "up" => link = "up") /\ (link' = "waiting" => wire = <<>>)
    BY <1>1, <1>3 DEF Sent, Idle, vars, stream, Tick, ClosedCleanly, Disconnected, OtherException,
       BackOff, ConnectFails
  <2>4. Sent(a)' BY <1>1, <2>1, <2>3 DEF Sent
  <2> QED BY <2>1, <2>2, <2>4 DEF Accounted
<1>4. CASE Connect
  <2>1. UNCHANGED <<tape, gaps, wire, current, emitted>> BY <1>4, IdleFacts DEF Idle
  <2>2. wire = <<>> /\ link' = "up" BY <1>1, <1>4 DEF Sent, Connect
  <2>3. PICK m \in 0..Len(tape) : m = Len(tape) BY <1>2
  <2>4. Covered(m) /\ Growing(m) BY <1>1, <2>2, <2>3, AllTaken
  <2>5. Covered(m)' /\ Growing(m)' BY <2>1, <2>4, TakenKept
  <2>6. Sent(m)'
    <3>1. Len(wire') = 0 BY <2>1, <2>2
    <3>2. m + 0 = m /\ \A j \in (m + 0 + 1)..m : FALSE BY <2>3, <1>2
    <3> QED BY <2>1, <2>2, <2>3, <3>1, <3>2 DEF Sent
  <2> QED BY <2>1, <2>5, <2>6 DEF Accounted
<1>5. ASSUME NEW price \in Prices, Trades(price) PROVE Accounted'
  <2>1. /\ Len(tape') = Len(tape) + 1
        /\ \A j \in 1..Len(tape) : tape'[j] = tape[j]
        /\ tape'[Len(tape) + 1].sec = now
        /\ UNCHANGED <<now, link, current, emitted>>
    BY <1>5, TradeFacts
  <2>2. \A j \in 1..a : tape'[j] = tape[j] BY <2>1, <1>2
  <2>3. Covered(a)' /\ Growing(a)' BY <1>1, <2>1, <2>2, TakenKept
  <2>4. CASE /\ link = "up" /\ gaps' = gaps
             /\ Len(wire') = Len(wire) + 1
             /\ \A k \in 1..Len(wire) : wire'[k] = wire[k]
             /\ wire'[Len(wire) + 1] = tape'[Len(tape) + 1]
    <3>1. a + Len(wire) = Len(tape) BY <1>1, <2>4 DEF Sent
    <3>2. a + Len(wire') = Len(tape') BY <3>1, <2>1, <2>4, <1>2
    <3>3. \A k \in 1..Len(wire') : wire'[k] = tape'[a + k]
      <4> TAKE k \in 1..Len(wire')
      <4>1. CASE k \in 1..Len(wire)
        <5>1. a + k \in 1..Len(tape) BY <4>1, <3>1, <1>2
        <5> QED BY <4>1, <5>1, <1>1, <2>1, <2>4 DEF Sent
      <4>2. CASE ~(k \in 1..Len(wire))
        <5>1. k = Len(wire) + 1 BY <4>2, <2>4, <1>2
        <5>2. a + k = Len(tape) + 1 BY <5>1, <3>1, <1>2
        <5> QED BY <5>1, <5>2, <2>4
      <4> QED BY <4>1, <4>2
    <3>4. Sent(a)'
      <4>1. Len(tape') \in Nat /\ Len(wire') \in Nat BY <2>1, <2>4, <1>2
      <4>2. \A j \in (a + Len(wire') + 1)..Len(tape') : FALSE BY <3>2, <4>1, <1>2
      <4> QED BY <2>1, <2>4, <3>2, <3>3, <4>1, <4>2 DEF Sent
    <3> QED BY <2>1, <2>3, <3>4, <1>2 DEF Accounted
  <2>5. CASE link # "up" /\ wire' = wire /\ gaps' = gaps \union {now}
    <3>1. a + Len(wire) <= Len(tape) + 1 BY <1>1, <1>2 DEF Sent
    <3>2. \A k \in 1..Len(wire) : wire[k] = tape'[a + k]
      <4> TAKE k \in 1..Len(wire)
      <4>1. a + k \in 1..Len(tape) BY <1>1, <1>2 DEF Sent
      <4> QED BY <4>1, <1>1, <2>1 DEF Sent
    <3>3. \A j \in (a + Len(wire) + 1)..(Len(tape) + 1) : tape'[j].sec \in gaps'
      <4> TAKE j \in (a + Len(wire) + 1)..(Len(tape) + 1)
      <4>1. CASE j = Len(tape) + 1 BY <4>1, <2>1, <2>5
      <4>2. CASE j # Len(tape) + 1
        <5>1. j \in (a + Len(wire) + 1)..Len(tape) /\ j \in 1..Len(tape) BY <4>2, <1>2
        <5> QED BY <5>1, <2>1, <2>5, <1>1 DEF Sent
      <4> QED BY <4>1, <4>2
    <3>4. Sent(a)' BY <3>1, <3>2, <3>3, <2>1, <2>5, <1>1 DEF Sent
    <3> QED BY <2>1, <2>3, <3>4, <1>2 DEF Accounted
  <2> QED BY <1>5, <2>4, <2>5, SendFacts
<1>6. ASSUME NEW kept \in 0..MaxTrades, Breaks(kept) PROVE Accounted'
  <2>1. /\ kept \in Nat /\ kept <= Len(wire) /\ Len(wire') = kept
        /\ \A k \in 1..kept : wire'[k] = wire[k]
        /\ gaps' = gaps \union {wire[k].sec : k \in (kept + 1)..Len(wire)}
        /\ link = "up" /\ link' = "closed"
        /\ UNCHANGED <<now, tape, current, emitted>>
    BY <1>6, LossFacts
  <2>2. Covered(a)' /\ Growing(a)' BY <1>1, <2>1, TakenKept
  <2>3. a + Len(wire) = Len(tape) BY <1>1, <2>1 DEF Sent
  <2>4. a + kept <= Len(tape) BY <2>1, <2>3, <1>2
  <2>5. \A k \in 1..kept : wire'[k] = tape[a + k]
    <3>1. \A k \in 1..kept : k \in 1..Len(wire) BY <2>1, <1>2
    <3> QED BY <3>1, <2>1, <1>1 DEF Sent
  <2>6. \A j \in (a + kept + 1)..Len(tape) : tape[j].sec \in gaps'
    <3> TAKE j \in (a + kept + 1)..Len(tape)
    <3>1. j - a \in (kept + 1)..Len(wire) /\ j - a \in 1..Len(wire) /\ a + (j - a) = j
      BY <2>1, <2>3, <1>2
    <3>2. wire[j - a] = tape[j] BY <3>1, <1>1 DEF Sent
    <3> QED BY <3>1, <3>2, <2>1
  <2>7. Sent(a)' BY <2>1, <2>4, <2>5, <2>6 DEF Sent
  <2> QED BY <2>1, <2>2, <2>7 DEF Accounted
<1>7. CASE FirstTrade \/ SameSecond \/ Rollover
  <2>1. /\ a + 1 \in 0..Len(tape)
        /\ Sent(a + 1)' /\ Covered(a + 1)' /\ Growing(a + 1)'
    BY <1>1, <1>7, TakenGrows
  <2>2. tape' = tape BY <1>7, TakeFacts
  <2> QED BY <2>1, <2>2 DEF Accounted
<1>8. CASE Restart
  <2>0. PICK m \in 0..Len(tape) : m = Len(tape) BY <1>2
  <2>1. /\ UNCHANGED <<tape, emitted>> /\ wire' = <<>> /\ current' = NoBar /\ link' = "waiting"
        /\ gaps' = gaps \union {wire[k].sec : k \in DOMAIN wire}
                        \union (IF current = NoBar THEN {} ELSE {current.sec})
    BY <1>8 DEF Restart
  <2>2. DOMAIN wire = 1..Len(wire)
    <3>1. wire \in Seq(Trade) BY Numbers
    <3> QED BY <3>1, LenProperties
  <2>3. \A j \in 1..m : tape[j].sec \in gaps' \/ \E k \in 1..Len(emitted) : emitted[k].sec = tape[j].sec
    <3> TAKE j \in 1..m
    <3>1. CASE j \in 1..a BY <3>1, <2>1, <1>1 DEF Covered
    <3>2. CASE j \in (a + Len(wire) + 1)..m BY <3>2, <2>0, <2>1, <1>1 DEF Sent
    <3>3. CASE ~(j \in 1..a) /\ ~(j \in (a + Len(wire) + 1)..m)
      <4>1. j - a \in 1..Len(wire) /\ a + (j - a) = j BY <3>3, <2>0, <1>2
      <4>2. wire[j - a] = tape[j] BY <4>1, <1>1 DEF Sent
      <4> QED BY <4>1, <4>2, <2>1, <2>2
    <3> QED BY <3>1, <3>2, <3>3
  <2>4. Covered(m)' /\ Growing(m)' BY <2>1, <2>3 DEF Covered, Growing
  <2>5. Sent(m)'
    <3>1. Len(wire') = 0 BY <2>1
    <3>2. m + 0 = m /\ \A j \in (m + 0 + 1)..m : FALSE BY <2>0, <1>2
    <3> QED BY <2>0, <2>1, <3>1, <3>2 DEF Sent
  <2> QED BY <2>0, <2>1, <2>4, <2>5 DEF Accounted
<1> QED BY StepKinds, <1>3, <1>4, <1>5, <1>6, <1>7, <1>8

LEMMA NextInvariant == ASSUME ConstantsAssumption, Invariant, [Next]_vars PROVE Invariant'
BY NextIInv, NextOrdered, NextBarsAreKlines, NextAccounted DEF Invariant

\* Every closed bar is the candle of all trades of its second, or, when one of them was
\* lost, of some of them, for any prices, connections and restarts.
THEOREM Klines == ASSUME ConstantsAssumption PROVE Spec => []BarsAreKlines
<1>1. Invariant => BarsAreKlines BY DEF Invariant
<1> QED BY InitInvariant, NextInvariant, <1>1, PTL DEF Spec

LEMMA InvariantNoneMissed ==
  ASSUME ConstantsAssumption, Invariant
  PROVE  NoSecondMissed
<1>0. IInv /\ Ordered /\ InOrder BY DEF Invariant, IInv
<1>1. PICK a \in 0..Len(tape) : Sent(a) /\ Covered(a) BY DEF Invariant, Accounted
<1>2. /\ Len(tape) \in Nat /\ Len(wire) \in Nat /\ Len(emitted) \in Nat /\ a \in Nat
      /\ DOMAIN tape = 1..Len(tape) /\ DOMAIN emitted = 1..Len(emitted)
  BY <1>0, Numbers
<1>3. ASSUME NEW j \in 1..Len(tape), current # NoBar,
             tape[j].sec < current.sec, tape[j].sec \notin gaps
      PROVE  \E k \in 1..Len(emitted) : emitted[k].sec = tape[j].sec
  <2>1. tape[j].sec \in Int /\ current.sec \in Int BY <1>0, <1>3, Numbers
  <2>2. ~(j \in (a + Len(wire) + 1)..Len(tape)) BY <1>1, <1>3 DEF Sent
  <2>3. CASE j \in 1..a BY <2>1, <2>3, <1>1, <1>3 DEF Covered
  <2>4. CASE ~(j \in 1..a)
    <3>1. j - a \in 1..Len(wire) /\ a + (j - a) = j BY <2>2, <2>4, <1>2
    <3>2. wire[j - a] = tape[j] BY <3>1, <1>1 DEF Sent
    <3>3. current.sec <= wire[j - a].sec BY <3>1, <1>0, <1>3 DEF InOrder
    <3> QED BY <2>1, <3>2, <3>3, <1>3
  <2> QED BY <2>3, <2>4
<1>4. \A k, l \in 1..Len(emitted) : emitted[k].sec = emitted[l].sec => l = k
  <2> TAKE k, l \in 1..Len(emitted)
  <2>1. k < l => emitted[k].sec < emitted[l].sec BY <1>0 DEF Ordered
  <2>2. l < k => emitted[l].sec < emitted[k].sec BY <1>0 DEF Ordered
  <2>3. emitted[k].sec \in Int /\ emitted[l].sec \in Int BY <1>0, Numbers
  <2> QED BY <2>1, <2>2, <2>3, <1>2
<1> SUFFICES ASSUME current # NoBar, NEW j \in DOMAIN tape,
                    tape[j].sec < current.sec /\ tape[j].sec \notin gaps
             PROVE  \E k \in DOMAIN emitted :
                      \A l \in DOMAIN emitted : emitted[l].sec = tape[j].sec <=> l = k
  BY DEF NoSecondMissed
<1>5. PICK k \in 1..Len(emitted) : emitted[k].sec = tape[j].sec BY <1>2, <1>3
<1>6. \A l \in DOMAIN emitted : emitted[l].sec = tape[j].sec <=> l = k BY <1>2, <1>4, <1>5
<1> QED BY <1>2, <1>6

\* Every second before the current bar of which no trade was lost has exactly one bar.
THEOREM NoneMissed == ASSUME ConstantsAssumption PROVE Spec => []NoSecondMissed
BY InitInvariant, NextInvariant, InvariantNoneMissed, PTL DEF Spec
=============================================================================
