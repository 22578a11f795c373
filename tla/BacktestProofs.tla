--------------------------- MODULE BacktestProofs ---------------------------
(***************************************************************************)
(* Proofs about Backtest.  Quantities that a bar moves from one list to    *)
(* another are counted: what a zone has of inverse trades, and what there  *)
(* is of one entry, is the same before and after each part of the loop's   *)
(* body.                                                                   *)
(***************************************************************************)
EXTENDS Backtest, SelectionProofs, WellFoundedInduction

\* The elements of the lists after bar i, T being the zones still to come.
Watching(T, i) == {x \in Sniper : x.zone \notin T /\ x.at <= i}
Pending(T, i)  == {x \in Layer : x.zone \notin T /\ x.at <= i}
Ordered(i)     == {x \in Order : x.at = i}
Waits(i, late) == {x \in Order : x.at <= i /\ (~late => x.at = i)}
OnTime(x)      == IF x.by = "ladder" THEN x.bar > x.at ELSE x.bar = x.at
Running(i)     == {x \in Trade : x.bar <= i /\ OnTime(x)}
Bounded(x) ==
  LET gain == x.dir * (x.exit - x.entry)
  IN x.reason # "eod" => gain >= -x.stop /\ (x.reason = "tp" => gain = x.target)
Done == {x \in ClosedTrade : OnTime(x) /\ Bounded(x)}

Typed ==
  /\ bar \in 0..MaxBars /\ price \in Int /\ skipped \in BOOLEAN /\ ended \in BOOLEAN
  /\ renko \in [dir : {-1, 0, 1}, close : Int, streak : 0..(MinBricks + 1)]
  /\ todo \subseteq Zones
  /\ snipers \in Seq(Watching(todo, bar))
  /\ layers \in Seq(Pending(todo, bar))
  /\ inverse \in Seq(Waits(bar + 1, skipped))
  /\ trades \in Seq(Running(bar))
  /\ closed \in Seq(Done)
  /\ used \in [Zones -> 0..MaxPer]
  /\ fate \in [submitted : Nat, triggered : Nat, cancelled : Nat, expired : Nat]

\* What a zone has in a list: its entries of a kind, and its snipers.
Entries(z, by) == {x \in Order \cup Trade \cup ClosedTrade : x.zone = z /\ x.by = by}
Snipers(z) == {x \in Sniper : x.zone = z}

\* A zone has one sniper or what came of it, and its inverse trades are counted.
Counted ==
  \A z \in Zones :
    /\ Count(snipers, Snipers(z)) + Made(z, "sniper") <= (IF z \in todo THEN 0 ELSE 1)
    /\ Made(z, "inv") = used[z]

\* An entry: what a layer or an order has in common with the trade it becomes.
Entry(c) ==
  {x \in Layer \cup Order \cup Trade : x.by = c.by /\ x.layer = c.layer /\ x.zone = c.zone /\ x.at = c.at}
Keys == [by : {"ladder", "sniper", "inv"}, layer : 0..NumLayers, zone : Zones, at : 1..(MaxBars + 1)]

\* No entry is in two places.
Distinct ==
  \A c \in Keys : Count(layers, Entry(c)) + Count(inverse, Entry(c)) + Count(trades, Entry(c)) <= 1

Invariant == Typed /\ SnipersSettle /\ Counted /\ Distinct

-----------------------------------------------------------------------------
\* Arithmetic facts.
LEMMA NatProduct == \A x, y \in Nat : x * y \in Nat
OBVIOUS

LEMMA ZoneType ==
  ASSUME ConstantsAssumption, NEW z \in Zones
  PROVE  /\ z.low \in Int /\ z.high \in Int /\ z.dir \in {1, -1} /\ z.inverted \in BOOLEAN
         /\ Width(z) \in Nat
         /\ SignalDir(z) \in {1, -1}
<1>1. z \in Zone /\ z.low < z.high BY DEF ConstantsAssumption
<1>2. z.low \in Int /\ z.high \in Int /\ z.dir \in {1, -1} /\ z.inverted \in BOOLEAN BY <1>1 DEF Zone
<1> QED BY <1>1, <1>2 DEF Width, SignalDir

LEMMA ArrivalsType ==
  ASSUME NEW signals \in Arrivals
  PROVE  /\ signals \in Seq(todo)
         /\ \A j, k \in DOMAIN signals : signals[j] = signals[k] => j = k
<1>1. CASE signals = <<>> BY <1>1
<1>2. ASSUME NEW z \in todo, signals = <<z>> PROVE signals \in Seq(todo) /\ DOMAIN signals = {1}
  BY <1>2
<1>3. ASSUME signals \in todo \X todo, signals[1] # signals[2]
      PROVE  signals \in Seq(todo) /\ DOMAIN signals = {1, 2}
  <2>1. PICK x \in todo, y \in todo : signals = <<x, y>> BY <1>3
  <2> QED BY <2>1
<1> QED BY <1>1, <1>2, <1>3 DEF Arrivals

\* The zones that a bar's signals leave to come.
Left(signals) == todo \ {signals[k] : k \in DOMAIN signals}

LEMMA InterceptedType ==
  ASSUME ConstantsAssumption, NEW signals \in Seq(Zones), NEW i \in 1..MaxBars, NEW T,
         \A k \in DOMAIN signals : signals[k] \notin T
  PROVE  /\ Intercepted(signals, i) \in Seq(Watching(T, i))
         /\ Len(Intercepted(signals, i)) <= 1
         /\ \A k \in DOMAIN Intercepted(signals, i) :
              \E j \in DOMAIN signals : Intercepted(signals, i)[k].zone = signals[j]
<1>1. CASE signals = <<>> \/ ~SniperMode
  <2>1. Intercepted(signals, i) = <<>> BY <1>1 DEF Intercepted
  <2> QED BY <2>1, EmptySeq
<1>2. CASE signals # <<>> /\ SniperMode
  <2> DEFINE z == signals[1]
             x == [zone |-> z, dir |-> SignalDir(z), at |-> i]
  <2>1. Len(signals) \in Nat \ {0} /\ DOMAIN signals = 1..Len(signals) /\ Head(signals) = z
    BY <1>2, EmptySeq, LenProperties
  <2>2. 1 \in DOMAIN signals /\ z \in Zones /\ z \notin T BY <2>1, ElementOfSeq
  <2>3. Intercepted(signals, i) = <<x>> BY <1>2, <2>1 DEF Intercepted
  <2>4. SignalDir(z) \in {1, -1} BY <2>2, ZoneType
  <2>5. x \in Watching(T, i) /\ x.zone = z BY <2>2, <2>4 DEF Watching, Sniper
  <2> HIDE DEF z, x
  <2>6. DOMAIN <<x>> = {1} /\ <<x>>[1] = x /\ <<x>> \in Seq(Watching(T, i)) /\ Len(<<x>>) = 1
    BY <2>5
  <2> QED BY <2>2, <2>3, <2>5, <2>6 DEF z
<1> QED BY <1>1, <1>2

\* A ladder: one layer for each number, all of one zone that is not to come any more.
OneOfEach(s, i) == \A k, l \in DOMAIN s : s[k].at = i /\ (s[k].layer = s[l].layer => k = l)

LEMMA LadderType ==
  ASSUME ConstantsAssumption, NEW signals \in Seq(Zones), NEW i \in 1..MaxBars, NEW T,
         \A k \in DOMAIN signals : signals[k] \notin T,
         NEW sizes \in [1..NumLayers -> Sizes]
  PROVE  /\ Ladder(signals, sizes, i) \in Seq(Pending(T, i))
         /\ OneOfEach(Ladder(signals, sizes, i), i)
<1> DEFINE rest == Offered(signals)
           z == Head(rest)
           dir == SignalDir(z)
           L == [k \in 1..NumLayers |->
             [by |-> "ladder", layer |-> k, zone |-> z, dir |-> dir, at |-> i,
              price |-> LadderPrice(z, dir, k), stop |-> sizes[k].stop, target |-> sizes[k].target]]
<1>1. CASE Ladder(signals, sizes, i) = <<>> BY <1>1, EmptySeq DEF OneOfEach
<1>2. CASE rest # <<>> /\ Ladder(signals, sizes, i) = L
  <2>1. rest \in Seq(Zones) /\ \A k \in DOMAIN rest : rest[k] \notin T
    <3>1. CASE SniperMode /\ signals # <<>>
      <4>1. /\ Tail(signals) \in Seq(Zones) /\ Len(Tail(signals)) = Len(signals) - 1
            /\ \A k \in 1..Len(Tail(signals)) : Tail(signals)[k] = signals[k + 1]
        BY <3>1, HeadTailProperties
      <4>2. /\ Len(signals) \in Nat /\ DOMAIN signals = 1..Len(signals)
            /\ DOMAIN Tail(signals) = 1..Len(Tail(signals))
        BY <4>1, LenProperties
      <4>3. ASSUME NEW k \in DOMAIN Tail(signals) PROVE Tail(signals)[k] \notin T
        <5>1. k + 1 \in DOMAIN signals /\ Tail(signals)[k] = signals[k + 1] BY <4>1, <4>2
        <5> QED BY <5>1
      <4> QED BY <3>1, <4>1, <4>3 DEF Offered
    <3> QED BY <3>1 DEF Offered
  <2>2. z \in Zones /\ z \notin T
    <3> HIDE DEF rest
    <3>1. Len(rest) \in Nat \ {0} /\ DOMAIN rest = 1..Len(rest) /\ Head(rest) = rest[1]
      BY <1>2, <2>1, EmptySeq, LenProperties
    <3>2. 1 \in DOMAIN rest /\ rest[1] \in Zones BY <2>1, <3>1, ElementOfSeq
    <3> QED BY <2>1, <3>1, <3>2
  <2> HIDE DEF rest
  <2>3. z.low \in Int /\ z.high \in Int /\ dir \in {1, -1} BY <2>2, ZoneType
  <2> HIDE DEF z, dir
  <2>4. NumLayers \in Nat \ {0, 1} /\ Sizes \subseteq [stop : Nat, target : Nat]
    BY DEF ConstantsAssumption
  <2>5. ASSUME NEW k \in 1..NumLayers PROVE L[k] \in Pending(T, i)
    <3>1. sizes[k].stop \in Nat /\ sizes[k].target \in Nat BY <2>4
    <3>2. LadderPrice(z, dir, k) \in Int
      <4>1. (z.high - z.low) \div (NumLayers - 1) \in Int BY <2>3, <2>4
      <4>2. (k - 1) * ((z.high - z.low) \div (NumLayers - 1)) \in Int BY <4>1
      <4> QED BY <2>3, <4>2 DEF LadderPrice
    <3> QED BY <2>2, <2>3, <3>1, <3>2 DEF Pending, Layer
  <2>6. L \in Seq(Pending(T, i)) /\ DOMAIN L = 1..NumLayers
    <3>1. L \in [1..NumLayers -> Pending(T, i)] BY <2>5
    <3> QED BY <2>4, <3>1
  <2>7. \A k \in 1..NumLayers : L[k].at = i /\ L[k].layer = k OBVIOUS
  <2>8. OneOfEach(L, i)
    <3> HIDE DEF L
    <3> QED BY <2>6, <2>7 DEF OneOfEach
  <2> QED BY <1>2, <2>6, <2>8
<1>3. (rest # <<>> /\ Ladder(signals, sizes, i) = L) \/ Ladder(signals, sizes, i) = <<>>
  BY DEF Ladder, TakesLadder
<1> QED BY <1>1, <1>2, <1>3

-----------------------------------------------------------------------------
\* The walk over the snipers: each has one verdict.
LEMMA VerdictCases ==
  ASSUME NEW sp, NEW i, NEW calm
  PROVE  Verdict(sp, i, calm) \in {"expired", "waits", "cancelled", "fires"}
BY DEF Verdict

LEMMA WithParts ==
  ASSUME NEW S, NEW watched \in Seq(S), NEW i, NEW calm
  PROVE  LET n(v) == Cardinality(With(watched, v, i, calm))
         IN /\ n("waits") \in Nat /\ n("fires") \in Nat /\ n("cancelled") \in Nat /\ n("expired") \in Nat
            /\ Len(watched) = n("waits") + n("fires") + n("cancelled") + n("expired")
<1> DEFINE D == DOMAIN watched
           W == With(watched, "waits", i, calm)
           F == With(watched, "fires", i, calm)
           C == With(watched, "cancelled", i, calm)
           X == With(watched, "expired", i, calm)
<1>1. IsFiniteSet(D) /\ Len(watched) = Cardinality(D)
  <2>1. Len(watched) \in Nat /\ DOMAIN watched = 1..Len(watched) BY LenProperties
  <2> QED BY <2>1, FS_Interval
<1>2. D = (W \cup F) \cup (C \cup X) BY VerdictCases DEF With
<1>3. /\ W \in SUBSET D /\ F \in SUBSET D /\ C \in SUBSET D /\ X \in SUBSET D
      /\ \A k \in W : k \notin F
      /\ \A k \in C : k \notin X
      /\ \A k \in W \cup F : k \notin C \cup X
  BY DEF With
<1> HIDE DEF D, W, F, C, X
<1>4. IsFiniteSet(W) /\ IsFiniteSet(F) /\ IsFiniteSet(C) /\ IsFiniteSet(X) BY <1>1, <1>3, FS_Subset
<1>5. /\ IsFiniteSet(W \cup F) /\ Cardinality(W) \in Nat /\ Cardinality(F) \in Nat
      /\ Cardinality(W \cup F) = Cardinality(W) + Cardinality(F)
  BY <1>3, <1>4, DisjointUnion
<1>6. /\ IsFiniteSet(C \cup X) /\ Cardinality(C) \in Nat /\ Cardinality(X) \in Nat
      /\ Cardinality(C \cup X) = Cardinality(C) + Cardinality(X)
  BY <1>3, <1>4, DisjointUnion
<1>7. Cardinality(D) = Cardinality(W \cup F) + Cardinality(C \cup X)
  BY <1>2, <1>3, <1>5, <1>6, DisjointUnion
<1> QED BY <1>1, <1>5, <1>6, <1>7 DEF W, F, C, X

\* The balance of the snipers: with n of them pending, and after a bar.
Fates == [submitted : Nat, triggered : Nat, cancelled : Nat, expired : Nat]
Settled(f, n) == f.submitted = f.triggered + f.cancelled + f.expired + n
After(f, new, fired, dropped, gone) ==
  [submitted |-> f.submitted + new, triggered |-> f.triggered + fired,
   cancelled |-> f.cancelled + dropped, expired |-> f.expired + gone]

LEMMA SettledStep ==
  ASSUME NEW f \in Fates, NEW before \in Nat, NEW new \in Nat, NEW waiting \in Nat,
         NEW fired \in Nat, NEW dropped \in Nat, NEW gone \in Nat,
         Settled(f, before), before + new = waiting + fired + dropped + gone
  PROVE  After(f, new, fired, dropped, gone) \in Fates
         /\ Settled(After(f, new, fired, dropped, gone), waiting)
BY DEF Settled, Fates, After

LEMMA WalkSettles ==
  ASSUME Typed, SnipersSettle, ConstantsAssumption,
         NEW i \in 1..MaxBars, NEW calm, NEW T, NEW submitted, Len(submitted) \in Nat,
         NEW watched \in Seq(Watching(T, i)), Len(watched) = Len(snipers) + Len(submitted),
         Walk(watched, submitted, i, calm)
  PROVE  /\ snipers' \in Seq(Watching(T, i))
         /\ fate' \in [submitted : Nat, triggered : Nat, cancelled : Nat, expired : Nat]
         /\ fate'.submitted = fate'.triggered + fate'.cancelled + fate'.expired + Len(snipers')
         /\ MaxAge > 0 => \A k \in DOMAIN snipers' : i - snipers'[k].at <= MaxAge
<1> DEFINE S == Watching(T, i)
           W == With(watched, "waits", i, calm)
           waiting == Cardinality(W)
           fired == Cardinality(With(watched, "fires", i, calm))
           dropped == Cardinality(With(watched, "cancelled", i, calm))
           gone == Cardinality(With(watched, "expired", i, calm))
           young == {y \in S : MaxAge > 0 => i - y.at <= MaxAge}
<1>1. /\ waiting \in Nat /\ fired \in Nat /\ dropped \in Nat /\ gone \in Nat
      /\ Len(watched) = waiting + fired + dropped + gone
  BY WithParts
<1>2. W \in SUBSET (DOMAIN watched) BY DEF With
<1>3. snipers' = Select(watched, W) BY DEF Walk
<1>4. snipers' \in Seq(S) /\ Len(snipers') = waiting BY <1>2, <1>3, SelectProperties
<1>5. snipers' \in Seq(young)
  <2>1. MaxAge \in Nat BY DEF ConstantsAssumption
  <2>2. ASSUME NEW k \in W PROVE watched[k] \in young
    <3>1. watched[k] \in S /\ k \in DOMAIN watched BY <1>2, LenProperties, ElementOfSeq
    <3>2. Verdict(watched[k], i, calm) = "waits" BY DEF With
    <3>3. ~(MaxAge > 0 /\ i - watched[k].at > MaxAge) BY <3>2 DEF Verdict
    <3>4. watched[k].at \in Int BY <3>1 DEF Watching, Sniper
    <3> QED BY <2>1, <3>1, <3>3, <3>4
  <2> HIDE DEF W, young, S
  <2> QED BY <1>2, <1>3, <2>2, SelectionIn DEF S
<1>6. MaxAge > 0 => \A k \in DOMAIN snipers' : i - snipers'[k].at <= MaxAge
  <2>1. \A k \in DOMAIN snipers' : snipers'[k] \in young
    <3> HIDE DEF young
    <3> QED BY <1>5, LenProperties, ElementOfSeq
  <2> QED BY <2>1
<1>7. fate' = After(fate, Len(submitted), fired, dropped, gone) BY DEF Walk, After
<1>8. /\ fate \in Fates /\ Settled(fate, Len(snipers)) /\ Len(snipers) \in Nat
      /\ Len(snipers) + Len(submitted) = waiting + fired + dropped + gone
  BY <1>1, LenProperties DEF Typed, SnipersSettle, Fates, Settled
<1>9. waiting \in Nat /\ fired \in Nat /\ dropped \in Nat /\ gone \in Nat BY <1>1
<1> HIDE DEF waiting, fired, dropped, gone, W, S
<1>10. fate' \in Fates /\ Settled(fate', waiting) BY <1>7, <1>8, <1>9, SettledStep
<1> QED BY <1>4, <1>6, <1>10 DEF Fates, Settled, S, waiting, fired, dropped, gone

\* The orders of the snipers that fire.
Fired(watched, i, calm) ==
  Select([k \in DOMAIN watched |-> InverseOrder("sniper", watched[k].zone, -watched[k].dir, i)],
         With(watched, "fires", i, calm))

\* A new order waits for its bar.
LEMMA OrdersWait ==
  ASSUME NEW i \in Int
  PROVE  Ordered(i) \subseteq Waits(i, skipped)
<1>1. ASSUME NEW x \in Order PROVE x.at \in Int BY <1>1 DEF Order
<1> QED BY <1>1 DEF Ordered, Waits

LEMMA InverseOrderType ==
  ASSUME ConstantsAssumption, NEW by \in {"sniper", "inv"}, NEW z \in Zones, NEW dir \in {1, -1},
         NEW i \in 1..MaxBars
  PROVE  /\ InverseOrder(by, z, dir, i) \in Ordered(i + 1)
         /\ InverseOrder(by, z, dir, i).by = by
         /\ InverseOrder(by, z, dir, i).zone = z
         /\ InverseOrder(by, z, dir, i).at = i + 1
<1>1. Width(z) \in Nat BY ZoneType
<1>2. SlMult \in Nat /\ TpMult \in Nat /\ MaxBars \in Nat BY DEF ConstantsAssumption
<1>3. Width(z) * SlMult \in Nat /\ Width(z) * TpMult \in Nat BY <1>1, <1>2, NatProduct
<1>4. i + 1 \in 1..(MaxBars + 1) BY <1>2
<1> QED BY <1>3, <1>4 DEF InverseOrder, Ordered, Order

LEMMA FiredType ==
  ASSUME ConstantsAssumption, NEW i \in 1..MaxBars, NEW calm, NEW T,
         NEW watched \in Seq(Watching(T, i))
  PROVE  /\ Fired(watched, i, calm) \in Seq({x \in Ordered(i + 1) : x.by = "sniper"})
         /\ \A z \in Zones :
              Count(Fired(watched, i, calm), Entries(z, "sniper"))
                + Count(Select(watched, With(watched, "waits", i, calm)), Snipers(z))
              <= Count(watched, Snipers(z))
<1> DEFINE M == [k \in DOMAIN watched |-> InverseOrder("sniper", watched[k].zone, -watched[k].dir, i)]
           A == {x \in Ordered(i + 1) : x.by = "sniper"}
           F == With(watched, "fires", i, calm)
           W == With(watched, "waits", i, calm)
<1>1. ASSUME NEW k \in DOMAIN watched
      PROVE  M[k] \in A /\ M[k].zone = watched[k].zone /\ watched[k] \in Sniper
  <2>1. watched[k] \in Sniper BY LenProperties, ElementOfSeq DEF Watching
  <2>2. watched[k].zone \in Zones /\ -watched[k].dir \in {1, -1} BY <2>1 DEF Sniper
  <2> QED BY <2>1, <2>2, InverseOrderType
<1>2. M \in Seq(A) /\ DOMAIN M = DOMAIN watched
  <2> HIDE DEF A
  <2>1. M \in [DOMAIN watched -> A] BY <1>1
  <2> QED BY <2>1, MapIsSeq
<1>3. F \in SUBSET (DOMAIN watched) /\ W \in SUBSET (DOMAIN watched \ F) BY DEF With
<1>4. Fired(watched, i, calm) = Select(M, F) BY DEF Fired
<1>5. Select(M, F) \in Seq(A)
  <2> HIDE DEF M, F, A
  <2> QED BY <1>2, <1>3, SelectProperties
<1>6. ASSUME NEW z \in Zones
      PROVE  Count(Select(M, F), Entries(z, "sniper")) + Count(Select(watched, W), Snipers(z))
             <= Count(watched, Snipers(z))
  <2>1. \A k \in DOMAIN M : M[k] \in Entries(z, "sniper") <=> watched[k] \in Snipers(z)
    BY <1>1, <1>2 DEF Entries, Snipers, Ordered
  <2> HIDE DEF M, F, W, A
  <2>2. Count(Select(M, F), Entries(z, "sniper")) = Count(Select(watched, F), Snipers(z))
    BY <1>2, <1>3, <2>1, CountSelectSame
  <2>3. W \in SUBSET (DOMAIN watched) /\ \A k \in F : k \notin W BY <1>3
  <2> QED BY <1>3, <2>2, <2>3, CountApart
<1> QED BY <1>4, <1>5, <1>6

-----------------------------------------------------------------------------
\* Fills: the layers that are filled, and the orders that are due.
Filled(pending, b, i, thesis) ==
  Select([k \in DOMAIN pending |-> Opened(pending[k], pending[k].price, i, thesis)],
         {k \in DOMAIN pending : Fills(pending[k], b, i)})

Entered(orders, b, i, thesis) ==
  Select([k \in DOMAIN orders |-> Opened(orders[k], b.open, i, thesis)], Due(orders, i))

\* The layers that stay pending, and the orders that are not due.
Pended(pending, b, i) == Select(pending, {k \in DOMAIN pending : Remains(pending[k], b, i)})
Rest(orders, i) == Select(orders, DOMAIN orders \ Due(orders, i))

LEMMA OpenParts ==
  \A pending, orders, b, i, thesis :
    Open(pending, orders, b, i, thesis)
      = (trades \o Filled(pending, b, i, thesis)) \o Entered(orders, b, i, thesis)
BY DEF Open, Filled, Entered

\* A trade is opened with what its layer or order says.
LEMMA OpenedType ==
  ASSUME ConstantsAssumption, NEW i \in 1..MaxBars, NEW thesis, NEW entry \in Int,
         NEW x \in Layer \cup Order, x.at \in 1..MaxBars
  PROVE  /\ Opened(x, entry, i, thesis) \in Trade
         /\ Opened(x, entry, i, thesis).bar = i
         /\ Opened(x, entry, i, thesis).by = x.by
         /\ Opened(x, entry, i, thesis).layer = x.layer
         /\ Opened(x, entry, i, thesis).zone = x.zone
         /\ Opened(x, entry, i, thesis).at = x.at
<1>1. NumLayers \in Nat /\ IgnoreAligned \in BOOLEAN BY DEF ConstantsAssumption
<1>2. /\ x.by \in {"ladder", "sniper", "inv"} /\ x.layer \in 0..NumLayers /\ x.zone \in Zones
      /\ x.dir \in {1, -1} /\ x.stop \in Nat /\ x.target \in Nat
  BY <1>1 DEF Layer, Order
<1>3. {} \in {levels \in SUBSET Int : \A y, z \in levels : y = z} OBVIOUS
<1>4. (IgnoreAligned /\ x.dir = thesis) \in BOOLEAN BY <1>1
<1> QED BY <1>2, <1>3, <1>4 DEF Opened, Trade

LEMMA FilledType ==
  ASSUME ConstantsAssumption, NEW i \in 1..MaxBars, NEW b, NEW thesis, NEW T,
         NEW pending \in Seq(Pending(T, i))
  PROVE  /\ Pended(pending, b, i) \in Seq(Pending(T, i))
         /\ Filled(pending, b, i, thesis) \in Seq({x \in Running(i) : x.by = "ladder"})
         /\ \A c \in Keys :
              Count(Filled(pending, b, i, thesis), Entry(c)) + Count(Pended(pending, b, i), Entry(c))
              <= Count(pending, Entry(c))
<1> DEFINE M == [k \in DOMAIN pending |-> Opened(pending[k], pending[k].price, i, thesis)]
           A == {x \in Running(i) : x.by = "ladder"}
           F == {k \in DOMAIN pending : Fills(pending[k], b, i)}
           R == {k \in DOMAIN pending : Remains(pending[k], b, i)}
<1>1. ASSUME NEW k \in DOMAIN pending
      PROVE  /\ pending[k] \in Layer /\ M[k] \in Trade /\ M[k].bar = i
             /\ M[k].by = "ladder" /\ pending[k].by = "ladder"
             /\ M[k].layer = pending[k].layer /\ M[k].zone = pending[k].zone /\ M[k].at = pending[k].at
  <2>1. pending[k] \in Layer BY LenProperties, ElementOfSeq DEF Pending
  <2>2. pending[k].price \in Int /\ pending[k].at \in 1..MaxBars /\ pending[k].by = "ladder"
    BY <2>1 DEF Layer
  <2> QED BY <2>1, <2>2, OpenedType
<1>2. M \in Seq(Trade) /\ DOMAIN M = DOMAIN pending
  <2>1. M \in [DOMAIN pending -> Trade] BY <1>1
  <2> HIDE DEF M
  <2> QED BY <2>1, MapIsSeq
<1>3. /\ F \in SUBSET (DOMAIN pending) /\ R \in SUBSET (DOMAIN pending)
      /\ \A k \in F : k \notin R
  <2>1. ASSUME NEW k \in F, k \in R PROVE FALSE
    <3>1. pending[k].at \in Int BY <1>1 DEF Layer
    <3> QED BY <2>1, <3>1 DEF Fills, Remains
  <2> QED BY <2>1
<1>4. Filled(pending, b, i, thesis) = Select(M, F) BY DEF Filled
<1>5. Select(M, F) \in Seq(A)
  <2>1. ASSUME NEW k \in F PROVE M[k] \in A
    <3>1. M[k].bar > M[k].at
      <4>1. i > pending[k].at BY DEF Fills
      <4> QED BY <1>1, <4>1
    <3> HIDE DEF M
    <3> QED BY <1>1, <3>1 DEF Running, OnTime
  <2> HIDE DEF M, F, A
  <2> QED BY <1>2, <1>3, <2>1, SelectionIn
<1>6. Select(pending, R) \in Seq(Pending(T, i))
  <2> HIDE DEF R
  <2> QED BY <1>3, SelectProperties
<1>7. ASSUME NEW c \in Keys
      PROVE  Count(Select(M, F), Entry(c)) + Count(Select(pending, R), Entry(c))
             <= Count(pending, Entry(c))
  <2>1. \A k \in DOMAIN M : M[k] \in Entry(c) <=> pending[k] \in Entry(c)
    <3> HIDE DEF M
    <3> QED BY <1>1, <1>2 DEF Entry
  <2> HIDE DEF M, F, R
  <2>2. Count(Select(M, F), Entry(c)) = Count(Select(pending, F), Entry(c))
    BY <1>2, <1>3, <2>1, CountSelectSame
  <2> QED BY <1>3, <2>2, CountApart
<1> QED BY <1>4, <1>5, <1>6, <1>7 DEF Pended

\* The provers match a sum best when it has a name.
Adds(m, n, sum) == m + n = sum

LEMMA EnteredType ==
  ASSUME ConstantsAssumption, NEW i \in 1..MaxBars, NEW b \in Bars, NEW thesis,
         NEW orders \in Seq(Waits(i, skipped) \cup Ordered(i + 1))
  PROVE  /\ Rest(orders, i) \in Seq(Waits(i + 1, skipped))
         /\ Entered(orders, b, i, thesis) \in Seq({x \in Running(i) : x.by # "ladder"})
         /\ \A c \in Keys :
              Adds(Count(Entered(orders, b, i, thesis), Entry(c)), Count(Rest(orders, i), Entry(c)),
                   Count(orders, Entry(c)))
         /\ \A z \in Zones, by \in {"sniper", "inv"} :
              Adds(Count(Entered(orders, b, i, thesis), Entries(z, by)),
                   Count(Rest(orders, i), Entries(z, by)), Count(orders, Entries(z, by)))
<1> DEFINE M == [k \in DOMAIN orders |-> Opened(orders[k], b.open, i, thesis)]
           A == {x \in Running(i) : x.by # "ladder"}
           D == Due(orders, i)
           R == DOMAIN orders \ D
<1>1. ASSUME NEW k \in DOMAIN orders
      PROVE  orders[k] \in Order /\ orders[k] \in Waits(i, skipped) \cup Ordered(i + 1)
  BY LenProperties, ElementOfSeq DEF Ordered, Waits
<1>2. D \in SUBSET (DOMAIN orders) /\ R \in SUBSET (DOMAIN orders) BY DEF Due
<1>3. ASSUME NEW k \in D
      PROVE  /\ M[k] \in Trade /\ M[k] \in A
             /\ M[k].by = orders[k].by /\ M[k].layer = orders[k].layer
             /\ M[k].zone = orders[k].zone /\ M[k].at = orders[k].at
  <2>1. k \in DOMAIN orders /\ orders[k] \in Order /\ orders[k].at = i BY <1>1 DEF Due
  <2>2. b.open \in Int BY DEF ConstantsAssumption
  <2>3. /\ M[k] \in Trade /\ M[k].bar = i
        /\ M[k].by = orders[k].by /\ M[k].layer = orders[k].layer
        /\ M[k].zone = orders[k].zone /\ M[k].at = orders[k].at
    BY <2>1, <2>2, OpenedType
  <2>4. orders[k].by # "ladder" BY <2>1 DEF Order
  <2> HIDE DEF M
  <2> QED BY <2>1, <2>3, <2>4 DEF Running, OnTime
<1>4. Entered(orders, b, i, thesis) = Select(M, D) BY DEF Entered
<1> DEFINE any == {M[k] : k \in DOMAIN orders}
<1>5. M \in Seq(any) /\ DOMAIN M = DOMAIN orders
  <2>1. M \in [DOMAIN orders -> any] OBVIOUS
  <2> HIDE DEF M, any
  <2> QED BY <2>1, MapIsSeq
<1>6. Select(M, D) \in Seq(A)
  <2> HIDE DEF M, D, A, any
  <2> QED BY <1>2, <1>3, <1>5, SelectionIn
<1>7. Select(orders, R) \in Seq(Waits(i + 1, skipped))
  <2>1. ASSUME NEW k \in R PROVE orders[k] \in Waits(i + 1, skipped)
    <3>1. k \in DOMAIN orders /\ orders[k].at # i BY DEF Due
    <3>2. CASE orders[k] \in Waits(i, skipped)
      <4>1. orders[k].at \in Int BY <1>1, <3>1 DEF Order
      <4> QED BY <3>1, <3>2, <4>1 DEF Waits
    <3>3. CASE orders[k] \in Ordered(i + 1)
      <4>1. i + 1 \in Int OBVIOUS
      <4> QED BY <3>3, <4>1, OrdersWait
    <3> QED BY <1>1, <3>1, <3>2, <3>3
  <2> HIDE DEF R
  <2> QED BY <1>2, <2>1, SelectionIn
<1>8. ASSUME NEW B, \A k \in D : M[k] \in B <=> orders[k] \in B
      PROVE  Adds(Count(Select(M, D), B), Count(Select(orders, R), B), Count(orders, B))
  <2>1. Count(Select(M, D), B) = Cardinality({k \in D : M[k] \in B})
    <3> HIDE DEF M, D, any
    <3> QED BY <1>2, <1>5, CountSelect
  <2>2. Count(Select(orders, D), B) = Cardinality({k \in D : orders[k] \in B})
    <3> HIDE DEF D
    <3> QED BY <1>2, CountSelect
  <2>3. {k \in D : M[k] \in B} = {k \in D : orders[k] \in B} BY <1>8
  <2>4. Count(orders, B) = Count(Select(orders, D), B) + Count(Select(orders, R), B)
    <3> HIDE DEF D
    <3> QED BY <1>2, CountSplit
  <2> QED BY <2>1, <2>2, <2>3, <2>4 DEF Adds
<1>9. ASSUME NEW c \in Keys PROVE \A k \in D : M[k] \in Entry(c) <=> orders[k] \in Entry(c)
  <2> HIDE DEF M
  <2> QED BY <1>1, <1>2, <1>3 DEF Entry
<1>10. ASSUME NEW z \in Zones, NEW by \in {"sniper", "inv"}
       PROVE \A k \in D : M[k] \in Entries(z, by) <=> orders[k] \in Entries(z, by)
  <2> HIDE DEF M
  <2> QED BY <1>1, <1>2, <1>3 DEF Entries
<1> HIDE DEF M
<1> QED BY <1>4, <1>6, <1>7, <1>8, <1>9, <1>10 DEF Rest

-----------------------------------------------------------------------------
\* The inverse trades of a bar: at most one on a zone, of the first of its trades that
\* may get a soft stop.
Emitting(open, i) == {k \in DOMAIN open : EmitsInverse(open, k, i)}
On1(open, z, i) == {k \in Emitting(open, i) : open[k].zone = z}
Emitted(open, i) ==
  Select([k \in DOMAIN open |-> InverseOrder("inv", open[k].zone, -open[k].dir, i)], Emitting(open, i))

LEMMA EmitsOnce ==
  ASSUME NEW S, NEW open \in Seq(S), NEW i, NEW k \in Emitting(open, i), NEW l \in Emitting(open, i),
         open[k].zone = open[l].zone
  PROVE  k = l
<1>1. Len(open) \in Nat /\ DOMAIN open = 1..Len(open) BY LenProperties
<1>2. k \in 1..Len(open) /\ l \in 1..Len(open) BY <1>1 DEF Emitting
<1>3. Tightens(open, k, i) /\ Tightens(open, l, i) BY DEF Emitting, EmitsInverse
<1>4. CASE k < l
  <2>1. k \in 1..(l - 1) BY <1>2, <1>4
  <2> QED BY <1>3, <2>1 DEF Tightens
<1>5. CASE l < k
  <2>1. l \in 1..(k - 1) BY <1>2, <1>5
  <2> QED BY <1>3, <2>1 DEF Tightens
<1> QED BY <1>2, <1>4, <1>5

LEMMA EmittedType ==
  ASSUME ConstantsAssumption, NEW i \in 1..MaxBars, NEW open \in Seq(Running(i))
  PROVE  /\ Emitted(open, i) \in Seq({x \in Ordered(i + 1) : x.by = "inv"})
         /\ \A z \in Zones :
              /\ Cardinality(On1(open, z, i)) \in {0, 1}
              /\ Cardinality(On1(open, z, i)) = 1 => used[z] < MaxPer
              /\ Count(Emitted(open, i), Entries(z, "inv")) = Cardinality(On1(open, z, i))
         /\ \A c \in Keys : Count(Emitted(open, i), Entry(c)) <= 1
<1> DEFINE M == [k \in DOMAIN open |-> InverseOrder("inv", open[k].zone, -open[k].dir, i)]
           A == {x \in Ordered(i + 1) : x.by = "inv"}
           E == Emitting(open, i)
<1>1. ASSUME NEW k \in DOMAIN open
      PROVE  M[k] \in A /\ M[k].zone = open[k].zone /\ open[k].zone \in Zones
  <2>1. open[k] \in Trade BY LenProperties, ElementOfSeq DEF Running
  <2>2. open[k].zone \in Zones /\ -open[k].dir \in {1, -1} BY <2>1 DEF Trade
  <2> QED BY <2>2, InverseOrderType
<1>2. M \in Seq(A) /\ DOMAIN M = DOMAIN open
  <2>1. M \in [DOMAIN open -> A] BY <1>1
  <2> HIDE DEF M, A
  <2> QED BY <2>1, MapIsSeq
<1>3. E \in SUBSET (DOMAIN open) BY DEF Emitting
<1>4. Emitted(open, i) = Select(M, E) BY DEF Emitted
<1>5. Select(M, E) \in Seq(A)
  <2> HIDE DEF M, E, A
  <2> QED BY <1>2, <1>3, SelectProperties
<1>6. IsFiniteSet(DOMAIN open) BY CountType
<1>7. ASSUME NEW z \in Zones
      PROVE  /\ Cardinality(On1(open, z, i)) \in {0, 1}
             /\ Cardinality(On1(open, z, i)) = 1 => used[z] < MaxPer
             /\ Count(Select(M, E), Entries(z, "inv")) = Cardinality(On1(open, z, i))
  <2> DEFINE P == On1(open, z, i)
  <2>1. \A k, l \in P : k = l BY EmitsOnce DEF On1
  <2>2. ASSUME P # {} PROVE used[z] < MaxPer BY <2>2 DEF On1, Emitting, EmitsInverse
  <2>3. {k \in E : M[k] \in Entries(z, "inv")} = P
    <3>1. \A k \in E : M[k] \in Entries(z, "inv") <=> open[k].zone = z
      <4> HIDE DEF M
      <4> QED BY <1>1, <1>3 DEF Entries, Ordered
    <3> HIDE DEF M
    <3> QED BY <3>1 DEF On1
  <2>4. Count(Select(M, E), Entries(z, "inv")) = Cardinality(P)
    <3> HIDE DEF M, E, A, P
    <3> QED BY <1>2, <1>3, <2>3, CountSelect
  <2> HIDE DEF P
  <2>5. CASE P = {} BY <2>4, <2>5, FS_EmptySet DEF P
  <2>6. CASE P # {}
    <3>1. PICK k \in P : TRUE BY <2>6
    <3>2. P = {k} BY <2>1, <3>1
    <3>3. Cardinality({k}) = 1 BY FS_Singleton
    <3> QED BY <2>2, <2>4, <2>6, <3>2, <3>3 DEF P
  <2> QED BY <2>5, <2>6
<1>8. ASSUME NEW c \in Keys PROVE Count(Select(M, E), Entry(c)) <= 1
  <2> DEFINE P == {k \in E : M[k] \in Entry(c)}
  <2>1. Count(Select(M, E), Entry(c)) = Cardinality(P)
    <3> HIDE DEF M, E, A
    <3> QED BY <1>2, <1>3, CountSelect
  <2>2. ASSUME NEW k \in P, NEW l \in P PROVE k = l
    <3>1. k \in E /\ l \in E /\ open[k].zone = open[l].zone
      <4>1. M[k].zone = c.zone /\ M[l].zone = c.zone
        <5> HIDE DEF M, E
        <5> QED BY DEF Entry
      <4> HIDE DEF M
      <4> QED BY <1>1, <1>3, <4>1
    <3> QED BY <3>1, EmitsOnce
  <2> HIDE DEF P
  <2>3. CASE P = {} BY <2>1, <2>3, FS_EmptySet
  <2>4. CASE P # {}
    <3>1. PICK k \in P : TRUE BY <2>4
    <3>2. P = {k} BY <2>2, <3>1
    <3>3. Cardinality({k}) = 1 BY FS_Singleton
    <3> QED BY <2>1, <3>2, <3>3
  <2> QED BY <2>3, <2>4
<1> QED BY <1>4, <1>5, <1>7, <1>8

-----------------------------------------------------------------------------
\* Soft stops: a trade keeps what it is, and gets one if it has none.
LEMMA SoftLevelType ==
  ASSUME ConstantsAssumption, NEW t \in Trade, NEW buffer \in Nat
  PROVE  SoftLevel(t, buffer) \in Int
<1>1. t.zone \in Zones /\ t.dir \in {1, -1} BY DEF Trade
<1>2. t.zone.low \in Int /\ t.zone.high \in Int BY <1>1, ZoneType
<1>3. t.dir * buffer \in Int BY <1>1
<1> QED BY <1>2, <1>3 DEF SoftLevel

Softens(u, t) == u = t \/ (t.soft = {} /\ \E x \in Int : u = [t EXCEPT !.soft = {x}])

LEMMA SoftensType ==
  ASSUME NEW t \in Trade, NEW u, Softens(u, t)
  PROVE  /\ u \in Trade
         /\ u.by = t.by /\ u.layer = t.layer /\ u.zone = t.zone /\ u.dir = t.dir /\ u.at = t.at
         /\ u.bar = t.bar /\ u.entry = t.entry /\ u.stop = t.stop /\ u.target = t.target
         /\ u.aligned = t.aligned /\ t.soft \subseteq u.soft
<1>1. CASE u = t BY <1>1 DEF Trade
<1>2. ASSUME NEW x \in Int, t.soft = {}, u = [t EXCEPT !.soft = {x}]
      PROVE  /\ u \in Trade
             /\ u.by = t.by /\ u.layer = t.layer /\ u.zone = t.zone /\ u.dir = t.dir /\ u.at = t.at
             /\ u.bar = t.bar /\ u.entry = t.entry /\ u.stop = t.stop /\ u.target = t.target
             /\ u.aligned = t.aligned /\ t.soft \subseteq u.soft
  <2>1. {x} \in {levels \in SUBSET Int : \A y, z \in levels : y = z} OBVIOUS
  <2> QED BY <1>2, <2>1 DEF Trade
<1> QED BY <1>1, <1>2 DEF Softens

LEMMA SoftenedType ==
  ASSUME ConstantsAssumption, NEW i \in 1..MaxBars, NEW open \in Seq(Running(i)), NEW last, NEW next
  PROVE  /\ Softened(open, i, last, next) \in Seq(Running(i))
         /\ DOMAIN Softened(open, i, last, next) = DOMAIN open
         /\ \A k \in DOMAIN open :
              open[k] \in Trade /\ Softens(Softened(open, i, last, next)[k], open[k])
<1> DEFINE held == Softened(open, i, last, next)
<1>1. DOMAIN held = DOMAIN open BY DEF Softened
<1>2. Buffer \in Nat /\ RenkoBuffer \in Nat BY DEF ConstantsAssumption
<1>3. ASSUME NEW k \in DOMAIN open
      PROVE  open[k] \in Trade /\ open[k] \in Running(i) /\ Softens(held[k], open[k])
  <2>1. open[k] \in Running(i) /\ open[k] \in Trade BY LenProperties, ElementOfSeq DEF Running
  <2>2. SoftLevel(open[k], Buffer) \in Int /\ SoftLevel(open[k], RenkoBuffer) \in Int
    BY <1>2, <2>1, SoftLevelType
  <2>3. CASE Tightens(open, k, i)
    <3>1. open[k].soft = {} BY <2>3 DEF Tightens, MayTighten
    <3>2. held[k] = [open[k] EXCEPT !.soft = {SoftLevel(open[k], Buffer)}] BY <2>3 DEF Softened
    <3> QED BY <2>1, <2>2, <3>1, <3>2 DEF Softens
  <2>4. CASE ~Tightens(open, k, i) /\ Reverses(open[k], last, next)
    <3>1. open[k].soft = {} BY <2>4 DEF Reverses
    <3>2. held[k] = [open[k] EXCEPT !.soft = {SoftLevel(open[k], RenkoBuffer)}]
      BY <2>4 DEF Softened
    <3> QED BY <2>1, <2>2, <3>1, <3>2 DEF Softens
  <2>5. CASE ~Tightens(open, k, i) /\ ~Reverses(open[k], last, next)
    <3>1. held[k] = open[k] BY <2>5 DEF Softened
    <3> QED BY <2>1, <3>1 DEF Softens
  <2> QED BY <2>3, <2>4, <2>5
<1> HIDE DEF held
<1>4. ASSUME NEW k \in DOMAIN open PROVE held[k] \in Running(i)
  <2>1. open[k] \in Trade /\ open[k].bar <= i /\ OnTime(open[k]) BY <1>3 DEF Running
  <2>2. /\ held[k] \in Trade
        /\ held[k].bar = open[k].bar /\ held[k].at = open[k].at /\ held[k].by = open[k].by
    BY <1>3, <2>1, SoftensType
  <2> QED BY <2>1, <2>2 DEF Running, OnTime
<1>5. held \in Seq(Running(i))
  <2>1. held = [k \in DOMAIN open |-> held[k]] BY DEF Softened, held
  <2>2. held \in [DOMAIN open -> Running(i)] BY <1>4, <2>1
  <2> QED BY <2>2, MapIsSeq
<1> QED BY <1>1, <1>3, <1>5 DEF held

\* A soft stop changes nothing that is counted.
LEMMA SoftenedCount ==
  ASSUME ConstantsAssumption, NEW i \in 1..MaxBars, NEW open \in Seq(Running(i)), NEW last, NEW next
  PROVE  /\ \A z, by : Count(Softened(open, i, last, next), Entries(z, by)) = Count(open, Entries(z, by))
         /\ \A c : Count(Softened(open, i, last, next), Entry(c)) = Count(open, Entry(c))
<1> DEFINE held == Softened(open, i, last, next)
<1>1. /\ held \in Seq(Running(i)) /\ DOMAIN held = DOMAIN open
      /\ \A k \in DOMAIN open : open[k] \in Trade /\ Softens(held[k], open[k])
  BY SoftenedType
<1> HIDE DEF held
<1>2. ASSUME NEW k \in DOMAIN held
      PROVE  /\ held[k] \in Trade /\ open[k] \in Trade
             /\ held[k].zone = open[k].zone /\ held[k].by = open[k].by
             /\ held[k].layer = open[k].layer /\ held[k].at = open[k].at
  BY <1>1, SoftensType
<1>3. ASSUME NEW z, NEW by PROVE Count(held, Entries(z, by)) = Count(open, Entries(z, by))
  <2>1. \A k \in DOMAIN held : held[k] \in Entries(z, by) <=> open[k] \in Entries(z, by)
    BY <1>2 DEF Entries
  <2> QED BY <1>1, <2>1, CountSame
<1>4. ASSUME NEW c PROVE Count(held, Entry(c)) = Count(open, Entry(c))
  <2>1. \A k \in DOMAIN held : held[k] \in Entry(c) <=> open[k] \in Entry(c)
    BY <1>2 DEF Entry
  <2> QED BY <1>1, <2>1, CountSame
<1> QED BY <1>3, <1>4 DEF held

-----------------------------------------------------------------------------
\* Stops: of finitely many levels one is the most protective.
Strictest(A, dir, x) == x \in A /\ \A y \in A : Reaches(dir, x, y)
Levels(t, i, close) ==
  {OriginalStop(t)} \union t.soft \union DecayLevels(t, i) \union TrailLevels(t, close)

LEMMA ReachesOrder ==
  ASSUME NEW dir \in {1, -1}, NEW x \in Int, NEW y \in Int
  PROVE  /\ Reaches(dir, x, x)
         /\ Reaches(dir, x, y) \/ Reaches(dir, y, x)
         /\ \A z \in Int : Reaches(dir, x, y) /\ Reaches(dir, y, z) => Reaches(dir, x, z)
<1>1. CASE dir = 1 BY <1>1 DEF Reaches
<1>2. CASE dir = -1 BY <1>2 DEF Reaches
<1> QED BY <1>1, <1>2

LEMMA AddLevel ==
  ASSUME NEW dir \in {1, -1}, NEW A \in SUBSET Int, NEW B \in SUBSET Int,
         \A x, y \in B : x = y, \E x \in A : Strictest(A, dir, x)
  PROVE  \E x \in A \union B : Strictest(A \union B, dir, x)
<1>1. PICK a \in A : Strictest(A, dir, a) OBVIOUS
<1>2. CASE B = {} BY <1>1, <1>2
<1>3. ASSUME NEW b \in B PROVE \E x \in A \union B : Strictest(A \union B, dir, x)
  <2>1. A \union B = A \union {b} BY <1>3
  <2>2. a \in Int /\ b \in Int /\ \A y \in A : y \in Int OBVIOUS
  <2>3. CASE Reaches(dir, a, b) BY <1>1, <2>1, <2>3 DEF Strictest
  <2>4. CASE Reaches(dir, b, a)
    <3>1. \A y \in A : Reaches(dir, b, y) BY <1>1, <2>2, <2>4, ReachesOrder DEF Strictest
    <3>2. Reaches(dir, b, b) BY <2>2, ReachesOrder
    <3> QED BY <2>1, <3>1, <3>2 DEF Strictest
  <2> QED BY <2>2, <2>3, <2>4, ReachesOrder
<1> QED BY <1>2, <1>3

\* An entry of the schedule.
LEMMA DecayEntry ==
  ASSUME ConstantsAssumption, NEW k \in DOMAIN Decay
  PROVE  k \in Int /\ Decay[k][1] \in Nat /\ Decay[k][2] \in Nat
<1>1. Decay \in Seq(Nat \X Nat) BY DEF ConstantsAssumption
<1>2. DOMAIN Decay = 1..Len(Decay) /\ Len(Decay) \in Nat BY <1>1, LenProperties
<1>3. Decay[k] \in Nat \X Nat BY <1>1, <1>2, ElementOfSeq
<1> QED BY <1>2, <1>3

\* The level that an entry of the schedule stands for.
DecayLevel(t, k) == t.entry - t.dir * ((t.stop * Decay[k][2]) \div 100)
Current(t, i, k) ==
  /\ k \in DOMAIN Decay
  /\ i - t.bar >= Decay[k][1]
  /\ \A j \in DOMAIN Decay : i - t.bar >= Decay[j][1] => k <= j

LEMMA DecayLevelsAre ==
  \A t, i : DecayLevels(t, i) = {DecayLevel(t, k) : k \in {l \in DOMAIN Decay : Current(t, i, l)}}
<1> SUFFICES ASSUME NEW t, NEW i
             PROVE  DecayLevels(t, i) = {DecayLevel(t, k) : k \in {l \in DOMAIN Decay : Current(t, i, l)}}
  OBVIOUS
<1> DEFINE reached == {k \in DOMAIN Decay : i - t.bar >= Decay[k][1]}
<1>1. {l \in reached : \A j \in reached : l <= j} = {l \in DOMAIN Decay : Current(t, i, l)}
  BY DEF Current
<1> QED BY <1>1 DEF DecayLevels, DecayLevel

LEMMA DecayLevelsType ==
  ASSUME ConstantsAssumption, NEW t \in Trade, NEW i
  PROVE  DecayLevels(t, i) \in SUBSET Int /\ \A x, y \in DecayLevels(t, i) : x = y
<1>1. t.entry \in Int /\ t.dir \in {1, -1} /\ t.stop \in Nat BY DEF Trade
<1>2. ASSUME NEW k \in DOMAIN Decay PROVE DecayLevel(t, k) \in Int
  <2>1. Decay[k][2] \in Nat BY DecayEntry
  <2>2. t.stop * Decay[k][2] \in Nat BY <1>1, <2>1, NatProduct
  <2> DEFINE p == t.stop * Decay[k][2]
  <2> HIDE DEF p
  <2>3. p \div 100 \in Int BY <2>2 DEF p
  <2>4. t.dir * (p \div 100) \in Int BY <1>1, <2>3
  <2> QED BY <1>1, <2>4 DEF DecayLevel, p
<1>3. ASSUME NEW k \in DOMAIN Decay, NEW l \in DOMAIN Decay, Current(t, i, k), Current(t, i, l)
      PROVE  k = l
  <2>1. k \in Int /\ l \in Int BY DecayEntry
  <2>2. k <= l /\ l <= k BY <1>3 DEF Current
  <2> QED BY <2>1, <2>2
<1> QED BY <1>2, <1>3, DecayLevelsAre

\* The stop is one of the levels, and no level is beyond it.
LEMMA StopIsStrictest ==
  ASSUME ConstantsAssumption, NEW t \in Trade, NEW i, NEW close \in Int
  PROVE  /\ Levels(t, i, close) \in SUBSET Int
         /\ Strictest(Levels(t, i, close), t.dir, Stop(t, i, close))
         /\ Stop(t, i, close) \in Int
<1>1. /\ t.entry \in Int /\ t.dir \in {1, -1} /\ t.stop \in Nat
      /\ t.soft \in SUBSET Int /\ \A x, y \in t.soft : x = y
  BY DEF Trade
<1>2. OriginalStop(t) \in Int BY <1>1 DEF OriginalStop
<1>3. TrailLevels(t, close) \in SUBSET Int /\ \A x, y \in TrailLevels(t, close) : x = y
  <2>1. TrailBy \in Nat BY DEF ConstantsAssumption
  <2>2. close - t.dir * TrailBy \in Int BY <1>1, <2>1
  <2> QED BY <2>2 DEF TrailLevels
<1> DEFINE A == {OriginalStop(t)}
           B == A \union t.soft
           C == B \union DecayLevels(t, i)
           D == C \union TrailLevels(t, close)
<1>4. Strictest(A, t.dir, OriginalStop(t)) BY <1>1, <1>2, ReachesOrder DEF Strictest
<1>5. A \in SUBSET Int /\ B \in SUBSET Int /\ C \in SUBSET Int /\ D \in SUBSET Int
  BY <1>1, <1>2, <1>3, DecayLevelsType
<1>6. \E x \in A : Strictest(A, t.dir, x) BY <1>4
<1> HIDE DEF A
<1>7. \E x \in B : Strictest(B, t.dir, x) BY <1>1, <1>5, <1>6, AddLevel
<1> HIDE DEF B
<1>8. \E x \in C : Strictest(C, t.dir, x) BY <1>1, <1>5, <1>7, AddLevel, DecayLevelsType
<1> HIDE DEF C
<1>9. \E x \in D : Strictest(D, t.dir, x) BY <1>1, <1>3, <1>5, <1>8, AddLevel
<1>10. Levels(t, i, close) = D BY DEF Levels, A, B, C, D
<1>11. Stop(t, i, close) = CHOOSE x \in D : \A y \in D : Reaches(t.dir, x, y)
  BY <1>10 DEF Stop, Levels
<1> HIDE DEF D
<1>12. Strictest(D, t.dir, Stop(t, i, close)) BY <1>9, <1>11 DEF Strictest
<1> QED BY <1>5, <1>10, <1>12 DEF Strictest

\* How a trade ends.
LEMMA ExitedType ==
  ASSUME ConstantsAssumption, NEW i \in 1..MaxBars, NEW b \in Bars, NEW t \in Running(i)
  PROVE  Exited(t, b, i) \in Done /\ Exited(t, b, i).zone = t.zone /\ Exited(t, b, i).by = t.by
<1>1. t \in Trade /\ OnTime(t) BY DEF Running
<1>2. /\ t.entry \in Int /\ t.dir \in {1, -1} /\ t.stop \in Nat /\ t.target \in Nat
      /\ t.by \in {"ladder", "sniper", "inv"} /\ t.zone \in Zones
      /\ t.at \in 1..MaxBars /\ t.bar \in 1..MaxBars
  BY <1>1 DEF Trade
<1>3. ASSUME NEW exit \in Int, NEW reason \in {"tp", "sl", "inv"},
             t.dir * (exit - t.entry) >= -t.stop,
             reason = "tp" => t.dir * (exit - t.entry) = t.target
      PROVE  Closed(t, exit, reason) \in Done
             /\ Closed(t, exit, reason).zone = t.zone /\ Closed(t, exit, reason).by = t.by
  <2>1. Closed(t, exit, reason) \in ClosedTrade BY <1>2 DEF Closed, ClosedTrade
  <2>2. OnTime(Closed(t, exit, reason)) BY <1>1 DEF Closed, OnTime
  <2>3. Bounded(Closed(t, exit, reason)) BY <1>3 DEF Closed, Bounded
  <2> QED BY <2>1, <2>2, <2>3 DEF Done, Closed
<1>4. CASE TargetHit(t, b) /\ (StopHit(t, b, i) => TargetFirst(t))
  <2>1. Target(t) \in Int BY <1>2 DEF Target
  <2>2. t.dir * (Target(t) - t.entry) = t.target
    <3>1. CASE t.dir = 1 BY <1>2, <3>1 DEF Target
    <3>2. CASE t.dir = -1 BY <1>2, <3>2 DEF Target
    <3> QED BY <1>2, <3>1, <3>2
  <2>3. t.target >= -t.stop BY <1>2
  <2> QED BY <1>3, <1>4, <2>1, <2>2, <2>3 DEF Exited
<1>5. CASE ~(TargetHit(t, b) /\ (StopHit(t, b, i) => TargetFirst(t)))
  <2> DEFINE stop == Stop(t, i, b.close)
  <2>1. b.close \in Int BY DEF ConstantsAssumption
  <2>2. stop \in Int /\ Strictest(Levels(t, i, b.close), t.dir, stop) BY <1>1, <2>1, StopIsStrictest
  <2>3. Reaches(t.dir, stop, OriginalStop(t)) BY <2>2 DEF Strictest, Levels
  <2> HIDE DEF stop
  <2>4. t.dir * (stop - t.entry) >= -t.stop
    <3>1. CASE t.dir = 1 BY <1>2, <2>2, <2>3, <3>1 DEF Reaches, OriginalStop
    <3>2. CASE t.dir = -1 BY <1>2, <2>2, <2>3, <3>2 DEF Reaches, OriginalStop
    <3> QED BY <1>2, <3>1, <3>2
  <2>5. Exited(t, b, i) = Closed(t, stop, IF t.soft # {} THEN "inv" ELSE "sl")
    BY <1>5 DEF Exited, stop
  <2> DEFINE reason == IF t.soft # {} THEN "inv" ELSE "sl"
  <2>6. reason \in {"tp", "sl", "inv"} /\ reason # "tp" OBVIOUS
  <2> HIDE DEF reason
  <2>7. Exited(t, b, i) = Closed(t, stop, reason) BY <2>5 DEF reason
  <2> QED BY <1>3, <2>2, <2>4, <2>6, <2>7
<1> QED BY <1>4, <1>5

\* Exits: every trade that was held is held or closed.
LEMMA LeaveType ==
  ASSUME ConstantsAssumption, Typed, NEW i \in 1..MaxBars, NEW b \in Bars, NEW held \in Seq(Running(i)),
         Leave(held, b, i)
  PROVE  /\ trades' \in Seq(Running(i))
         /\ closed' \in Seq(Done)
         /\ \A z \in Zones, by \in {"sniper", "inv"} :
              Count(trades', Entries(z, by)) + Count(closed', Entries(z, by))
              = Count(held, Entries(z, by)) + Count(closed, Entries(z, by))
         /\ \A c \in Keys : Count(trades', Entry(c)) <= Count(held, Entry(c))
<1> DEFINE M == [k \in DOMAIN held |-> Exited(held[k], b, i)]
           X == {k \in DOMAIN held : Exits(held[k], b, i)}
           R == DOMAIN held \ X
<1>1. ASSUME NEW k \in DOMAIN held
      PROVE  held[k] \in Trade /\ M[k] \in Done /\ M[k].zone = held[k].zone /\ M[k].by = held[k].by
  <2>1. held[k] \in Running(i) /\ held[k] \in Trade BY LenProperties, ElementOfSeq DEF Running
  <2> QED BY <2>1, ExitedType
<1>2. M \in Seq(Done) /\ DOMAIN M = DOMAIN held
  <2>1. M \in [DOMAIN held -> Done] BY <1>1
  <2> HIDE DEF M
  <2> QED BY <2>1, MapIsSeq
<1>3. X \in SUBSET (DOMAIN held) /\ R \in SUBSET (DOMAIN held) OBVIOUS
<1>4. trades' = Select(held, R) /\ closed' = closed \o Select(M, X) BY DEF Leave
<1>5. closed \in Seq(Done) BY DEF Typed
<1>6. ASSUME NEW z \in Zones, NEW by \in {"sniper", "inv"}
      PROVE  \A k \in DOMAIN M : M[k] \in Entries(z, by) <=> held[k] \in Entries(z, by)
  <2> HIDE DEF M
  <2> QED BY <1>1, <1>2 DEF Entries, Done
<1> HIDE DEF M, X
<1>7. Select(held, R) \in Seq(Running(i)) /\ Select(M, X) \in Seq(Done)
  <2>1. Select(held, R) \in Seq(Running(i)) BY <1>3, SelectProperties
  <2>2. Select(M, X) \in Seq(Done) BY <1>2, <1>3, SelectProperties
  <2> QED BY <2>1, <2>2
<1>8. closed' \in Seq(Done) BY <1>4, <1>5, <1>7, ConcatProperties
<1>9. ASSUME NEW B
      PROVE  /\ Count(Select(held, X), B) \in Nat /\ Count(Select(held, R), B) \in Nat
             /\ Count(held, B) = Count(Select(held, X), B) + Count(Select(held, R), B)
  <2>1. held \in Seq(Running(i)) /\ X \in SUBSET (DOMAIN held) BY <1>3
  <2>2. Count(Select(held, X), B) \in Nat BY <2>1, CountSplit
  <2>3. Count(Select(held, R), B) \in Nat BY <2>1, CountSplit
  <2>4. Count(held, B) = Count(Select(held, X), B) + Count(Select(held, R), B) BY <2>1, CountSplit
  <2> QED BY <2>2, <2>3, <2>4
<1>10. ASSUME NEW z \in Zones, NEW by \in {"sniper", "inv"}
       PROVE  Count(trades', Entries(z, by)) + Count(closed', Entries(z, by))
              = Count(held, Entries(z, by)) + Count(closed, Entries(z, by))
  <2> DEFINE B == Entries(z, by)
  <2>1. Count(Select(M, X), B) = Count(Select(held, X), B)
    <3> HIDE DEF B
    <3>1. \A k \in DOMAIN M : M[k] \in B <=> held[k] \in B BY <1>6 DEF B
    <3> QED BY <1>2, <1>3, <3>1, CountSelectSame
  <2>2. Count(closed', B) = Count(closed, B) + Count(Select(M, X), B) BY <1>4, <1>5, <1>7, CountConcat
  <2>3. Count(closed, B) \in Nat BY <1>5, CountType
  <2> HIDE DEF B, R
  <2>4. /\ Count(Select(held, X), B) \in Nat /\ Count(Select(held, R), B) \in Nat
        /\ Count(held, B) = Count(Select(held, X), B) + Count(Select(held, R), B)
    BY <1>9
  <2>5. Count(trades', B) = Count(Select(held, R), B) BY <1>4
  <2>6. Count(trades', B) + Count(closed', B) = Count(held, B) + Count(closed, B)
    BY <2>1, <2>2, <2>3, <2>4, <2>5
  <2> QED BY <2>6 DEF B
<1>11. ASSUME NEW c \in Keys PROVE Count(trades', Entry(c)) <= Count(held, Entry(c))
  <2> DEFINE B == Entry(c)
  <2>1. Count(trades', B) = Count(Select(held, R), B) BY <1>4
  <2> HIDE DEF B, R
  <2>2. /\ Count(Select(held, X), B) \in Nat /\ Count(Select(held, R), B) \in Nat
        /\ Count(held, B) = Count(Select(held, X), B) + Count(Select(held, R), B)
    BY <1>9
  <2>3. Count(trades', B) <= Count(held, B) BY <2>1, <2>2
  <2> QED BY <2>3 DEF B
<1> QED BY <1>4, <1>7, <1>8, <1>10, <1>11

-----------------------------------------------------------------------------
\* The step of a bar.
LEMMA Grows ==
  ASSUME NEW i \in Int, NEW T \in SUBSET todo, bar \in Int, bar <= i
  PROVE  /\ Watching(todo, bar) \subseteq Watching(T, i)
         /\ Pending(todo, bar) \subseteq Pending(T, i)
         /\ Running(bar) \subseteq Running(i)
<1>1. ASSUME NEW x \in Sniper, x.at <= bar PROVE x.at <= i
  <2>1. x.at \in Int BY DEF Sniper
  <2> QED BY <1>1, <2>1
<1>2. ASSUME NEW x \in Layer, x.at <= bar PROVE x.at <= i
  <2>1. x.at \in Int BY DEF Layer
  <2> QED BY <1>2, <2>1
<1>3. ASSUME NEW x \in Trade, x.bar <= bar PROVE x.bar <= i
  <2>1. x.bar \in Int BY DEF Trade
  <2> QED BY <1>3, <2>1
<1> QED BY <1>1, <1>2, <1>3 DEF Watching, Pending, Running

LEMMA NextBrickType ==
  ASSUME ConstantsAssumption, NEW close \in Int,
         NEW last \in [dir : {-1, 0, 1}, close : Int, streak : 0..(MinBricks + 1)]
  PROVE  NextBrick(last, close) \in [dir : {-1, 0, 1}, close : Int, streak : 0..(MinBricks + 1)]
<1>1. MinBricks \in Nat /\ Brick \in Nat BY DEF ConstantsAssumption
<1>2. last.close \in Int /\ last.streak \in 0..(MinBricks + 1) OBVIOUS
<1> DEFINE dir == IF close >= last.close + Brick THEN 1
                  ELSE IF close <= last.close - Brick THEN -1 ELSE 0
           streak == IF last.dir # dir THEN 1
                     ELSE IF last.streak < MinBricks THEN last.streak + 1 ELSE last.streak
<1>3. dir \in {-1, 0, 1} OBVIOUS
<1>4. streak \in 0..(MinBricks + 1) BY <1>1, <1>2
<1>5. NextBrick(last, close)
      = IF dir = 0 THEN last ELSE [dir |-> dir, close |-> last.close + dir * Brick, streak |-> streak]
  BY DEF NextBrick
<1> HIDE DEF dir, streak
<1>6. last.close + dir * Brick \in Int BY <1>1, <1>2, <1>3
<1> QED BY <1>3, <1>4, <1>5, <1>6

\* The lists in the course of a bar.
Watched(signals) == snipers \o Intercepted(signals, bar + 1)
Waiting(signals, sizes) == layers \o Ladder(signals, sizes, bar + 1)
Queued(signals, calm) == Orders(Watched(signals), bar + 1, calm)
Opens(b, signals, calm, thesis, sizes) ==
  Open(Waiting(signals, sizes), Queued(signals, calm), b, bar + 1, thesis)
Held(b, signals, calm, thesis, sizes) ==
  Softened(Opens(b, signals, calm, thesis, sizes), bar + 1, Base(b), NextBrick(Base(b), b.close))

LEMMA BarParts ==
  ASSUME NEW b, NEW signals, NEW calm, NEW thesis, NEW sizes, NextBar(b, signals, calm, thesis, sizes)
  PROVE  /\ ~ended /\ ended' = ended /\ skipped' = skipped /\ bar < MaxBars /\ bar' = bar + 1 /\ price' = b.close
         /\ renko' = NextBrick(Base(b), b.close) /\ todo' = Left(signals)
         /\ Walk(Watched(signals), Intercepted(signals, bar + 1), bar + 1, calm)
         /\ layers' = Pended(Waiting(signals, sizes), b, bar + 1)
         /\ Emit(Opens(b, signals, calm, thesis, sizes), Queued(signals, calm), bar + 1)
         /\ Leave(Held(b, signals, calm, thesis, sizes), b, bar + 1)
BY DEF NextBar, Advance, Watched, Waiting, Queued, Opens, Held, Pended, Left

\* What the lists consist of, with the signals of a bar and
LEMMA SignalTypes ==
  ASSUME ConstantsAssumption, Typed, NEW signals \in Arrivals, bar < MaxBars
  PROVE  LET i == bar + 1
             T == Left(signals)
         IN /\ i \in 1..MaxBars /\ T \in SUBSET todo /\ T \in SUBSET Zones
            /\ signals \in Seq(Zones) /\ \A k \in DOMAIN signals : signals[k] \notin T /\ signals[k] \in todo
            /\ snipers \in Seq(Watching(T, i)) /\ layers \in Seq(Pending(T, i))
            /\ trades \in Seq(Running(i)) /\ inverse \in Seq(Waits(i, skipped))
            /\ Intercepted(signals, i) \in Seq(Watching(T, i))
            /\ Watched(signals) \in Seq(Watching(T, i))
<1> DEFINE i == bar + 1
           T == Left(signals)
<1>1. MaxBars \in Nat /\ bar \in 0..MaxBars /\ todo \subseteq Zones
  BY DEF Typed, ConstantsAssumption
<1>2. i \in 1..MaxBars /\ bar \in Int /\ bar <= i /\ i \in Int BY <1>1
<1>3. signals \in Seq(todo) BY ArrivalsType
<1>4. T \in SUBSET todo /\ T \in SUBSET Zones BY <1>1 DEF Left
<1>5. signals \in Seq(Zones) BY <1>1, <1>3, SeqMonotonic
<1>6. \A k \in DOMAIN signals : signals[k] \notin T /\ signals[k] \in todo
  <2>1. \A k \in DOMAIN signals : signals[k] \in todo BY <1>3, LenProperties, ElementOfSeq
  <2> QED BY <2>1 DEF Left
<1> HIDE DEF i, T
<1>7. /\ snipers \in Seq(Watching(T, i)) /\ layers \in Seq(Pending(T, i))
      /\ trades \in Seq(Running(i)) /\ inverse \in Seq(Waits(i, skipped))
  <2>1. /\ Watching(todo, bar) \subseteq Watching(T, i) /\ Pending(todo, bar) \subseteq Pending(T, i)
        /\ Running(bar) \subseteq Running(i)
    BY <1>2, <1>4, Grows
  <2>2. /\ snipers \in Seq(Watching(todo, bar)) /\ layers \in Seq(Pending(todo, bar))
        /\ trades \in Seq(Running(bar)) /\ inverse \in Seq(Waits(i, skipped))
    BY DEF Typed, i
  <2>3. snipers \in Seq(Watching(T, i)) BY <2>1, <2>2, SeqMonotonic
  <2>4. layers \in Seq(Pending(T, i)) BY <2>1, <2>2, SeqMonotonic
  <2>5. trades \in Seq(Running(i)) BY <2>1, <2>2, SeqMonotonic
  <2> QED BY <2>2, <2>3, <2>4, <2>5
<1>8. Intercepted(signals, i) \in Seq(Watching(T, i)) BY <1>2, <1>5, <1>6, InterceptedType
<1>9. Watched(signals) \in Seq(Watching(T, i)) BY <1>7, <1>8, ConcatProperties DEF Watched, i
<1> QED BY <1>2, <1>4, <1>5, <1>6, <1>7, <1>8, <1>9 DEF i, T

\* in the course of the bar.
LEMMA BarTypes ==
  ASSUME ConstantsAssumption, Typed, NEW b \in Bars, NEW signals \in Arrivals, NEW calm, NEW thesis,
         NEW sizes \in [1..NumLayers -> Sizes], bar < MaxBars
  PROVE  LET i == bar + 1
             T == Left(signals)
         IN /\ i \in 1..MaxBars /\ T \in SUBSET todo /\ T \in SUBSET Zones
            /\ signals \in Seq(Zones) /\ \A k \in DOMAIN signals : signals[k] \notin T /\ signals[k] \in todo
            /\ Intercepted(signals, i) \in Seq(Watching(T, i))
            /\ Watched(signals) \in Seq(Watching(T, i))
            /\ Ladder(signals, sizes, i) \in Seq(Pending(T, i))
            /\ Waiting(signals, sizes) \in Seq(Pending(T, i))
            /\ Queued(signals, calm) = inverse \o Fired(Watched(signals), i, calm)
            /\ Queued(signals, calm) \in Seq(Waits(i, skipped) \cup Ordered(i + 1))
            /\ Opens(b, signals, calm, thesis, sizes) \in Seq(Running(i))
            /\ Held(b, signals, calm, thesis, sizes) \in Seq(Running(i))
<1> DEFINE i == bar + 1
           T == Left(signals)
<1>2. i \in 1..MaxBars /\ T \in SUBSET todo /\ T \in SUBSET Zones BY SignalTypes
<1>5. signals \in Seq(Zones) BY SignalTypes
<1>6. \A k \in DOMAIN signals : signals[k] \notin T /\ signals[k] \in todo BY SignalTypes
<1>7. /\ layers \in Seq(Pending(T, i)) /\ trades \in Seq(Running(i)) /\ inverse \in Seq(Waits(i, skipped))
  BY SignalTypes
<1>9. Intercepted(signals, i) \in Seq(Watching(T, i)) /\ Watched(signals) \in Seq(Watching(T, i))
  BY SignalTypes
<1> HIDE DEF i, T
<1>10. Ladder(signals, sizes, i) \in Seq(Pending(T, i)) BY <1>2, <1>5, <1>6, LadderType
<1>11. Waiting(signals, sizes) \in Seq(Pending(T, i)) BY <1>7, <1>10, ConcatProperties DEF Waiting, i
<1>12. Queued(signals, calm) = inverse \o Fired(Watched(signals), i, calm)
  BY DEF Queued, Orders, Fired, i
<1>13. Queued(signals, calm) \in Seq(Waits(i, skipped) \cup Ordered(i + 1))
  <2>1. Fired(Watched(signals), i, calm) \in Seq({x \in Ordered(i + 1) : x.by = "sniper"})
    BY <1>2, <1>9, FiredType
  <2>2. Fired(Watched(signals), i, calm) \in Seq(Waits(i, skipped) \cup Ordered(i + 1))
    BY <2>1, SeqMonotonic
  <2>3. inverse \in Seq(Waits(i, skipped) \cup Ordered(i + 1)) BY <1>7, SeqMonotonic
  <2> QED BY <1>12, <2>2, <2>3, ConcatProperties
<1>14. Opens(b, signals, calm, thesis, sizes) \in Seq(Running(i))
  <2> DEFINE filled == Filled(Waiting(signals, sizes), b, i, thesis)
             entered == Entered(Queued(signals, calm), b, i, thesis)
  <2>1. filled \in Seq({x \in Running(i) : x.by = "ladder"}) BY <1>2, <1>11, FilledType
  <2>2. entered \in Seq({x \in Running(i) : x.by # "ladder"}) BY <1>2, <1>13, EnteredType
  <2>3. Opens(b, signals, calm, thesis, sizes) = (trades \o filled) \o entered
    BY OpenParts DEF Opens, i
  <2> HIDE DEF filled, entered
  <2>4. filled \in Seq(Running(i)) BY <2>1, SeqMonotonic
  <2>5. entered \in Seq(Running(i)) BY <2>2, SeqMonotonic
  <2>6. trades \o filled \in Seq(Running(i)) BY <1>7, <2>4, ConcatProperties
  <2> QED BY <2>3, <2>5, <2>6, ConcatProperties
<1>15. Held(b, signals, calm, thesis, sizes) \in Seq(Running(i))
  BY <1>2, <1>14, SoftenedType DEF Held, i
<1> QED BY <1>2, <1>5, <1>6, <1>9, <1>10, <1>11, <1>12, <1>13, <1>14, <1>15 DEF i, T

LEMMA EmitParts ==
  ASSUME NEW open, NEW orders, NEW i, Emit(open, orders, i)
  PROVE  /\ inverse' = Rest(orders, i) \o Emitted(open, i)
         /\ used' = [z \in Zones |-> used[z] + Cardinality(On1(open, z, i))]
<1>1. \A z \in Zones : {k \in {l \in DOMAIN open : EmitsInverse(open, l, i)} : open[k].zone = z}
                       = On1(open, z, i)
  BY DEF On1, Emitting
<1> QED BY <1>1 DEF Emit, Rest, Emitted, Emitting

LEMMA TypedBar ==
  ASSUME ConstantsAssumption, Typed, SnipersSettle, NEW b \in Bars, NEW signals \in Arrivals, NEW calm,
         NEW thesis, NEW sizes \in [1..NumLayers -> Sizes], NextBar(b, signals, calm, thesis, sizes)
  PROVE  Typed' /\ SnipersSettle'
<1> DEFINE i == bar + 1
           T == Left(signals)
           open == Opens(b, signals, calm, thesis, sizes)
           orders == Queued(signals, calm)
<1>1. /\ bar < MaxBars /\ bar' = i /\ price' = b.close /\ ended' = ended /\ skipped' = skipped
      /\ renko' = NextBrick(Base(b), b.close) /\ todo' = T
      /\ Walk(Watched(signals), Intercepted(signals, i), i, calm)
      /\ layers' = Pended(Waiting(signals, sizes), b, i)
      /\ Emit(open, orders, i)
      /\ Leave(Held(b, signals, calm, thesis, sizes), b, i)
  BY BarParts
<1>2. /\ i \in 1..MaxBars /\ T \in SUBSET Zones
      /\ Intercepted(signals, i) \in Seq(Watching(T, i))
      /\ Watched(signals) \in Seq(Watching(T, i))
      /\ Waiting(signals, sizes) \in Seq(Pending(T, i))
      /\ orders \in Seq(Waits(i, skipped) \cup Ordered(i + 1))
      /\ open \in Seq(Running(i))
      /\ Held(b, signals, calm, thesis, sizes) \in Seq(Running(i))
  BY <1>1, BarTypes
<1> HIDE DEF i, T, open, orders
<1>3. b.close \in Int /\ MaxBars \in Nat /\ MinBricks \in Nat /\ MaxPer \in Nat
  BY DEF ConstantsAssumption
<1>4. renko' \in [dir : {-1, 0, 1}, close : Int, streak : 0..(MinBricks + 1)]
  <2>1. Base(b) \in [dir : {-1, 0, 1}, close : Int, streak : 0..(MinBricks + 1)]
    BY <1>3 DEF Base, Typed
  <2> QED BY <1>1, <1>3, <2>1, NextBrickType
<1>5. /\ snipers' \in Seq(Watching(T, i))
      /\ fate' \in [submitted : Nat, triggered : Nat, cancelled : Nat, expired : Nat]
      /\ fate'.submitted = fate'.triggered + fate'.cancelled + fate'.expired + Len(snipers')
      /\ MaxAge > 0 => \A k \in DOMAIN snipers' : i - snipers'[k].at <= MaxAge
  <2>1. Len(Intercepted(signals, i)) \in Nat BY <1>2, LenProperties
  <2>2. Len(Watched(signals)) = Len(snipers) + Len(Intercepted(signals, i))
    <3>1. snipers \in Seq(Watching(todo, bar)) BY DEF Typed
    <3>2. T \in SUBSET todo /\ bar \in Int /\ bar <= i /\ i \in Int
      <4>1. T \in SUBSET todo BY DEF T, Left
      <4>2. bar \in 0..MaxBars BY DEF Typed
      <4> QED BY <1>3, <4>1, <4>2 DEF i
    <3>3. snipers \in Seq(Watching(T, i)) BY <3>1, <3>2, Grows, SeqMonotonic
    <3>4. Watched(signals) = snipers \o Intercepted(signals, i) BY DEF Watched, i
    <3> QED BY <1>2, <3>3, <3>4, ConcatProperties
  <2> QED BY <1>1, <1>2, <2>1, <2>2, WalkSettles
<1>6. layers' \in Seq(Pending(T, i))
  <2>1. Pended(Waiting(signals, sizes), b, i) \in Seq(Pending(T, i))
    BY <1>2, FilledType
  <2> QED BY <1>1, <2>1
<1>7. inverse' \in Seq(Waits(i + 1, skipped))
  <2>1. Rest(orders, i) \in Seq(Waits(i + 1, skipped)) BY <1>2, EnteredType
  <2>2. Emitted(open, i) \in Seq({x \in Ordered(i + 1) : x.by = "inv"}) BY <1>2, EmittedType
  <2>3. Emitted(open, i) \in Seq(Waits(i + 1, skipped))
    <3>1. {x \in Ordered(i + 1) : x.by = "inv"} \subseteq Waits(i + 1, skipped) BY <1>2, OrdersWait
    <3> QED BY <2>2, <3>1, SeqMonotonic
  <2>4. inverse' = Rest(orders, i) \o Emitted(open, i) BY <1>1, EmitParts
  <2> QED BY <2>1, <2>3, <2>4, ConcatProperties
<1>8. used' \in [Zones -> 0..MaxPer]
  <2>1. used' = [z \in Zones |-> used[z] + Cardinality(On1(open, z, i))] BY <1>1, EmitParts
  <2>2. ASSUME NEW z \in Zones PROVE used[z] + Cardinality(On1(open, z, i)) \in 0..MaxPer
    <3>1. used[z] \in 0..MaxPer BY DEF Typed
    <3>2. Cardinality(On1(open, z, i)) \in {0, 1} /\ (Cardinality(On1(open, z, i)) = 1 => used[z] < MaxPer)
      BY <1>2, EmittedType
    <3> QED BY <1>3, <3>1, <3>2
  <2> QED BY <2>1, <2>2
<1>9. trades' \in Seq(Running(i)) /\ closed' \in Seq(Done) BY <1>1, <1>2, LeaveType
<1>10. bar' \in 0..MaxBars /\ price' \in Int /\ ended' \in BOOLEAN /\ todo' \subseteq Zones
  BY <1>1, <1>2, <1>3 DEF Typed
<1>11. Typed' BY <1>1, <1>4, <1>5, <1>6, <1>7, <1>8, <1>9, <1>10 DEF Typed
<1>12. SnipersSettle' BY <1>1, <1>5 DEF SnipersSettle
<1> QED BY <1>11, <1>12

-----------------------------------------------------------------------------
\* Counting.
LEMMA OnIsCount ==
  ASSUME NEW s \in Seq(Order \cup Trade \cup ClosedTrade), NEW z, NEW by
  PROVE  On(s, z, by) = Count(s, Entries(z, by))
<1>1. \A k \in DOMAIN s : s[k] \in Order \cup Trade \cup ClosedTrade BY LenProperties, ElementOfSeq
<1>2. {k \in DOMAIN s : s[k].zone = z /\ s[k].by = by} = {k \in DOMAIN s : s[k] \in Entries(z, by)}
  BY <1>1 DEF Entries
<1> QED BY <1>2 DEF On, Count

LEMMA OnsAreCounts ==
  ASSUME NEW i, NEW j, NEW orders \in Seq(Waits(i, skipped)), NEW done \in Seq(Done), NEW open \in Seq(Running(j)),
         NEW z, NEW by
  PROVE  /\ On(orders, z, by) = Count(orders, Entries(z, by)) /\ Count(orders, Entries(z, by)) \in Nat
         /\ On(done, z, by) = Count(done, Entries(z, by)) /\ Count(done, Entries(z, by)) \in Nat
         /\ On(open, z, by) = Count(open, Entries(z, by)) /\ Count(open, Entries(z, by)) \in Nat
<1> DEFINE any == Order \cup Trade \cup ClosedTrade
<1>1. Waits(i, skipped) \subseteq any /\ Done \subseteq any /\ Running(j) \subseteq any
  BY DEF Waits, Done, Running
<1>2. orders \in Seq(any) BY <1>1, SeqMonotonic
<1>3. done \in Seq(any) BY <1>1, SeqMonotonic
<1>4. open \in Seq(any) BY <1>1, SeqMonotonic
<1> QED BY <1>2, <1>3, <1>4, OnIsCount, CountType

\* The sniper that a bar's first signal starts is of a zone that was still to come.
LEMMA InterceptedCount ==
  ASSUME ConstantsAssumption, Typed, NEW signals \in Arrivals, bar < MaxBars, NEW z \in Zones
  PROVE  LET n == Count(Intercepted(signals, bar + 1), Snipers(z))
         IN n \in {0, 1} /\ (n = 1 => z \in todo /\ z \notin Left(signals))
<1> DEFINE s == Intercepted(signals, bar + 1)
           n == Count(s, Snipers(z))
<1>1. /\ bar + 1 \in 1..MaxBars /\ signals \in Seq(Zones)
      /\ \A k \in DOMAIN signals : signals[k] \notin Left(signals) /\ signals[k] \in todo
  <2>1. bar \in 0..MaxBars /\ MaxBars \in Nat /\ todo \subseteq Zones
    BY DEF Typed, ConstantsAssumption
  <2>2. signals \in Seq(todo) BY ArrivalsType
  <2>3. signals \in Seq(Zones) BY <2>1, <2>2, SeqMonotonic
  <2>4. \A k \in DOMAIN signals : signals[k] \in todo BY <2>2, LenProperties, ElementOfSeq
  <2> QED BY <2>1, <2>3, <2>4 DEF Left
<1>2. /\ s \in Seq(Watching(Left(signals), bar + 1)) /\ Len(s) <= 1
      /\ \A k \in DOMAIN s : \E j \in DOMAIN signals : s[k].zone = signals[j]
  BY <1>1, InterceptedType
<1> HIDE DEF s
<1>3. n \in Nat /\ n <= Len(s) /\ Len(s) \in Nat BY <1>2, CountType, LenProperties
<1>4. ASSUME n # 0 PROVE z \in todo /\ z \notin Left(signals)
  <2>1. PICK k \in DOMAIN s : s[k] \in Snipers(z) BY <1>4, CountNone
  <2>2. s[k].zone = z BY <2>1 DEF Snipers
  <2> QED BY <1>1, <1>2, <2>2
<1> HIDE DEF n
<1>5. n \in {0, 1} BY <1>2, <1>3
<1> QED BY <1>4, <1>5 DEF s, n

\* Orders become entries or rest; trades stay open or are closed.
Flows(ordered, fired, entered, rest) == entered + rest = ordered + fired
Exchanges(open, done, entered, openNext, doneNext) == openNext + doneNext = open + entered + done
Balanced(ordered, done, open, fired, emitted, rest, doneNext, openNext) ==
  (rest + emitted) + doneNext + openNext = ordered + done + open + fired + emitted

LEMMA FlowsBalance ==
  ASSUME NEW ordered \in Nat, NEW fired \in Nat, NEW entered \in Nat, NEW rest \in Nat,
         NEW open \in Nat, NEW done \in Nat, NEW openNext \in Nat, NEW doneNext \in Nat,
         NEW emitted \in Nat, Flows(ordered, fired, entered, rest),
         Exchanges(open, done, entered, openNext, doneNext)
  PROVE  Balanced(ordered, done, open, fired, emitted, rest, doneNext, openNext)
BY DEF Balanced, Flows, Exchanges

\* What there is of a zone's entries of a kind after a bar.
LEMMA MadeBar ==
  ASSUME ConstantsAssumption, Typed, NEW b \in Bars, NEW signals \in Arrivals, NEW calm, NEW thesis,
         NEW sizes \in [1..NumLayers -> Sizes], NextBar(b, signals, calm, thesis, sizes), Typed',
         NEW z \in Zones, NEW by \in {"sniper", "inv"}
  PROVE  LET i == bar + 1
             fired == Count(Fired(Watched(signals), i, calm), Entries(z, by))
             emitted == Count(Emitted(Opens(b, signals, calm, thesis, sizes), i), Entries(z, by))
         IN fired \in Nat /\ emitted \in Nat /\ Made(z, by) \in Nat
            /\ Made(z, by)' = Made(z, by) + fired + emitted
<1> DEFINE i == bar + 1
           B == Entries(z, by)
           open == Opens(b, signals, calm, thesis, sizes)
           orders == Queued(signals, calm)
           held == Held(b, signals, calm, thesis, sizes)
           pending == Waiting(signals, sizes)
           filled == Filled(pending, b, i, thesis)
           entered == Entered(orders, b, i, thesis)
           rest == Rest(orders, i)
           fired == Fired(Watched(signals), i, calm)
           emitted == Emitted(open, i)
<1>1. /\ ~ended /\ ended' = ended /\ bar < MaxBars
      /\ Emit(open, orders, i) /\ Leave(held, b, i)
  BY BarParts
<1>2. /\ i \in 1..MaxBars
      /\ Watched(signals) \in Seq(Watching(Left(signals), i))
      /\ pending \in Seq(Pending(Left(signals), i))
      /\ orders = inverse \o fired
      /\ orders \in Seq(Waits(i, skipped) \cup Ordered(i + 1))
      /\ open \in Seq(Running(i))
      /\ held \in Seq(Running(i))
  BY <1>1, BarTypes
<1>3. open = (trades \o filled) \o entered BY OpenParts DEF Opens, i
<1>4. held = Softened(open, i, Base(b), NextBrick(Base(b), b.close)) BY DEF Held, i
<1>5. inverse \in Seq(Waits(i, skipped)) /\ trades \in Seq(Running(bar)) /\ closed \in Seq(Done)
  BY DEF Typed, i
<1>6. /\ inverse' = rest \o emitted
      /\ inverse' \in Seq(Waits(i + 1, skipped)) /\ trades' \in Seq(Running(i)) /\ closed' \in Seq(Done)
  <2>1. inverse' = rest \o emitted BY <1>1, EmitParts
  <2>2. bar' = i /\ skipped' = skipped BY BarParts
  <2> QED BY <2>1, <2>2 DEF Typed
<1> HIDE DEF i, B, open, orders, held, pending, filled, entered, rest, fired, emitted
<1>7. /\ Made(z, by) = Count(inverse, B) + Count(closed, B) + Count(trades, B)
      /\ Count(inverse, B) \in Nat /\ Count(closed, B) \in Nat /\ Count(trades, B) \in Nat
  <2>1. Made(z, by) = On(inverse, z, by) + On(closed, z, by) + On(trades, z, by) BY <1>1 DEF Made
  <2> QED BY <1>5, <2>1, OnsAreCounts DEF B
<1>8. /\ Made(z, by)' = Count(inverse', B) + Count(closed', B) + Count(trades', B)
      /\ Count(inverse', B) \in Nat /\ Count(closed', B) \in Nat /\ Count(trades', B) \in Nat
  <2>1. Made(z, by)' = On(inverse', z, by) + On(closed', z, by) + On(trades', z, by)
    BY <1>1 DEF Made
  <2>2. inverse' \in Seq(Waits(i + 1, skipped)) /\ trades' \in Seq(Running(i)) /\ closed' \in Seq(Done)
    BY <1>6
  <2>3. /\ On(inverse', z, by) = Count(inverse', B) /\ Count(inverse', B) \in Nat
        /\ On(closed', z, by) = Count(closed', B) /\ Count(closed', B) \in Nat
        /\ On(trades', z, by) = Count(trades', B) /\ Count(trades', B) \in Nat
    BY <2>2, OnsAreCounts DEF B
  <2> QED BY <2>1, <2>3
<1>9. fired \in Seq({x \in Ordered(i + 1) : x.by = "sniper"}) BY <1>2, FiredType DEF fired
<1>10. Count(orders, B) = Count(inverse, B) + Count(fired, B) /\ Count(fired, B) \in Nat
  <2>1. inverse \in Seq(Waits(i, skipped) \cup Ordered(i + 1)) BY <1>5, SeqMonotonic
  <2>2. fired \in Seq(Waits(i, skipped) \cup Ordered(i + 1)) BY <1>9, SeqMonotonic
  <2> QED BY <1>2, <2>1, <2>2, CountConcat, CountType
<1>11. /\ rest \in Seq(Waits(i + 1, skipped)) /\ entered \in Seq(Running(i))
       /\ Count(entered, B) + Count(rest, B) = Count(orders, B)
       /\ Count(entered, B) \in Nat /\ Count(rest, B) \in Nat
  <2>1. rest \in Seq(Waits(i + 1, skipped)) /\ entered \in Seq({x \in Running(i) : x.by # "ladder"})
    BY <1>2, EnteredType DEF rest, entered
  <2>2. Adds(Count(entered, B), Count(rest, B), Count(orders, B))
    BY <1>2, EnteredType DEF rest, entered, B
  <2>3. entered \in Seq(Running(i)) BY <2>1, SeqMonotonic
  <2>4. Count(entered, B) \in Nat BY <2>3, CountType
  <2>5. Count(rest, B) \in Nat BY <2>1, CountType
  <2> QED BY <2>1, <2>2, <2>3, <2>4, <2>5 DEF Adds
<1>12. filled \in Seq(Running(i)) /\ Count(filled, B) = 0
  <2>1. filled \in Seq({x \in Running(i) : x.by = "ladder"}) BY <1>2, FilledType DEF filled
  <2>2. filled \in Seq(Running(i)) BY <2>1, SeqMonotonic
  <2>3. \A k \in DOMAIN filled : filled[k].by = "ladder" BY <2>1, LenProperties, ElementOfSeq
  <2>4. \A k \in DOMAIN filled : filled[k] \notin B BY <2>3 DEF B, Entries
  <2> QED BY <2>2, <2>4, CountNone
<1>13. Count(open, B) = Count(trades, B) + Count(entered, B)
  <2>1. trades \in Seq(Running(i))
    <3>1. bar \in 0..MaxBars BY DEF Typed
    <3>2. Running(bar) \subseteq Running(i)
      <4>1. i \in Int /\ todo \in SUBSET todo /\ bar \in Int /\ bar <= i BY <3>1 DEF i
      <4> QED BY <4>1, Grows
    <3> QED BY <1>5, <3>2, SeqMonotonic
  <2>2. trades \o filled \in Seq(Running(i)) BY <1>12, <2>1, ConcatProperties
  <2>3. Count(trades \o filled, B) = Count(trades, B) + Count(filled, B) BY <1>12, <2>1, CountConcat
  <2>4. Count(open, B) = Count(trades \o filled, B) + Count(entered, B)
    <3>1. entered \in Seq(Running(i)) BY <1>11
    <3> DEFINE first == trades \o filled
    <3> HIDE DEF first
    <3>2. first \in Seq(Running(i)) /\ open = first \o entered BY <1>3, <2>2 DEF first
    <3>3. Count(open, B) = Count(first, B) + Count(entered, B) BY <3>1, <3>2, CountConcat
    <3> QED BY <3>3 DEF first
  <2> QED BY <1>7, <1>11, <1>12, <2>3, <2>4
<1>14. Count(held, B) = Count(open, B) BY <1>2, <1>4, SoftenedCount DEF B
<1>15. Count(trades', B) + Count(closed', B) = Count(held, B) + Count(closed, B)
  BY <1>1, <1>2, LeaveType DEF B
<1>16. emitted \in Seq(Waits(i + 1, skipped))
  <2>1. emitted \in Seq({x \in Ordered(i + 1) : x.by = "inv"}) BY <1>2, EmittedType DEF emitted
  <2>2. {x \in Ordered(i + 1) : x.by = "inv"} \subseteq Waits(i + 1, skipped) BY <1>2, OrdersWait
  <2> QED BY <2>1, <2>2, SeqMonotonic
<1>17. Count(inverse', B) = Count(rest, B) + Count(emitted, B) /\ Count(emitted, B) \in Nat
  <2>1. inverse' = rest \o emitted BY <1>6
  <2>2. rest \in Seq(Waits(i + 1, skipped)) BY <1>11
  <2> QED BY <1>16, <2>1, <2>2, CountConcat, CountType
<1>18. /\ Flows(Count(inverse, B), Count(fired, B), Count(entered, B), Count(rest, B))
       /\ Exchanges(Count(trades, B), Count(closed, B), Count(entered, B), Count(trades', B), Count(closed', B))
  BY <1>10, <1>11, <1>13, <1>14, <1>15 DEF Flows, Exchanges
<1>19. Balanced(Count(inverse, B), Count(closed, B), Count(trades, B), Count(fired, B),
                Count(emitted, B), Count(rest, B), Count(closed', B), Count(trades', B))
  BY <1>7, <1>8, <1>10, <1>11, <1>17, <1>18, FlowsBalance
<1>20. /\ Made(z, by) \in Nat
       /\ Made(z, by)' = Made(z, by) + Count(fired, B) + Count(emitted, B)
  BY <1>7, <1>8, <1>17, <1>19 DEF Balanced
<1> QED BY <1>10, <1>17, <1>20 DEF fired, emitted, B, i, open

\* No zone gets a second sniper, and the inverse trades of a zone are counted.
SniperRoom(n, made, z, T) == n + made <= (IF z \in T THEN 0 ELSE 1)

LEMMA SniperRoomStep ==
  ASSUME NEW z, NEW T, NEW U \in SUBSET T, NEW n \in Nat, NEW made \in Nat, SniperRoom(n, made, z, T),
         NEW new \in {0, 1}, new = 1 => z \in T /\ z \notin U,
         NEW fired \in Nat, NEW rest \in Nat, fired + rest <= n + new, NEW next, next = made + fired
  PROVE  SniperRoom(rest, next, z, U)
BY DEF SniperRoom

LEMMA CountedBar ==
  ASSUME ConstantsAssumption, Typed, Counted, NEW b \in Bars, NEW signals \in Arrivals, NEW calm,
         NEW thesis, NEW sizes \in [1..NumLayers -> Sizes],
         NextBar(b, signals, calm, thesis, sizes), Typed'
  PROVE  Counted'
<1> DEFINE i == bar + 1
           watched == Watched(signals)
           new == Intercepted(signals, i)
           open == Opens(b, signals, calm, thesis, sizes)
           fired == Fired(watched, i, calm)
           emitted == Emitted(open, i)
<1>1. /\ bar < MaxBars /\ todo' = Left(signals) /\ bar' = i
      /\ Walk(watched, new, i, calm)
      /\ Emit(open, Queued(signals, calm), i)
  BY BarParts
<1>2. /\ i \in 1..MaxBars /\ Left(signals) \in SUBSET todo
      /\ new \in Seq(Watching(Left(signals), i)) /\ watched \in Seq(Watching(Left(signals), i))
      /\ open \in Seq(Running(i))
  BY <1>1, BarTypes
<1>3. watched = snipers \o new BY DEF Watched
<1>4. snipers \in Seq(Watching(Left(signals), i))
  <2>1. snipers \in Seq(Watching(todo, bar)) /\ bar \in 0..MaxBars BY DEF Typed
  <2>2. bar \in Int /\ i \in Int /\ bar <= i BY <2>1
  <2>3. Watching(todo, bar) \subseteq Watching(Left(signals), i)
    <3> HIDE DEF i
    <3> QED BY <1>2, <2>2, Grows
  <2> QED BY <2>1, <2>3, SeqMonotonic
<1>5. snipers' = Select(watched, With(watched, "waits", i, calm)) BY <1>1 DEF Walk
<1>6. used' = [z \in Zones |-> used[z] + Cardinality(On1(open, z, i))] BY <1>1, EmitParts
<1>7. /\ emitted \in Seq({x \in Ordered(i + 1) : x.by = "inv"})
      /\ fired \in Seq({x \in Ordered(i + 1) : x.by = "sniper"})
  BY <1>2, EmittedType, FiredType
<1>8. ASSUME NEW z \in Zones, NEW by \in {"sniper", "inv"}
      PROVE  /\ Count(fired, Entries(z, by)) \in Nat /\ Count(emitted, Entries(z, by)) \in Nat
             /\ Made(z, by) \in Nat
             /\ Made(z, by)' = Made(z, by) + Count(fired, Entries(z, by)) + Count(emitted, Entries(z, by))
  BY MadeBar
<1> HIDE DEF i, watched, new, open, fired, emitted
<1>9. ASSUME NEW z \in Zones PROVE SniperRoom(Count(snipers', Snipers(z)), Made(z, "sniper")', z, todo')
  <2> DEFINE n == Count(snipers, Snipers(z))
             m == Count(new, Snipers(z))
             f == Count(fired, Entries(z, "sniper"))
             r == Count(snipers', Snipers(z))
  <2>1. Count(emitted, Entries(z, "sniper")) = 0
    <3>1. \A k \in DOMAIN emitted : emitted[k].by = "inv" BY <1>7, LenProperties, ElementOfSeq
    <3>2. \A k \in DOMAIN emitted : emitted[k] \notin Entries(z, "sniper") BY <3>1 DEF Entries
    <3> QED BY <3>2, CountNone
  <2>2. f \in Nat /\ Made(z, "sniper") \in Nat /\ Made(z, "sniper")' = Made(z, "sniper") + f
    BY <1>8, <2>1
  <2>3. n \in Nat BY <1>4, CountType
  <2>4. r \in Nat
    <3>1. snipers' \in Seq(Watching(todo', bar')) BY DEF Typed
    <3> QED BY <3>1, CountType
  <2>5. Count(watched, Snipers(z)) = n + m BY <1>2, <1>3, <1>4, CountConcat
  <2>6. f + r <= Count(watched, Snipers(z))
    <3>1. /\ fired = Fired(watched, i, calm)
          /\ snipers' = Select(watched, With(watched, "waits", i, calm))
      BY <1>5 DEF fired
    <3> QED BY <1>2, <3>1, FiredType
  <2>7. m \in {0, 1} /\ (m = 1 => z \in todo /\ z \notin Left(signals))
    BY <1>1, InterceptedCount DEF new, i
  <2>8. SniperRoom(n, Made(z, "sniper"), z, todo) BY DEF Counted, SniperRoom
  <2>9. todo' \in SUBSET todo /\ (m = 1 => z \in todo /\ z \notin todo') BY <1>1, <1>2, <2>7
  <2> HIDE DEF n, m, f, r
  <2>10. f + r <= n + m BY <2>5, <2>6
  <2>11. SniperRoom(r, Made(z, "sniper")', z, todo')
    BY <2>2, <2>3, <2>4, <2>7, <2>8, <2>9, <2>10, SniperRoomStep
  <2> QED BY <2>11 DEF r
<1>10. ASSUME NEW z \in Zones PROVE Made(z, "inv")' = used'[z]
  <2>1. Count(fired, Entries(z, "inv")) = 0
    <3>1. \A k \in DOMAIN fired : fired[k].by = "sniper" BY <1>7, LenProperties, ElementOfSeq
    <3>2. \A k \in DOMAIN fired : fired[k] \notin Entries(z, "inv") BY <3>1 DEF Entries
    <3> QED BY <3>2, CountNone
  <2>2. Count(emitted, Entries(z, "inv")) = Cardinality(On1(open, z, i))
    BY <1>2, EmittedType DEF emitted
  <2>3. Made(z, "inv") = used[z] BY DEF Counted
  <2>4. used'[z] = used[z] + Cardinality(On1(open, z, i)) BY <1>6
  <2> QED BY <1>8, <2>1, <2>2, <2>3, <2>4
<1> QED BY <1>9, <1>10 DEF Counted, SniperRoom

\* An entry is in one place, and a new one is one that is nowhere yet.
Placed(a, o, t) == a + o + t <= 1
New(a, o, t, l, f, e) == l + f + e <= 1 /\ (l + f + e # 0 => a + o + t = 0)

Moves(a, o, t, l, f, e, filled, pended, entered, rest, opened, left, ordered) ==
  /\ a \in Nat /\ o \in Nat /\ t \in Nat /\ l \in Nat /\ f \in Nat /\ e \in Nat
  /\ filled \in Nat /\ pended \in Nat /\ entered \in Nat /\ rest \in Nat /\ left \in Nat
  /\ filled + pended <= a + l /\ entered + rest = o + f
  /\ opened = t + filled + entered /\ left <= opened /\ ordered = rest + e

LEMMA PlacedStep ==
  ASSUME NEW a, NEW o, NEW t, NEW l, NEW f, NEW e, NEW filled, NEW pended, NEW entered, NEW rest,
         NEW opened, NEW left, NEW ordered,
         Moves(a, o, t, l, f, e, filled, pended, entered, rest, opened, left, ordered),
         Placed(a, o, t), New(a, o, t, l, f, e)
  PROVE  Placed(pended, ordered, left) /\ opened <= 1
BY DEF Placed, New, Moves

LEMMA OldPlaces ==
  ASSUME ConstantsAssumption, Typed, NEW c \in Keys
  PROVE  /\ Count(layers, Entry(c)) \in Nat /\ Count(inverse, Entry(c)) \in Nat
         /\ Count(trades, Entry(c)) \in Nat
         /\ Count(layers, Entry(c)) # 0 => c.by = "ladder" /\ c.at <= bar
         /\ Count(inverse, Entry(c)) # 0 => c.by # "ladder" /\ c.at <= bar + 1
         /\ Count(trades, Entry(c)) # 0 => c.at <= bar
<1>1. /\ layers \in Seq(Pending(todo, bar)) /\ inverse \in Seq(Waits(bar + 1, skipped))
      /\ trades \in Seq(Running(bar))
  BY DEF Typed
<1>2. /\ Count(layers, Entry(c)) \in Nat /\ Count(inverse, Entry(c)) \in Nat
      /\ Count(trades, Entry(c)) \in Nat
  BY <1>1, CountType
<1>3. ASSUME Count(layers, Entry(c)) # 0 PROVE c.by = "ladder" /\ c.at <= bar
  <2>1. PICK k \in DOMAIN layers : layers[k] \in Entry(c) BY <1>3, CountNone
  <2>2. layers[k] \in Pending(todo, bar) BY <1>1, LenProperties, ElementOfSeq
  <2> QED BY <2>1, <2>2 DEF Entry, Pending, Layer
<1>4. ASSUME Count(inverse, Entry(c)) # 0 PROVE c.by # "ladder" /\ c.at <= bar + 1
  <2>1. PICK k \in DOMAIN inverse : inverse[k] \in Entry(c) BY <1>4, CountNone
  <2>2. inverse[k] \in Waits(bar + 1, skipped) BY <1>1, LenProperties, ElementOfSeq
  <2> QED BY <2>1, <2>2 DEF Entry, Waits, Order
<1>5. ASSUME Count(trades, Entry(c)) # 0 PROVE c.at <= bar
  <2>1. PICK k \in DOMAIN trades : trades[k] \in Entry(c) BY <1>5, CountNone
  <2>2. trades[k] \in Running(bar) BY <1>1, LenProperties, ElementOfSeq
  <2>3. trades[k].at = c.at BY <2>1 DEF Entry
  <2>4. trades[k].bar <= bar /\ trades[k].bar \in Int /\ trades[k].at \in Int /\ bar \in Int
    BY <2>2 DEF Running, Trade, Typed
  <2>5. trades[k].at <= trades[k].bar BY <2>2, <2>4 DEF Running, OnTime
  <2> QED BY <2>3, <2>4, <2>5
<1> QED BY <1>2, <1>3, <1>4, <1>5

LEMMA NewPlaces ==
  ASSUME ConstantsAssumption, Typed, NEW b \in Bars, NEW signals \in Arrivals, NEW calm,
         NEW thesis, NEW sizes \in [1..NumLayers -> Sizes],
         NextBar(b, signals, calm, thesis, sizes), Typed', Counted', NEW c \in Keys
  PROVE  LET i == bar + 1
             l == Count(Ladder(signals, sizes, i), Entry(c))
             f == Count(Fired(Watched(signals), i, calm), Entry(c))
             e == Count(Emitted(Opens(b, signals, calm, thesis, sizes), i), Entry(c))
         IN /\ l \in {0, 1} /\ f \in {0, 1} /\ e \in {0, 1}
            /\ l # 0 => c.by = "ladder" /\ c.at = i
            /\ f # 0 => c.by = "sniper" /\ c.at = i + 1
            /\ e # 0 => c.by = "inv" /\ c.at = i + 1
<1> DEFINE i == bar + 1
           T == Left(signals)
           ladder == Ladder(signals, sizes, i)
           fired == Fired(Watched(signals), i, calm)
           open == Opens(b, signals, calm, thesis, sizes)
           emitted == Emitted(open, i)
<1>1. bar < MaxBars BY BarParts
<1>2. /\ i \in 1..MaxBars /\ signals \in Seq(Zones) /\ \A k \in DOMAIN signals : signals[k] \notin T
      /\ Watched(signals) \in Seq(Watching(T, i))
      /\ ladder \in Seq(Pending(T, i)) /\ open \in Seq(Running(i))
  BY <1>1, BarTypes
<1>3. OneOfEach(ladder, i) BY <1>2, LadderType
<1>4. /\ fired \in Seq({x \in Ordered(i + 1) : x.by = "sniper"})
      /\ emitted \in Seq({x \in Ordered(i + 1) : x.by = "inv"})
      /\ Count(emitted, Entry(c)) <= 1
  BY <1>2, FiredType, EmittedType
<1>5. /\ Count(ladder, Entry(c)) \in Nat /\ Count(fired, Entry(c)) \in Nat
      /\ Count(emitted, Entry(c)) \in Nat
  BY <1>2, <1>4, CountType
<1>6. ASSUME NEW z \in Zones PROVE Count(fired, Entries(z, "sniper")) <= 1
  <2>1. /\ Count(fired, Entries(z, "sniper")) \in Nat
        /\ Count(emitted, Entries(z, "sniper")) \in Nat /\ Made(z, "sniper") \in Nat
        /\ Made(z, "sniper")' = Made(z, "sniper") + Count(fired, Entries(z, "sniper"))
                                + Count(emitted, Entries(z, "sniper"))
    BY MadeBar
  <2>2. Count(snipers', Snipers(z)) \in Nat
    <3>1. snipers' \in Seq(Watching(todo', bar')) BY DEF Typed
    <3> QED BY <3>1, CountType
  <2>3. SniperRoom(Count(snipers', Snipers(z)), Made(z, "sniper")', z, todo')
    BY DEF Counted, SniperRoom
  <2> HIDE DEF i, fired, emitted, open
  <2> QED BY <2>1, <2>2, <2>3 DEF SniperRoom
<1> HIDE DEF i, T, ladder, fired, open, emitted
<1>7. Count(ladder, Entry(c)) <= 1
  <2>1. \A k, l \in DOMAIN ladder : ladder[k] \in Entry(c) /\ ladder[l] \in Entry(c) => k = l
    BY <1>3 DEF Entry, OneOfEach
  <2> QED BY <1>2, <2>1, CountOnce
<1>8. ASSUME Count(ladder, Entry(c)) # 0 PROVE c.by = "ladder" /\ c.at = i
  <2>1. PICK k \in DOMAIN ladder : ladder[k] \in Entry(c) BY <1>8, CountNone
  <2>2. ladder[k] \in Pending(T, i) BY <1>2, LenProperties, ElementOfSeq
  <2>3. ladder[k].at = i BY <1>3 DEF OneOfEach
  <2> QED BY <2>1, <2>2, <2>3 DEF Entry, Pending, Layer
<1>9. \A k \in DOMAIN fired : fired[k] \in Ordered(i + 1) /\ fired[k].by = "sniper"
  BY <1>4, LenProperties, ElementOfSeq
<1>10. ASSUME Count(fired, Entry(c)) # 0 PROVE c.by = "sniper" /\ c.at = i + 1
  <2>1. PICK k \in DOMAIN fired : fired[k] \in Entry(c) BY <1>10, CountNone
  <2> QED BY <1>9, <2>1 DEF Entry, Ordered
<1>11. Count(fired, Entry(c)) <= 1
  <2>1. c.zone \in Zones BY DEF Keys
  <2>2. \A k, l \in DOMAIN fired :
          fired[k] \in Entries(c.zone, "sniper") /\ fired[l] \in Entries(c.zone, "sniper") => k = l
    BY <1>4, <1>6, <2>1, CountOnce
  <2>3. \A k \in DOMAIN fired : fired[k] \in Entry(c) => fired[k] \in Entries(c.zone, "sniper")
    BY <1>9 DEF Entry, Entries, Ordered
  <2>4. \A k, l \in DOMAIN fired : fired[k] \in Entry(c) /\ fired[l] \in Entry(c) => k = l
    BY <2>2, <2>3
  <2> QED BY <1>4, <2>4, CountOnce
<1>12. ASSUME Count(emitted, Entry(c)) # 0 PROVE c.by = "inv" /\ c.at = i + 1
  <2>1. PICK k \in DOMAIN emitted : emitted[k] \in Entry(c) BY <1>12, CountNone
  <2>2. emitted[k] \in Ordered(i + 1) /\ emitted[k].by = "inv"
    BY <1>4, LenProperties, ElementOfSeq
  <2> QED BY <2>1, <2>2 DEF Entry, Ordered
<1>13. ASSUME NEW n \in Nat, n <= 1 PROVE n \in {0, 1} BY <1>13
<1> QED BY <1>4, <1>5, <1>7, <1>8, <1>10, <1>11, <1>12, <1>13 DEF i, ladder, fired, emitted, open

\* An entry's kind and time tell where it may be before bar i and whether it is new.
Apart(i, by, at, a, o, t, l, f, e) ==
  /\ i \in Int /\ at \in Int /\ a \in Nat /\ o \in Nat /\ t \in Nat
  /\ l \in {0, 1} /\ f \in {0, 1} /\ e \in {0, 1}
  /\ a # 0 => by = "ladder" /\ at < i
  /\ o # 0 => by # "ladder" /\ at <= i
  /\ t # 0 => at < i
  /\ l # 0 => by = "ladder" /\ at = i
  /\ f # 0 => by = "sniper" /\ at = i + 1
  /\ e # 0 => by = "inv" /\ at = i + 1

LEMMA ApartIsNew ==
  ASSUME NEW i, NEW by, NEW at, NEW a, NEW o, NEW t, NEW l, NEW f, NEW e,
         Apart(i, by, at, a, o, t, l, f, e)
  PROVE  New(a, o, t, l, f, e)
<1>1. CASE l # 0 BY <1>1 DEF New, Apart
<1>2. CASE f # 0 BY <1>2 DEF New, Apart
<1>3. CASE e # 0 BY <1>3 DEF New, Apart
<1>4. CASE l = 0 /\ f = 0 /\ e = 0 BY <1>4 DEF New
<1> QED BY <1>1, <1>2, <1>3, <1>4

LEMMA DistinctBar ==
  ASSUME ConstantsAssumption, Typed, Distinct, NEW b \in Bars, NEW signals \in Arrivals, NEW calm,
         NEW thesis, NEW sizes \in [1..NumLayers -> Sizes],
         NextBar(b, signals, calm, thesis, sizes), Typed', Counted', NEW c \in Keys
  PROVE  /\ Placed(Count(layers', Entry(c)), Count(inverse', Entry(c)), Count(trades', Entry(c)))
         /\ Count(Opens(b, signals, calm, thesis, sizes), Entry(c)) <= 1
<1> DEFINE i == bar + 1
           T == Left(signals)
           E == Entry(c)
           ladder == Ladder(signals, sizes, i)
           pending == Waiting(signals, sizes)
           fired == Fired(Watched(signals), i, calm)
           orders == Queued(signals, calm)
           open == Opens(b, signals, calm, thesis, sizes)
           held == Held(b, signals, calm, thesis, sizes)
           filled == Filled(pending, b, i, thesis)
           pended == Pended(pending, b, i)
           entered == Entered(orders, b, i, thesis)
           rest == Rest(orders, i)
           emitted == Emitted(open, i)
<1>1. /\ bar < MaxBars /\ layers' = pended /\ Emit(open, orders, i) /\ Leave(held, b, i)
  BY BarParts
<1>2. /\ i \in 1..MaxBars /\ Watched(signals) \in Seq(Watching(T, i)) /\ T \in SUBSET todo
      /\ ladder \in Seq(Pending(T, i)) /\ pending \in Seq(Pending(T, i))
      /\ orders = inverse \o fired /\ orders \in Seq(Waits(i, skipped) \cup Ordered(i + 1))
      /\ open \in Seq(Running(i)) /\ held \in Seq(Running(i))
  BY <1>1, BarTypes
<1>3. pending = layers \o ladder /\ open = (trades \o filled) \o entered
  BY OpenParts DEF Waiting, Opens
<1>3a. held = Softened(open, i, Base(b), NextBrick(Base(b), b.close)) BY DEF Held
<1>4. /\ bar \in 0..MaxBars /\ bar \in Int /\ layers \in Seq(Pending(todo, bar))
      /\ inverse \in Seq(Waits(i, skipped)) /\ trades \in Seq(Running(bar))
  BY DEF Typed
<1>5. /\ Count(layers, E) \in Nat /\ Count(inverse, E) \in Nat /\ Count(trades, E) \in Nat
      /\ Count(layers, E) # 0 => c.by = "ladder" /\ c.at <= bar
      /\ Count(inverse, E) # 0 => c.by # "ladder" /\ c.at <= i
      /\ Count(trades, E) # 0 => c.at <= bar
  BY OldPlaces
<1>6. /\ Count(ladder, E) \in {0, 1} /\ Count(fired, E) \in {0, 1} /\ Count(emitted, E) \in {0, 1}
      /\ Count(ladder, E) # 0 => c.by = "ladder" /\ c.at = i
      /\ Count(fired, E) # 0 => c.by = "sniper" /\ c.at = i + 1
      /\ Count(emitted, E) # 0 => c.by = "inv" /\ c.at = i + 1
  BY NewPlaces
<1>7. c.at \in Int BY DEF Keys
<1>8. \A x \in Int : x <= bar => x < i BY <1>4
<1>9. i \in Int /\ bar <= i BY <1>4
<1>10. inverse' = rest \o emitted BY <1>1, EmitParts
<1> HIDE DEF i, T, E, ladder, pending, fired, orders, open, held, filled, pended, entered, rest, emitted
<1>11. New(Count(layers, E), Count(inverse, E), Count(trades, E),
           Count(ladder, E), Count(fired, E), Count(emitted, E))
  <2>1. Apart(i, c.by, c.at, Count(layers, E), Count(inverse, E), Count(trades, E),
              Count(ladder, E), Count(fired, E), Count(emitted, E))
    BY <1>5, <1>6, <1>7, <1>8, <1>9 DEF Apart
  <2> QED BY <2>1, ApartIsNew
<1>12. /\ layers \in Seq(Pending(T, i)) /\ trades \in Seq(Running(i))
  <2>1. Pending(todo, bar) \subseteq Pending(T, i) /\ Running(bar) \subseteq Running(i)
    BY <1>2, <1>4, <1>9, Grows
  <2>2. layers \in Seq(Pending(T, i)) BY <1>4, <2>1, SeqMonotonic
  <2>3. trades \in Seq(Running(i)) BY <1>4, <2>1, SeqMonotonic
  <2> QED BY <2>2, <2>3
<1>13. Count(pending, E) = Count(layers, E) + Count(ladder, E) BY <1>2, <1>3, <1>12, CountConcat
<1>14. /\ Count(filled, E) + Count(pended, E) <= Count(pending, E)
       /\ Count(filled, E) \in Nat /\ Count(pended, E) \in Nat /\ filled \in Seq(Running(i))
  <2>1. /\ pended \in Seq(Pending(T, i)) /\ filled \in Seq({x \in Running(i) : x.by = "ladder"})
        /\ Count(filled, E) + Count(pended, E) <= Count(pending, E)
    BY <1>2, FilledType DEF pended, filled, E
  <2>2. filled \in Seq(Running(i)) BY <2>1, SeqMonotonic
  <2> QED BY <2>1, <2>2, CountType
<1>15. fired \in Seq({x \in Ordered(i + 1) : x.by = "sniper"}) BY <1>2, FiredType DEF fired
<1>16. Count(orders, E) = Count(inverse, E) + Count(fired, E)
  <2>1. inverse \in Seq(Waits(i, skipped) \cup Ordered(i + 1)) BY <1>4, SeqMonotonic
  <2>2. fired \in Seq(Waits(i, skipped) \cup Ordered(i + 1)) BY <1>15, SeqMonotonic
  <2> QED BY <1>2, <2>1, <2>2, CountConcat
<1>17. /\ Count(entered, E) + Count(rest, E) = Count(orders, E)
       /\ Count(entered, E) \in Nat /\ Count(rest, E) \in Nat
       /\ entered \in Seq(Running(i)) /\ rest \in Seq(Waits(i + 1, skipped))
  <2>1. /\ rest \in Seq(Waits(i + 1, skipped)) /\ entered \in Seq({x \in Running(i) : x.by # "ladder"})
        /\ Adds(Count(entered, E), Count(rest, E), Count(orders, E))
    BY <1>2, EnteredType DEF rest, entered, E
  <2>2. entered \in Seq(Running(i)) BY <2>1, SeqMonotonic
  <2>3. Count(entered, E) + Count(rest, E) = Count(orders, E) BY <2>1 DEF Adds
  <2> QED BY <2>1, <2>2, <2>3, CountType
<1>18. Count(open, E) = Count(trades, E) + Count(filled, E) + Count(entered, E)
  <2> DEFINE first == trades \o filled
  <2>1. first \in Seq(Running(i)) BY <1>12, <1>14, ConcatProperties
  <2>2. Count(first, E) = Count(trades, E) + Count(filled, E) BY <1>12, <1>14, CountConcat
  <2>3. open = first \o entered BY <1>3
  <2> HIDE DEF first
  <2>4. Count(open, E) = Count(first, E) + Count(entered, E) BY <1>17, <2>1, <2>3, CountConcat
  <2> QED BY <2>2, <2>4
<1>19. Count(trades', E) <= Count(open, E) /\ Count(trades', E) \in Nat
  <2>1. Count(held, E) = Count(open, E) BY <1>2, <1>3a, SoftenedCount DEF E
  <2>2. Count(trades', E) <= Count(held, E) /\ trades' \in Seq(Running(i))
    BY <1>1, <1>2, LeaveType DEF E
  <2>3. Count(trades', E) \in Nat BY <2>2, CountType
  <2> QED BY <2>1, <2>2, <2>3
<1>20. Count(inverse', E) = Count(rest, E) + Count(emitted, E)
  <2>1. emitted \in Seq({x \in Ordered(i + 1) : x.by = "inv"}) BY <1>2, EmittedType DEF emitted
  <2>2. emitted \in Seq(Waits(i + 1, skipped))
    <3>1. {x \in Ordered(i + 1) : x.by = "inv"} \subseteq Waits(i + 1, skipped) BY <1>9, OrdersWait
    <3> QED BY <2>1, <3>1, SeqMonotonic
  <2>3. rest \in Seq(Waits(i + 1, skipped)) BY <1>17
  <2> QED BY <1>10, <2>2, <2>3, CountConcat
<1>21. Placed(Count(layers, E), Count(inverse, E), Count(trades, E)) BY DEF Distinct, Placed, E
<1>22. Count(ladder, E) \in Nat /\ Count(fired, E) \in Nat /\ Count(emitted, E) \in Nat BY <1>6
<1>23. Moves(Count(layers, E), Count(inverse, E), Count(trades, E), Count(ladder, E),
             Count(fired, E), Count(emitted, E), Count(filled, E), Count(pended, E), Count(entered, E),
             Count(rest, E), Count(open, E), Count(trades', E), Count(inverse', E))
  BY <1>5, <1>13, <1>14, <1>16, <1>17, <1>18, <1>19, <1>20, <1>22 DEF Moves
<1>24. /\ Placed(Count(pended, E), Count(inverse', E), Count(trades', E))
       /\ Count(open, E) <= 1
  BY <1>11, <1>21, <1>23, PlacedStep
<1> QED BY <1>1, <1>24 DEF E, open

-----------------------------------------------------------------------------
\* The inductive invariant.
LEMMA InitInvariant ==
  ASSUME ConstantsAssumption, Init
  PROVE  Invariant
<1>1. \A A : Count(<<>>, A) = 0
  <2>1. ASSUME NEW A PROVE Count(<<>>, A) = 0
    <3>1. \A k \in DOMAIN <<>> : <<>>[k] \notin A OBVIOUS
    <3> QED BY <3>1, CountNone
  <2> QED BY <2>1
<1>2. snipers = <<>> /\ layers = <<>> /\ inverse = <<>> /\ trades = <<>> /\ closed = <<>> BY DEF Init
<1>3. Typed
  <2>1. /\ snipers \in Seq(Watching(todo, bar)) /\ layers \in Seq(Pending(todo, bar))
        /\ inverse \in Seq(Waits(bar + 1, skipped)) /\ trades \in Seq(Running(bar)) /\ closed \in Seq(Done)
    BY <1>2, EmptySeq
  <2>2. MaxBars \in Nat /\ MaxPer \in Nat /\ MinBricks \in Nat BY DEF ConstantsAssumption
  <2>3. bar \in 0..MaxBars /\ price \in Int /\ skipped \in BOOLEAN /\ ended \in BOOLEAN /\ todo \subseteq Zones
    <3>1. 0 \in 0..MaxBars BY <2>2
    <3>2. skipped \in BOOLEAN /\ ended \in BOOLEAN BY DEF Init
    <3>3. bar = 0 /\ price = 0 /\ todo = Zones BY DEF Init
    <3> QED BY <3>1, <3>2, <3>3
  <2>4. renko \in [dir : {-1, 0, 1}, close : Int, streak : 0..(MinBricks + 1)]
    BY <2>2 DEF Init
  <2>5. used \in [Zones -> 0..MaxPer]
    <3>1. 0 \in 0..MaxPer BY <2>2
    <3>2. used = [z \in Zones |-> 0] BY DEF Init
    <3> QED BY <3>1, <3>2
  <2>6. fate \in [submitted : Nat, triggered : Nat, cancelled : Nat, expired : Nat] BY DEF Init
  <2> QED BY <2>1, <2>3, <2>4, <2>5, <2>6 DEF Typed
<1>4. SnipersSettle
  <2>1. Len(snipers) = 0 /\ DOMAIN snipers = {} BY <1>2
  <2> QED BY <2>1 DEF SnipersSettle, Init
<1>5. ASSUME NEW z \in Zones, NEW by PROVE Made(z, by) = 0
  <2>1. On(<<>>, z, by) = 0
    <3>1. {k \in DOMAIN <<>> : <<>>[k].zone = z /\ <<>>[k].by = by} = {} OBVIOUS
    <3> QED BY <3>1, FS_EmptySet DEF On
  <2>2. ended = FALSE BY DEF Init
  <2> QED BY <1>2, <2>1, <2>2 DEF Made
<1>6. Counted
  <2>1. ASSUME NEW z \in Zones
        PROVE  /\ Count(snipers, Snipers(z)) + Made(z, "sniper") <= (IF z \in todo THEN 0 ELSE 1)
               /\ Made(z, "inv") = used[z]
    <3>1. used[z] = 0 BY DEF Init
    <3> QED BY <1>1, <1>2, <1>5, <3>1
  <2> QED BY <2>1 DEF Counted
<1>7. Distinct BY <1>1, <1>2 DEF Distinct
<1> QED BY <1>3, <1>4, <1>6, <1>7 DEF Invariant

\* What the end of the data closes.
Settling == [k \in DOMAIN trades |-> Closed(trades[k], price, "eod")]

LEMMA SettlingType ==
  ASSUME Typed
  PROVE  /\ Settling \in Seq(Done)
         /\ \A z, by : Count(Settling, Entries(z, by)) = Count(trades, Entries(z, by))
<1>1. trades \in Seq(Running(bar)) /\ price \in Int BY DEF Typed
<1>2. ASSUME NEW k \in DOMAIN trades
      PROVE  /\ trades[k] \in Trade /\ Settling[k] \in Done
             /\ Settling[k].zone = trades[k].zone /\ Settling[k].by = trades[k].by
  <2>1. trades[k] \in Running(bar) BY <1>1, LenProperties, ElementOfSeq
  <2>2. trades[k] \in Trade /\ OnTime(trades[k]) BY <2>1 DEF Running
  <2>3. Settling[k] = Closed(trades[k], price, "eod") BY DEF Settling
  <2>4. Settling[k] \in ClosedTrade BY <1>1, <2>2, <2>3 DEF Closed, Trade, ClosedTrade
  <2>5. /\ Settling[k].reason = "eod" /\ Settling[k].by = trades[k].by
        /\ Settling[k].bar = trades[k].bar /\ Settling[k].at = trades[k].at
        /\ Settling[k].zone = trades[k].zone
    BY <2>3 DEF Closed
  <2>6. OnTime(Settling[k]) BY <2>2, <2>5 DEF OnTime
  <2>7. Bounded(Settling[k]) BY <2>5 DEF Bounded
  <2> QED BY <2>2, <2>4, <2>5, <2>6, <2>7 DEF Done
<1>3. Settling \in Seq(Done) /\ DOMAIN Settling = DOMAIN trades
  <2>1. Settling = [k \in DOMAIN trades |-> Settling[k]] BY DEF Settling
  <2>2. Settling \in [DOMAIN trades -> Done] BY <1>2, <2>1
  <2> QED BY <1>1, <2>2, MapIsSeq
<1>4. ASSUME NEW z, NEW by PROVE Count(Settling, Entries(z, by)) = Count(trades, Entries(z, by))
  <2>1. \A k \in DOMAIN Settling : Settling[k] \in Entries(z, by) <=> trades[k] \in Entries(z, by)
    <3>1. ASSUME NEW k \in DOMAIN Settling
          PROVE  Settling[k] \in Entries(z, by) <=> trades[k] \in Entries(z, by)
      <4>1. k \in DOMAIN trades BY <1>3
      <4>2. Settling[k] \in ClosedTrade BY <1>2, <4>1 DEF Done
      <4> QED BY <1>2, <4>1, <4>2 DEF Entries
    <3> QED BY <3>1
  <2> QED BY <1>3, <2>1, CountSame
<1> QED BY <1>3, <1>4

LEMMA EndInvariant ==
  ASSUME ConstantsAssumption, Invariant, EndOfData
  PROVE  Invariant'
<1>1. Typed /\ SnipersSettle /\ Counted /\ Distinct BY DEF Invariant
<1>2. /\ ~ended /\ ended' = TRUE /\ closed' = closed \o Settling
      /\ bar' = bar /\ price' = price /\ renko' = renko /\ todo' = todo /\ snipers' = snipers
      /\ layers' = layers /\ inverse' = inverse /\ used' = used /\ trades' = trades /\ fate' = fate
      /\ skipped' = skipped
  BY DEF EndOfData, Settling
<1>3. /\ Settling \in Seq(Done)
      /\ \A z, by : Count(Settling, Entries(z, by)) = Count(trades, Entries(z, by))
  BY <1>1, SettlingType
<1>4. /\ closed \in Seq(Done) /\ inverse \in Seq(Waits(bar + 1, skipped)) /\ trades \in Seq(Running(bar))
  BY <1>1 DEF Typed
<1>5. closed' \in Seq(Done) BY <1>2, <1>3, <1>4, ConcatProperties
<1>6. Typed' BY <1>1, <1>2, <1>5 DEF Typed
<1>7. SnipersSettle' BY <1>1, <1>2 DEF SnipersSettle
<1>8. ASSUME NEW z \in Zones, NEW by \in {"sniper", "inv"} PROVE Made(z, by)' = Made(z, by)
  <2> DEFINE B == Entries(z, by)
  <2>1. /\ On(inverse, z, by) = Count(inverse, B) /\ Count(inverse, B) \in Nat
        /\ On(closed, z, by) = Count(closed, B) /\ Count(closed, B) \in Nat
        /\ On(trades, z, by) = Count(trades, B) /\ Count(trades, B) \in Nat
    BY <1>4, OnsAreCounts
  <2>2. On(closed', z, by) = Count(closed', B) BY <1>4, <1>5, OnsAreCounts
  <2>3. Count(closed', B) = Count(closed, B) + Count(Settling, B)
    BY <1>2, <1>3, <1>4, CountConcat
  <2>4. Count(Settling, B) = Count(trades, B) BY <1>3
  <2>5. Made(z, by) = On(inverse, z, by) + On(closed, z, by) + On(trades, z, by) BY <1>2 DEF Made
  <2>6. Made(z, by)' = On(inverse, z, by) + On(closed', z, by) BY <1>2, <2>1, <2>2, <2>3, <2>4 DEF Made
  <2> HIDE DEF B
  <2> QED BY <2>1, <2>2, <2>3, <2>4, <2>5, <2>6
<1>9. Counted'
  <2>1. ASSUME NEW z \in Zones
        PROVE  /\ Count(snipers', Snipers(z)) + Made(z, "sniper")' <= (IF z \in todo' THEN 0 ELSE 1)
               /\ Made(z, "inv")' = used'[z]
    BY <1>1, <1>2, <1>8 DEF Counted
  <2> QED BY <2>1 DEF Counted
<1>10. Distinct' BY <1>1, <1>2 DEF Distinct
<1> QED BY <1>6, <1>7, <1>9, <1>10 DEF Invariant

LEMMA BarInvariant ==
  ASSUME ConstantsAssumption, Invariant, NEW b \in Bars, NEW signals \in Arrivals, NEW calm, NEW thesis,
         NEW sizes \in [1..NumLayers -> Sizes], NextBar(b, signals, calm, thesis, sizes)
  PROVE  Invariant'
<1>1. Typed /\ SnipersSettle /\ Counted /\ Distinct BY DEF Invariant
<1>2. Typed' /\ SnipersSettle' BY <1>1, TypedBar
<1>3. Counted' BY <1>1, <1>2, CountedBar
<1>4. ASSUME NEW c \in Keys
      PROVE  Count(layers', Entry(c)) + Count(inverse', Entry(c)) + Count(trades', Entry(c)) <= 1
  BY <1>1, <1>2, <1>3, DistinctBar DEF Placed
<1>5. Distinct' BY <1>4 DEF Distinct
<1> QED BY <1>2, <1>3, <1>5 DEF Invariant

\* A skipped bar takes the time on and adds a sniper.
LEMMA SkipParts ==
  ASSUME Typed, NEW b, NEW signals, SkipBar(b, signals)
  PROVE  /\ skipped' = TRUE /\ bar < MaxBars /\ bar' = bar + 1 /\ price' = b.close
         /\ renko' = NextBrick(Base(b), b.close) /\ todo' = Left(signals)
         /\ snipers' = Watched(signals)
         /\ fate' = After(fate, Len(Intercepted(signals, bar + 1)), 0, 0, 0)
         /\ layers' = layers /\ inverse' = inverse /\ used' = used /\ trades' = trades
         /\ closed' = closed /\ ended' = ended
<1>1. fate' = After(fate, Len(Intercepted(signals, bar + 1)), 0, 0, 0)
  <2> DEFINE n == Len(Intercepted(signals, bar + 1))
  <2>1. fate' = [fate EXCEPT !.submitted = @ + n] BY DEF SkipBar
  <2>2. fate \in Fates BY DEF Typed, Fates
  <2> HIDE DEF n
  <2>3. fate' = After(fate, n, 0, 0, 0) BY <2>1, <2>2 DEF Fates, After
  <2> QED BY <2>3 DEF n
<1> QED BY <1>1 DEF SkipBar, Advance, Left, Watched

LEMMA SkipInvariant ==
  ASSUME ConstantsAssumption, Invariant, NEW b \in Bars, NEW signals \in Arrivals, SkipBar(b, signals)
  PROVE  Invariant'
<1> DEFINE i == bar + 1
           T == Left(signals)
           new == Intercepted(signals, i)
<1>1. Typed /\ SnipersSettle /\ Counted /\ Distinct BY DEF Invariant
<1>2. /\ skipped' = TRUE /\ bar < MaxBars /\ bar' = i /\ price' = b.close
      /\ renko' = NextBrick(Base(b), b.close) /\ todo' = T
      /\ snipers' = Watched(signals) /\ snipers' = snipers \o new
      /\ fate' = After(fate, Len(new), 0, 0, 0)
  BY <1>1, SkipParts DEF Watched
<1>3. /\ layers' = layers /\ inverse' = inverse /\ used' = used /\ trades' = trades
      /\ closed' = closed /\ ended' = ended
  BY <1>1, SkipParts
<1>4. /\ i \in 1..MaxBars /\ T \in SUBSET todo /\ T \in SUBSET Zones
      /\ snipers \in Seq(Watching(T, i)) /\ layers \in Seq(Pending(T, i))
      /\ trades \in Seq(Running(i)) /\ inverse \in Seq(Waits(i, skipped))
      /\ new \in Seq(Watching(T, i)) /\ Watched(signals) \in Seq(Watching(T, i))
  BY <1>1, <1>2, SignalTypes
<1>5. ASSUME NEW z \in Zones
      PROVE  Count(new, Snipers(z)) \in {0, 1} /\ (Count(new, Snipers(z)) = 1 => z \in todo /\ z \notin T)
  BY <1>1, <1>2, InterceptedCount
<1> HIDE DEF i, T, new
<1>6. b.close \in Int /\ MaxBars \in Nat /\ i \in Int /\ i \in 0..MaxBars
  <2>1. b.close \in Int /\ MaxBars \in Nat BY DEF ConstantsAssumption
  <2>2. i \in 1..MaxBars BY <1>4
  <2> QED BY <2>1, <2>2
<1>7. renko' \in [dir : {-1, 0, 1}, close : Int, streak : 0..(MinBricks + 1)]
  <2>1. Base(b) \in [dir : {-1, 0, 1}, close : Int, streak : 0..(MinBricks + 1)]
    BY <1>1, <1>6 DEF Base, Typed
  <2> QED BY <1>2, <1>6, <2>1, NextBrickType
<1>8. inverse \in Seq(Waits(i + 1, TRUE))
  <2>1. ASSUME NEW x \in Waits(i, skipped) PROVE x \in Waits(i + 1, TRUE)
    BY <1>6, <2>1 DEF Waits, Order
  <2>2. Waits(i, skipped) \subseteq Waits(i + 1, TRUE) BY <2>1
  <2> QED BY <1>4, <2>2, SeqMonotonic
<1>9. fate' \in Fates /\ Settled(fate', Len(snipers'))
  <2>1. /\ Len(snipers) \in Nat /\ Len(new) \in Nat /\ Len(snipers') = Len(snipers) + Len(new)
    BY <1>2, <1>4, LenProperties, ConcatProperties
  <2>2. fate \in Fates /\ Settled(fate, Len(snipers)) BY <1>1 DEF Typed, SnipersSettle, Fates, Settled
  <2>3. /\ Len(snipers') \in Nat /\ 0 \in Nat
        /\ Len(snipers) + Len(new) = Len(snipers') + 0 + 0 + 0
    BY <2>1
  <2> QED BY <1>2, <2>1, <2>2, <2>3, SettledStep
<1>10. Typed'
  <2>1. /\ bar' \in 0..MaxBars /\ price' \in Int /\ skipped' \in BOOLEAN /\ ended' \in BOOLEAN
        /\ todo' \subseteq Zones /\ used' \in [Zones -> 0..MaxPer] /\ closed' \in Seq(Done)
    BY <1>1, <1>2, <1>3, <1>4, <1>6 DEF Typed
  <2>2. /\ snipers' \in Seq(Watching(todo', bar')) /\ layers' \in Seq(Pending(todo', bar'))
        /\ inverse' \in Seq(Waits(bar' + 1, skipped')) /\ trades' \in Seq(Running(bar'))
    BY <1>2, <1>3, <1>4, <1>8
  <2> QED BY <1>7, <1>9, <2>1, <2>2 DEF Typed, Fates
<1>11. SnipersSettle' BY <1>2, <1>9 DEF SnipersSettle, Settled
<1>12. \A z \in Zones, by \in {"sniper", "inv"} : Made(z, by)' = Made(z, by) BY <1>3 DEF Made
<1>13. ASSUME NEW z \in Zones
       PROVE  SniperRoom(Count(snipers', Snipers(z)), Made(z, "sniper"), z, todo')
  <2> DEFINE n == Count(snipers, Snipers(z))
             m == Count(new, Snipers(z))
  <2>1. n \in Nat BY <1>4, CountType
  <2>2. Count(snipers', Snipers(z)) = n + m BY <1>2, <1>4, CountConcat
  <2>3. m \in {0, 1} /\ (m = 1 => z \in todo /\ z \notin T) BY <1>5
  <2>4. Made(z, "sniper") \in Nat
    <3>1. closed \in Seq(Done) BY <1>1 DEF Typed
    <3>2. /\ On(inverse, z, "sniper") \in Nat /\ On(closed, z, "sniper") \in Nat
          /\ On(trades, z, "sniper") \in Nat
      BY <1>4, <3>1, OnsAreCounts
    <3> QED BY <3>2 DEF Made
  <2>5. SniperRoom(n, Made(z, "sniper"), z, todo) BY <1>1 DEF Counted, SniperRoom
  <2> HIDE DEF n, m
  <2>6. /\ n + m \in Nat /\ 0 \in Nat /\ 0 + (n + m) <= n + m
        /\ Made(z, "sniper") = Made(z, "sniper") + 0
    BY <2>1, <2>3, <2>4
  <2> DEFINE made == Made(z, "sniper")
  <2> HIDE DEF made
  <2>7. /\ made \in Nat /\ made = made + 0 /\ SniperRoom(n, made, z, todo) BY <2>4, <2>5, <2>6 DEF made
  <2>8. SniperRoom(n + m, made, z, T) BY <1>4, <2>1, <2>3, <2>6, <2>7, SniperRoomStep
  <2> QED BY <1>2, <2>2, <2>8 DEF made
<1>14. Counted'
  <2>1. ASSUME NEW z \in Zones PROVE Made(z, "inv")' = used'[z] BY <1>1, <1>3, <1>12 DEF Counted
  <2> QED BY <1>12, <1>13, <2>1 DEF Counted, SniperRoom
<1>15. Distinct' BY <1>1, <1>3 DEF Distinct
<1> QED BY <1>10, <1>11, <1>14, <1>15 DEF Invariant

\* The invariant from which the properties follow: the lists hold what they should, the
\* counters agree with them, and no entry is in two places.
THEOREM Invariance == Spec => []Invariant
<1>1. ConstantsAssumption BY ConstantsAssumption
<1>2. Init => Invariant BY <1>1, InitInvariant
<1>3. Invariant /\ [Next]_vars => Invariant'
  <2> SUFFICES ASSUME Invariant, [Next]_vars PROVE Invariant' OBVIOUS
  <2>1. ASSUME NEW b \in Bars, NEW signals \in Arrivals, NEW calm \in {FALSE, RegimeGate},
               NEW thesis \in {-1, 0, 1}, NEW sizes \in [1..NumLayers -> Sizes],
               NextBar(b, signals, calm, thesis, sizes)
        PROVE  Invariant'
    BY <1>1, <2>1, BarInvariant
  <2>4. ASSUME NEW b \in Bars, NEW signals \in Arrivals, SkipBar(b, signals) PROVE Invariant'
    BY <1>1, <2>4, SkipInvariant
  <2>2. CASE EndOfData BY <1>1, <2>2, EndInvariant
  <2>3. CASE UNCHANGED vars
    <3>1. /\ bar' = bar /\ price' = price /\ renko' = renko /\ todo' = todo /\ snipers' = snipers
          /\ layers' = layers /\ inverse' = inverse /\ used' = used /\ trades' = trades
          /\ closed' = closed /\ fate' = fate /\ skipped' = skipped /\ ended' = ended
      BY <2>3 DEF vars
    <3> QED BY <3>1 DEF Invariant, Typed, SnipersSettle, Counted, Distinct, Made
  <2> QED BY <2>1, <2>2, <2>3, <2>4 DEF Next
<1> QED BY <1>2, <1>3, PTL DEF Spec

-----------------------------------------------------------------------------
\* Type correctness.
THEOREM TypeCorrect == Spec => []TypeOK
<1>1. Invariant => TypeOK
  <2> SUFFICES ASSUME Typed PROVE TypeOK BY DEF Invariant
  <2>1. /\ snipers \in Seq(Watching(todo, bar)) /\ layers \in Seq(Pending(todo, bar))
        /\ inverse \in Seq(Waits(bar + 1, skipped)) /\ trades \in Seq(Running(bar)) /\ closed \in Seq(Done)
    BY DEF Typed
  <2>2. Watching(todo, bar) \subseteq Sniper /\ Pending(todo, bar) \subseteq Layer
    BY DEF Watching, Pending
  <2>3. Waits(bar + 1, skipped) \subseteq Order BY DEF Waits
  <2>4. Running(bar) \subseteq Trade BY DEF Running
  <2>5. Done \subseteq ClosedTrade BY DEF Done
  <2>6. snipers \in Seq(Sniper) BY <2>1, <2>2, SeqMonotonic
  <2>7. layers \in Seq(Layer) BY <2>1, <2>2, SeqMonotonic
  <2>8. inverse \in Seq(Order) BY <2>1, <2>3, SeqMonotonic
  <2>9. trades \in Seq(Trade) BY <2>1, <2>4, SeqMonotonic
  <2>10. closed \in Seq(ClosedTrade) BY <2>1, <2>5, SeqMonotonic
  <2>11. \A k \in DOMAIN snipers : snipers[k].zone \notin todo /\ snipers[k].at <= bar
    <3>1. ASSUME NEW k \in DOMAIN snipers PROVE snipers[k] \in Watching(todo, bar)
      BY <2>1, LenProperties, ElementOfSeq
    <3> QED BY <3>1 DEF Watching
  <2>12. \A k \in DOMAIN layers : layers[k].zone \notin todo /\ layers[k].at <= bar
    <3>1. ASSUME NEW k \in DOMAIN layers PROVE layers[k] \in Pending(todo, bar)
      BY <2>1, LenProperties, ElementOfSeq
    <3> QED BY <3>1 DEF Pending
  <2> QED BY <2>6, <2>7, <2>8, <2>9, <2>10, <2>11, <2>12 DEF Typed, TypeOK
<1> QED BY <1>1, Invariance, PTL

\* Every sniper has one fate or is pending, and, until a bar is skipped, none is pending
\* beyond its age.
THEOREM Settles == Spec => []SnipersSettle
<1>1. Invariant => SnipersSettle BY DEF Invariant
<1> QED BY <1>1, Invariance, PTL

\* No entry looks ahead: a layer fills after the bar of its signal, an inverse trade
\* opens on the bar for which it is ordered, and, until a bar is skipped, no order is missed.
THEOREM FollowOrders == Spec => []EntriesFollowOrders
<1>1. Invariant => EntriesFollowOrders
  <2> SUFFICES ASSUME Typed PROVE EntriesFollowOrders BY DEF Invariant
  <2>1. /\ inverse \in Seq(Waits(bar + 1, skipped)) /\ trades \in Seq(Running(bar)) /\ closed \in Seq(Done)
    BY DEF Typed
  <2>2. ASSUME NEW k \in DOMAIN trades PROVE OnTime(trades[k])
    <3>1. trades[k] \in Running(bar) BY <2>1, LenProperties, ElementOfSeq
    <3> QED BY <3>1 DEF Running
  <2>3. ASSUME NEW k \in DOMAIN closed PROVE OnTime(closed[k])
    <3>1. closed[k] \in Done BY <2>1, LenProperties, ElementOfSeq
    <3> QED BY <3>1 DEF Done
  <2>4. ASSUME NEW k \in DOMAIN inverse, ~skipped PROVE inverse[k].at = bar + 1
    <3>1. inverse[k] \in Waits(bar + 1, skipped) BY <2>1, LenProperties, ElementOfSeq
    <3>2. skipped = FALSE BY <2>4 DEF Typed
    <3> QED BY <3>1, <3>2 DEF Waits
  <2> QED BY <2>2, <2>3, <2>4 DEF EntriesFollowOrders, OrdersFillNextBar, OnTime
<1> QED BY <1>1, Invariance, PTL

\* Soft stops open no more inverse trades on a zone than the cap, and snipers one.
THEOREM Capped == Spec => []InverseTradesCapped
<1>1. Invariant => InverseTradesCapped
  <2> SUFFICES ASSUME Typed, Counted, NEW z \in Zones, NEW by \in {"sniper", "inv"}
               PROVE  Made(z, by) <= IF by = "sniper" THEN 1 ELSE MaxPer
    BY DEF Invariant, InverseTradesCapped
  <2>1. CASE by = "sniper"
    <3>1. Count(snipers, Snipers(z)) \in Nat
      <4>1. snipers \in Seq(Watching(todo, bar)) BY DEF Typed
      <4> QED BY <4>1, CountType
    <3>2. Made(z, "sniper") \in Nat
      <4>1. /\ inverse \in Seq(Waits(bar + 1, skipped)) /\ closed \in Seq(Done) /\ trades \in Seq(Running(bar))
        BY DEF Typed
      <4>2. /\ On(inverse, z, "sniper") \in Nat /\ On(closed, z, "sniper") \in Nat
            /\ On(trades, z, "sniper") \in Nat
        BY <4>1, OnsAreCounts
      <4> QED BY <4>2 DEF Made
    <3>3. SniperRoom(Count(snipers, Snipers(z)), Made(z, "sniper"), z, todo)
      BY DEF Counted, SniperRoom
    <3>4. Made(z, "sniper") <= 1 BY <3>1, <3>2, <3>3 DEF SniperRoom
    <3> QED BY <2>1, <3>4
  <2>2. CASE by = "inv"
    <3>1. used[z] <= MaxPer BY DEF Typed
    <3>2. Made(z, "inv") = used[z] BY DEF Counted
    <3> QED BY <2>2, <3>1, <3>2
  <2> QED BY <2>1, <2>2
<1> QED BY <1>1, Invariance, PTL

\* A trade loses at most the stop it was opened with and wins at most its target.
THEOREM Bounds == Spec => []LossesAreBounded
<1>1. Invariant => LossesAreBounded
  <2> SUFFICES ASSUME Typed, NEW k \in DOMAIN closed PROVE Bounded(closed[k])
    BY DEF Invariant, LossesAreBounded, Bounded
  <2>1. closed \in Seq(Done) BY DEF Typed
  <2>2. closed[k] \in Done BY <2>1, LenProperties, ElementOfSeq
  <2> QED BY <2>2 DEF Done
<1> QED BY <1>1, Invariance, PTL

-----------------------------------------------------------------------------
\* Stops do not loosen.  Every non-empty set of naturals has a least element:
LEMMA LeastIn ==
  ASSUME NEW S, S \subseteq Nat, S # {}
  PROVE  \E x \in S : \A y \in S : x <= y
<1> DEFINE R == {p \in Nat \X Nat : p[1] < p[2]}
<1>1. IsWellFoundedOn(R, Nat) BY NatLessThanWellFounded DEF OpToRel
<1>2. \A x, y \in Nat : y < x => <<y, x>> \in R OBVIOUS
<1> HIDE DEF R
<1>3. PICK x \in S : \A y \in S : ~(<<y, x>> \in R) BY <1>1, WFMin
<1>4. \A y \in S : ~(y < x) BY <1>2, <1>3
<1>5. \A y \in S : x <= y BY <1>4
<1> QED BY <1>5

\* A smaller part of the stop is a tighter level.
LEMMA PartsAscend ==
  ASSUME NEW n \in Nat, NEW p \in Nat, NEW q \in Nat, p <= q
  PROVE  /\ (n * p) \div 100 \in Int /\ (n * q) \div 100 \in Int
         /\ (n * p) \div 100 <= (n * q) \div 100
<1>1. PICK d \in Nat : q = p + d
  <2>1. q - p \in Nat /\ q = p + (q - p) OBVIOUS
  <2> QED BY <2>1
<1>2. n * p \in Nat /\ n * d \in Nat BY NatProduct
<1>3. n * q = n * p + n * d BY <1>1
<1> DEFINE x == n * p
           y == n * q
<1>4. x \in Nat /\ y \in Nat /\ x <= y BY <1>2, <1>3
<1> HIDE DEF x, y
<1>5. x \div 100 \in Int /\ y \div 100 \in Int /\ x \div 100 <= y \div 100 BY <1>4
<1> QED BY <1>5 DEF x, y

LEMMA LevelsAscend ==
  ASSUME ConstantsAssumption, NEW t \in Trade, NEW j \in DOMAIN Decay, NEW k \in DOMAIN Decay,
         Decay[k][2] <= Decay[j][2]
  PROVE  Reaches(t.dir, DecayLevel(t, k), DecayLevel(t, j))
<1>1. t.entry \in Int /\ t.dir \in {1, -1} /\ t.stop \in Nat BY DEF Trade
<1>2. Decay[j][2] \in Nat /\ Decay[k][2] \in Nat BY DecayEntry
<1> DEFINE p == (t.stop * Decay[k][2]) \div 100
           q == (t.stop * Decay[j][2]) \div 100
<1>3. p \in Int /\ q \in Int /\ p <= q BY <1>1, <1>2, PartsAscend
<1>4. DecayLevel(t, k) = t.entry - t.dir * p /\ DecayLevel(t, j) = t.entry - t.dir * q BY DEF DecayLevel
<1> HIDE DEF p, q
<1>5. CASE t.dir = 1 BY <1>1, <1>3, <1>4, <1>5 DEF Reaches
<1>6. CASE t.dir = -1 BY <1>1, <1>3, <1>4, <1>6 DEF Reaches
<1> QED BY <1>1, <1>5, <1>6

\* While a trade gets older, the entry of the schedule that counts is the same or an
\* earlier one of the list, which came later in time and so is tighter.
LEMMA DecayAscends ==
  ASSUME ConstantsAssumption, DecayTightens, NEW t \in Trade, NEW i \in Int, NEW j \in Int, i <= j,
         NEW x \in DecayLevels(t, i)
  PROVE  \E y \in DecayLevels(t, j) : Reaches(t.dir, y, x)
<1>1. t.bar \in Int BY ConstantsAssumption DEF Trade
<1>2. PICK k \in DOMAIN Decay : Current(t, i, k) /\ x = DecayLevel(t, k) BY DecayLevelsAre
<1> DEFINE S == {l \in DOMAIN Decay : j - t.bar >= Decay[l][1]}
<1>3. S \subseteq Nat
  <2>1. Decay \in Seq(Nat \X Nat) BY DEF ConstantsAssumption
  <2>2. DOMAIN Decay = 1..Len(Decay) /\ Len(Decay) \in Nat BY <2>1, LenProperties
  <2> QED BY <2>2
<1>4. k \in S
  <2>1. i - t.bar >= Decay[k][1] /\ Decay[k][1] \in Nat BY <1>2, DecayEntry DEF Current
  <2> QED BY <1>1, <2>1
<1>5. PICK m \in S : \A l \in S : m <= l BY <1>3, <1>4, LeastIn
<1>6. m \in DOMAIN Decay /\ Current(t, j, m) BY <1>5 DEF Current
<1>7. Decay[m][2] <= Decay[k][2]
  <2>1. m \in Nat /\ k \in Nat /\ m <= k BY <1>3, <1>4, <1>5
  <2>2. /\ Decay[m][1] \in Nat /\ Decay[k][1] \in Nat /\ Decay[m][2] \in Nat /\ Decay[k][2] \in Nat
    BY <1>6, DecayEntry
  <2>3. CASE m = k BY <2>2, <2>3
  <2>4. CASE m < k
    <3>1. ~(i - t.bar >= Decay[m][1]) BY <1>2, <1>6, <2>1, <2>4 DEF Current
    <3>2. i - t.bar >= Decay[k][1] BY <1>2 DEF Current
    <3>3. Decay[m][1] > Decay[k][1] BY <1>1, <2>2, <3>1, <3>2
    <3> QED BY <1>6, <2>4, <3>3 DEF DecayTightens
  <2> QED BY <2>1, <2>3, <2>4
<1>8. Reaches(t.dir, DecayLevel(t, m), DecayLevel(t, k)) BY <1>6, <1>7, LevelsAscend
<1>9. DecayLevel(t, m) \in DecayLevels(t, j) BY <1>6, DecayLevelsAre
<1> QED BY <1>2, <1>8, <1>9

\* Each level of a trade is reached by one of those that it has later.
LEMMA StopAscends ==
  ASSUME ConstantsAssumption, DecayTightens, TrailBy = 0, NEW t \in Trade, NEW u, Softens(u, t),
         NEW i \in Int, NEW j \in Int, i <= j, NEW p \in Int, NEW q \in Int
  PROVE  Reaches(t.dir, Stop(u, j, q), Stop(t, i, p))
<1>1. /\ u \in Trade /\ u.dir = t.dir /\ u.bar = t.bar /\ u.entry = t.entry /\ u.stop = t.stop
      /\ t.soft \subseteq u.soft
  BY SoftensType
<1>2. t.dir \in {1, -1} BY DEF Trade
<1> DEFINE x == Stop(t, i, p)
           z == Stop(u, j, q)
           L == Levels(t, i, p)
           M == Levels(u, j, q)
<1>3. L \in SUBSET Int /\ x \in L /\ x \in Int BY StopIsStrictest DEF Strictest
<1>4. M \in SUBSET Int /\ z \in Int /\ \A y \in M : Reaches(t.dir, z, y)
  BY <1>1, StopIsStrictest DEF Strictest
<1>5. \E y \in M : Reaches(t.dir, y, x)
  <2>1. TrailLevels(t, p) = {} BY DEF TrailLevels
  <2>2. x = OriginalStop(t) \/ x \in t.soft \/ x \in DecayLevels(t, i) BY <1>3, <2>1 DEF Levels
  <2>3. CASE x = OriginalStop(t)
    <3>1. x \in M BY <1>1, <2>3 DEF Levels, OriginalStop
    <3> QED BY <1>2, <1>3, <3>1, ReachesOrder
  <2>4. CASE x \in t.soft
    <3>1. x \in M BY <1>1, <2>4 DEF Levels
    <3> QED BY <1>2, <1>3, <3>1, ReachesOrder
  <2>5. CASE x \in DecayLevels(t, i)
    <3>1. PICK y \in DecayLevels(t, j) : Reaches(t.dir, y, x) BY <2>5, DecayAscends
    <3>2. DecayLevels(u, j) = DecayLevels(t, j) BY <1>1 DEF DecayLevels
    <3>3. y \in M BY <3>1, <3>2 DEF Levels
    <3> QED BY <3>1, <3>3
  <2> QED BY <2>2, <2>3, <2>4, <2>5
<1>6. PICK y \in M : Reaches(t.dir, y, x) BY <1>5
<1>7. y \in Int /\ Reaches(t.dir, z, y) BY <1>4
<1> HIDE DEF x, z, L, M
<1>8. Reaches(t.dir, z, x) BY <1>2, <1>3, <1>4, <1>6, <1>7, ReachesOrder
<1> QED BY <1>8 DEF x, z

\* Two trades of the same entry, and the trades that differ at most in the soft stop.
SameEntry(u, t) == u.by = t.by /\ u.layer = t.layer /\ u.zone = t.zone /\ u.at = t.at
Alike(u, t) == [u EXCEPT !.soft = t.soft] = t

LEMMA AlikeSame ==
  ASSUME NEW t \in Trade, NEW u \in Trade, Alike(u, t)
  PROVE  SameEntry(u, t)
BY DEF Trade, Alike, SameEntry

LEMMA OneTrade ==
  ASSUME ConstantsAssumption, NEW i, NEW s \in Seq(Running(i)), NEW k \in DOMAIN s, NEW m \in DOMAIN s,
         \A c \in Keys : Count(s, Entry(c)) <= 1, SameEntry(s[m], s[k])
  PROVE  m = k
<1>1. s[k] \in Trade /\ s[m] \in Trade BY LenProperties, ElementOfSeq DEF Running
<1> DEFINE c == [by |-> s[k].by, layer |-> s[k].layer, zone |-> s[k].zone, at |-> s[k].at]
<1>2. c \in Keys
  <2>1. MaxBars \in Nat BY DEF ConstantsAssumption
  <2>2. s[k].at \in 1..MaxBars BY <1>1 DEF Trade
  <2>3. s[k].at \in 1..(MaxBars + 1) BY <2>1, <2>2
  <2> QED BY <1>1, <2>3 DEF Trade, Keys
<1>3. s[k] \in Entry(c) /\ s[m] \in Entry(c) BY <1>1 DEF Entry, SameEntry
<1> HIDE DEF c
<1>4. Count(s, Entry(c)) <= 1 BY <1>2
<1> QED BY <1>3, <1>4, CountOnce

\* A trade that is open after a bar and was open before it has at most got a soft stop.
LEMMA TradeStays ==
  ASSUME ConstantsAssumption, Invariant, NEW b \in Bars, NEW signals \in Arrivals, NEW calm,
         NEW thesis, NEW sizes \in [1..NumLayers -> Sizes],
         NextBar(b, signals, calm, thesis, sizes), Invariant',
         NEW k \in DOMAIN trades, NEW l \in DOMAIN trades', Alike(trades'[l], trades[k])
  PROVE  trades[k] \in Trade /\ Softens(trades'[l], trades[k])
<1> DEFINE i == bar + 1
           pending == Waiting(signals, sizes)
           orders == Queued(signals, calm)
           open == Opens(b, signals, calm, thesis, sizes)
           held == Held(b, signals, calm, thesis, sizes)
           filled == Filled(pending, b, i, thesis)
           entered == Entered(orders, b, i, thesis)
           R == DOMAIN held \ {m \in DOMAIN held : Exits(held[m], b, i)}
<1>0. Typed /\ Distinct /\ Typed' /\ Counted' BY DEF Invariant
<1>1. bar < MaxBars /\ Leave(held, b, i) BY BarParts
<1>2. /\ i \in 1..MaxBars /\ open \in Seq(Running(i)) /\ held \in Seq(Running(i))
      /\ pending \in Seq(Pending(Left(signals), i)) /\ orders \in Seq(Waits(i, skipped) \cup Ordered(i + 1))
  BY <1>0, <1>1, BarTypes
<1>3. open = (trades \o filled) \o entered BY OpenParts DEF Opens
<1>4. held = Softened(open, i, Base(b), NextBrick(Base(b), b.close)) BY DEF Held
<1>5. \A c \in Keys : Count(open, Entry(c)) <= 1 BY <1>0, DistinctBar
<1>6. trades' = Select(held, R) BY <1>1 DEF Leave
<1>7. trades \in Seq(Running(bar)) /\ trades' \in Seq(Running(bar')) BY <1>0 DEF Typed
<1>8. trades[k] \in Trade /\ trades'[l] \in Trade BY <1>7, LenProperties, ElementOfSeq DEF Running
<1> HIDE DEF i, pending, orders, open, held, filled, entered, R
<1>9. R \in SUBSET (DOMAIN held) BY DEF R
<1>10. PICK m \in DOMAIN held : trades'[l] = held[m]
  <2>1. /\ DOMAIN Select(held, R) = 1..Cardinality(R)
        /\ \A n \in 1..Cardinality(R) : Nth(R)[n] \in R /\ Select(held, R)[n] = held[Nth(R)[n]]
    BY <1>2, <1>9, SelectProperties
  <2>2. l \in 1..Cardinality(R) BY <1>6, <2>1
  <2>3. Nth(R)[l] \in DOMAIN held /\ trades'[l] = held[Nth(R)[l]] BY <1>6, <1>9, <2>1, <2>2
  <2> QED BY <2>3
<1>11. m \in DOMAIN open /\ open[m] \in Trade /\ Softens(held[m], open[m])
  BY <1>2, <1>4, SoftenedType
<1>12. k \in DOMAIN open /\ open[k] = trades[k]
  <2>1. filled \in Seq({x \in Running(i) : x.by = "ladder"}) BY <1>2, FilledType DEF filled
  <2>2. entered \in Seq({x \in Running(i) : x.by # "ladder"}) BY <1>2, EnteredType DEF entered
  <2>3. filled \in Seq(Trade) BY <2>1, SeqMonotonic DEF Running
  <2>4. entered \in Seq(Trade) BY <2>2, SeqMonotonic DEF Running
  <2>5. trades \in Seq(Trade) BY <1>7, SeqMonotonic DEF Running
  <2> DEFINE first == trades \o filled
  <2>6. /\ first \in Seq(Trade) /\ Len(first) = Len(trades) + Len(filled)
        /\ \A n \in 1..(Len(trades) + Len(filled)) : n <= Len(trades) => first[n] = trades[n]
    BY <2>3, <2>5, ConcatProperties
  <2>7. Len(trades) \in Nat /\ Len(filled) \in Nat /\ Len(entered) \in Nat /\ DOMAIN trades = 1..Len(trades)
    BY <2>3, <2>4, <2>5, LenProperties
  <2>8. open = first \o entered BY <1>3
  <2> HIDE DEF first
  <2>9. /\ Len(open) = Len(first) + Len(entered)
        /\ \A n \in 1..(Len(first) + Len(entered)) : n <= Len(first) => open[n] = first[n]
    BY <2>4, <2>6, <2>8, ConcatProperties
  <2>10. DOMAIN open = 1..Len(open) BY <1>2, LenProperties
  <2>11. k \in 1..(Len(trades) + Len(filled)) /\ k <= Len(trades) BY <2>7
  <2>12. first[k] = trades[k] /\ k \in 1..Len(first) BY <2>6, <2>11
  <2>13. k \in 1..(Len(first) + Len(entered)) /\ k <= Len(first) BY <2>6, <2>7, <2>11
  <2> QED BY <2>9, <2>10, <2>12, <2>13
<1>13. SameEntry(open[m], open[k])
  <2>1. SameEntry(trades'[l], trades[k]) BY <1>8, AlikeSame
  <2>2. SameEntry(held[m], open[m]) BY <1>11, SoftensType DEF SameEntry
  <2> QED BY <1>10, <1>12, <2>1, <2>2 DEF SameEntry
<1>14. m = k BY <1>2, <1>5, <1>11, <1>12, <1>13, OneTrade
<1> QED BY <1>8, <1>10, <1>11, <1>12, <1>14

\* Without a trailing stop and with a schedule that tightens, the stop of an open trade
\* never moves away from price.
THEOREM NeverLoosens == Spec => StopNeverLoosens
<1> DEFINE Kept ==
      TrailBy = 0 /\ DecayTightens =>
        \A k \in DOMAIN trades, l \in DOMAIN trades' :
          Alike(trades'[l], trades[k]) =>
            Reaches(trades[k].dir, Stop(trades'[l], bar', price'), Stop(trades[k], bar, price))
<1>1. ConstantsAssumption BY ConstantsAssumption
<1>2. Invariant /\ Invariant' /\ [Next]_vars => Kept
  <2> SUFFICES ASSUME Invariant, Invariant', [Next]_vars, TrailBy = 0, DecayTightens,
                      NEW k \in DOMAIN trades, NEW l \in DOMAIN trades', Alike(trades'[l], trades[k])
               PROVE  Reaches(trades[k].dir, Stop(trades'[l], bar', price'), Stop(trades[k], bar, price))
    OBVIOUS
  <2>1. /\ bar \in Int /\ price \in Int /\ bar' \in Int /\ price' \in Int
        /\ trades \in Seq(Running(bar)) /\ trades' \in Seq(Running(bar'))
    BY DEF Invariant, Typed
  <2>2. trades[k] \in Trade BY <2>1, LenProperties, ElementOfSeq DEF Running
  <2>3. ASSUME NEW b \in Bars, NEW signals \in Arrivals, NEW calm \in {FALSE, RegimeGate},
               NEW thesis \in {-1, 0, 1}, NEW sizes \in [1..NumLayers -> Sizes],
               NextBar(b, signals, calm, thesis, sizes)
        PROVE  Reaches(trades[k].dir, Stop(trades'[l], bar', price'), Stop(trades[k], bar, price))
    <3>1. Softens(trades'[l], trades[k]) BY <1>1, <2>3, TradeStays
    <3>2. bar' = bar + 1 BY <2>3, BarParts
    <3>3. bar <= bar' BY <2>1, <3>2
    <3> QED BY <1>1, <2>1, <2>2, <3>1, <3>3, StopAscends
  <2>4. ASSUME trades' = trades, bar' \in {bar, bar + 1}
        PROVE  Reaches(trades[k].dir, Stop(trades'[l], bar', price'), Stop(trades[k], bar, price))
    <3>1. trades[l] \in Trade BY <2>1, <2>4, LenProperties, ElementOfSeq DEF Running
    <3>2. SameEntry(trades[l], trades[k]) BY <2>2, <2>4, <3>1, AlikeSame
    <3>3. \A c \in Keys : Count(trades, Entry(c)) <= 1
      <4>1. ASSUME NEW c \in Keys PROVE Count(trades, Entry(c)) <= 1
        <5>1. Typed /\ Distinct BY DEF Invariant
        <5>2. /\ Count(layers, Entry(c)) \in Nat /\ Count(inverse, Entry(c)) \in Nat
              /\ Count(trades, Entry(c)) \in Nat
          BY <1>1, <5>1, OldPlaces
        <5>3. Placed(Count(layers, Entry(c)), Count(inverse, Entry(c)), Count(trades, Entry(c)))
          BY <5>1 DEF Distinct, Placed
        <5> QED BY <5>2, <5>3 DEF Placed
      <4> QED BY <4>1
    <3>4. l = k BY <1>1, <2>1, <2>4, <3>2, <3>3, OneTrade
    <3>5. Softens(trades'[l], trades[k]) BY <2>4, <3>4 DEF Softens
    <3>6. bar <= bar' BY <2>1, <2>4
    <3> QED BY <1>1, <2>1, <2>2, <3>5, <3>6, StopAscends
  <2>5. CASE EndOfData
    <3>1. trades' = trades /\ bar' = bar BY <2>5 DEF EndOfData
    <3> QED BY <2>4, <3>1
  <2>6. CASE UNCHANGED vars
    <3>1. trades' = trades /\ bar' = bar BY <2>6 DEF vars
    <3> QED BY <2>4, <3>1
  <2>7. ASSUME NEW b \in Bars, NEW signals \in Arrivals, SkipBar(b, signals)
        PROVE  Reaches(trades[k].dir, Stop(trades'[l], bar', price'), Stop(trades[k], bar, price))
    BY <2>4, <2>7, SkipParts DEF Invariant
  <2> QED BY <2>3, <2>5, <2>6, <2>7 DEF Next
<1>3. Kept <=> (TrailBy = 0 /\ DecayTightens =>
                  \A k \in DOMAIN trades, l \in DOMAIN trades' :
                    [trades'[l] EXCEPT !.soft = trades[k].soft] = trades[k] =>
                      Reaches(trades[k].dir, Stop(trades'[l], bar', price'), Stop(trades[k], bar, price)))
  BY DEF Alike
<1> HIDE DEF Kept
<1> QED BY <1>2, <1>3, Invariance, PTL DEF Spec, StopNeverLoosens
=============================================================================
