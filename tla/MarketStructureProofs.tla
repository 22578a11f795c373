------------------------ MODULE MarketStructureProofs ------------------------
(***************************************************************************)
(* Proofs about the loop of MarketStructure: its types, the alternation of *)
(* characters, that its breaks are the first closes beyond the swings,     *)
(* what an arriving bar changes about earlier ones, and that the memory    *)
(* follows the trend, for any pivot length, any bars and any window.       *)
(***************************************************************************)
EXTENDS MarketStructure, FiniteSetTheorems, SequenceTheorems, WellFoundedInduction, TLAPS

-----------------------------------------------------------------------------
\* Every non-empty set of naturals has a least element, and Least finds it.
LEMMA LeastExists ==
  ASSUME NEW S, S \subseteq Nat, S # {}
  PROVE  Least(S) \in S /\ \A y \in S : Least(S) <= y
<1> DEFINE R == {p \in Nat \X Nat : p[1] < p[2]}
<1>1. IsWellFoundedOn(R, Nat) BY NatLessThanWellFounded DEF OpToRel
<1>2. \E x \in S : \A y \in S : ~(<<y, x>> \in R)
  <2> HIDE DEF R
  <2> QED BY <1>1, WFMin
<1>3. \A x, y \in Nat : y < x => <<y, x>> \in R OBVIOUS
<1> HIDE DEF R
<1>4. \E x \in S : \A y \in S : x <= y
  <2>1. PICK x \in S : \A y \in S : ~(<<y, x>> \in R) BY <1>2
  <2>2. \A y \in S : ~(y < x) BY <2>1, <1>3
  <2>3. \A y \in S : x <= y BY <2>2
  <2> QED BY <2>3
<1> QED BY <1>4 DEF Least

\* The least close of a range is the only one up to itself.
LEMMA FirstClose ==
  ASSUME NEW s, NEW side, NEW k, NEW from \in Nat, NEW to \in Int,
         Closes(s, side, k, from, to) # {}
  PROVE  LET j == Least(Closes(s, side, k, from, to))
         IN j \in from..to /\ Closes(s, side, k, from, j) = {j}
<1> DEFINE C == Closes(s, side, k, from, to)
           j == Least(C)
<1>1. C \subseteq from..to /\ C \subseteq Nat BY DEF Closes
<1>0. C # {} OBVIOUS
<1>2. j \in C /\ \A y \in C : j <= y
  <2> HIDE DEF C
  <2> QED BY <1>0, <1>1, LeastExists
<1>3. \A y \in from..j : y \in C <=> y = j BY <1>1, <1>2
<1>4. Closes(s, side, k, from, j) = {y \in from..j : y \in C} BY <1>1, <1>2 DEF Closes
<1>5. j \in from..j BY <1>1, <1>2
<1> HIDE DEF C, j
<1>6. Closes(s, side, k, from, j) = {j} BY <1>3, <1>4, <1>5
<1> QED BY <1>1, <1>2, <1>6 DEF C, j

\* Conversely a close that is the only one up to itself is the least one.
LEMMA OnlyClose ==
  ASSUME NEW s, NEW side, NEW k, NEW from \in Nat, NEW to \in Int, NEW j \in from..to,
         Closes(s, side, k, from, j) = {j}
  PROVE  /\ Closes(s, side, k, from, to) # {}
         /\ Least(Closes(s, side, k, from, to)) = j
<1> DEFINE C == Closes(s, side, k, from, to)
<1>1. j \in C BY DEF Closes
<1>2. C \subseteq Nat BY DEF Closes
<1>3. \A y \in C : j <= y
  <2> SUFFICES ASSUME NEW y \in C, y < j PROVE FALSE BY <1>2
  <2>1. y \in Closes(s, side, k, from, j) BY <1>2 DEF Closes
  <2> QED BY <2>1
<1>4. Least(C) \in C /\ \A y \in C : Least(C) <= y
  <2> HIDE DEF C
  <2> QED BY <1>1, <1>2, LeastExists
<1>5. Least(C) = j BY <1>1, <1>2, <1>3, <1>4
<1> QED BY <1>1, <1>5

-----------------------------------------------------------------------------
\* The state of the loop for one side, when the bars up to h have been decided.

SwingsTo(s, side, h) == {k \in 1..h : IsPivot(s, side, k, PivotLen)}

Broken(brks, side) ==
  {<<brks[k].swing, brks[k].bar>> : k \in {l \in DOMAIN brks : brks[l].side = side}}

\* q is the first close beyond swing p, and came before the next swing had passed.
IsFirstClose(s, side, h, p, q) ==
  /\ p \in SwingsTo(s, side, h) /\ q \in 1..Len(s)
  /\ Closes(s, side, p, p + 1, q) = {q}
  /\ \E b \in SwingsTo(s, side, h) : b >= q
  /\ ~\E b \in SwingsTo(s, side, h) : p < b /\ b < q

FirstCloses(s, side, h) ==
  {c \in SwingsTo(s, side, h) \X (1..Len(s)) : IsFirstClose(s, side, h, c[1], c[2])}

Typed(st) == st.last \in [Sides -> Nat] /\ st.breaks \in Seq(Break)

\* The last swing is known, and of the earlier ones exactly the first closes are
\* recorded, each once.
Decided(st, s, side, h) ==
  /\ SwingsTo(s, side, h) = {} => st.last[side] = 0
  /\ SwingsTo(s, side, h) # {} => /\ st.last[side] \in SwingsTo(s, side, h)
                                  /\ \A k \in SwingsTo(s, side, h) : k <= st.last[side]
  /\ Broken(st.breaks, side) = FirstCloses(s, side, h)
  /\ \A k \in DOMAIN st.breaks :
       st.breaks[k].side = side => st.breaks[k].swing < st.last[side]
  /\ \A k, l \in DOMAIN st.breaks :
       /\ st.breaks[k].side = side /\ st.breaks[l].side = side
       /\ st.breaks[k].swing = st.breaks[l].swing
       => k = l

\* A recorded break adds its swing and bar to those of its side.
LEMMA BrokenGrows ==
  ASSUME NEW brks \in Seq(Break), NEW br \in Break, NEW side \in Sides
  PROVE  Broken(Append(brks, br), side) =
           IF br.side = side THEN Broken(brks, side) \union {<<br.swing, br.bar>>}
           ELSE Broken(brks, side)
<1> DEFINE new == Append(brks, br)
<1>1. /\ DOMAIN brks = 1..Len(brks) /\ Len(brks) \in Nat
      /\ DOMAIN new = 1..(Len(brks) + 1)
      /\ new[Len(brks) + 1] = br
      /\ \A k \in 1..Len(brks) : new[k] = brks[k]
  BY LenProperties
<1> HIDE DEF new
<1>2. {l \in DOMAIN new : new[l].side = side} =
        {l \in DOMAIN brks : brks[l].side = side} \union
        (IF br.side = side THEN {Len(brks) + 1} ELSE {})
  BY <1>1
<1>3. \A l \in DOMAIN brks : new[l] = brks[l] BY <1>1
<1>4. Broken(new, side) =
        IF br.side = side THEN Broken(brks, side) \union {<<br.swing, br.bar>>}
        ELSE Broken(brks, side)
  <2>1. CASE br.side = side
    BY <2>1, <1>1, <1>2, <1>3 DEF Broken
  <2>2. CASE br.side # side
    BY <2>2, <1>1, <1>2, <1>3 DEF Broken
  <2> QED BY <2>1, <2>2
<1> QED BY <1>4 DEF new

\* The closes through the last swing, and the break they make.
Through(st, s, side, c) == Closes(s, side, st.last[side], st.last[side] + 1, c)

Found(st, s, side, c) ==
  [bar |-> Least(Through(st, s, side, c)), swing |-> st.last[side], side |-> side,
   choch |-> st.trend # Direction(side)]

LastAfter(st, side, c) == [st.last EXCEPT ![side] = c]

Breaks(st, s, side, c) == st.last[side] # 0 /\ Through(st, s, side, c) # {}

\* What confirming a swing does to the last swings and the breaks.
LEMMA ConfirmedFields ==
  ASSUME NEW st, NEW s, NEW side, NEW c
  PROVE  /\ ConfirmSwing(st, s, side, c).last = LastAfter(st, side, c)
         /\ Breaks(st, s, side, c) =>
              /\ ConfirmSwing(st, s, side, c).breaks = Append(st.breaks, Found(st, s, side, c))
              /\ ConfirmSwing(st, s, side, c).trend = Direction(side)
         /\ ~Breaks(st, s, side, c) => /\ ConfirmSwing(st, s, side, c).breaks = st.breaks
                                       /\ ConfirmSwing(st, s, side, c).trend = st.trend
BY DEF ConfirmSwing, Breaks, Through, Found, LastAfter

LEMMA FoundIsBreak ==
  ASSUME NEW st, Typed(st), NEW s, NEW side \in Sides, NEW c \in Nat, Breaks(st, s, side, c)
  PROVE  Found(st, s, side, c) \in Break
<1> DEFINE C == Through(st, s, side, c)
<1>1. st.last[side] \in Nat BY DEF Typed
<1>2. C \subseteq Nat BY <1>1 DEF Through, Closes
<1>3. C # {} BY DEF Breaks
<1> HIDE DEF C
<1>4. Least(C) \in Nat BY <1>2, <1>3, LeastExists
<1> QED BY <1>1, <1>4 DEF C, Found, Break, Sides

LEMMA ConfirmedTyped ==
  ASSUME NEW st, Typed(st), NEW s, NEW side \in Sides, NEW c \in Nat
  PROVE  Typed(ConfirmSwing(st, s, side, c))
<1> DEFINE new == ConfirmSwing(st, s, side, c)
<1>1. st.breaks \in Seq(Break) /\ st.last \in [Sides -> Nat] BY DEF Typed
<1>2. new.last = LastAfter(st, side, c) BY ConfirmedFields
<1>3. LastAfter(st, side, c) \in [Sides -> Nat] BY <1>1 DEF LastAfter
<1>4. Breaks(st, s, side, c) => new.breaks = Append(st.breaks, Found(st, s, side, c))
  BY ConfirmedFields
<1>5. ~Breaks(st, s, side, c) => new.breaks = st.breaks BY ConfirmedFields
<1>6. Breaks(st, s, side, c) => Found(st, s, side, c) \in Break BY FoundIsBreak
<1> HIDE DEF new
<1>7. new.breaks \in Seq(Break)
  <2> DEFINE br == Found(st, s, side, c)
             old == st.breaks
  <2>1. old \in Seq(Break) BY <1>1
  <2>2. CASE Breaks(st, s, side, c)
    <3>1. br \in Break /\ new.breaks = Append(old, br) BY <1>4, <1>6, <2>2
    <3> HIDE DEF br, old
    <3> QED BY <2>1, <3>1
  <2> QED BY <2>1, <2>2, <1>5
<1> QED BY <1>2, <1>3, <1>7 DEF Typed, new

-----------------------------------------------------------------------------
LEMMA FirstClosesArePairs ==
  ASSUME NEW s, NEW side, NEW h, NEW x
  PROVE  x \in FirstCloses(s, side, h) <=>
           \E p, q : x = <<p, q>> /\ IsFirstClose(s, side, h, p, q)
<1>1. ASSUME x \in FirstCloses(s, side, h)
      PROVE  x = <<x[1], x[2]>> /\ IsFirstClose(s, side, h, x[1], x[2])
  BY <1>1 DEF FirstCloses
<1>2. ASSUME NEW p, NEW q, x = <<p, q>>, IsFirstClose(s, side, h, p, q)
      PROVE  x \in FirstCloses(s, side, h)
  <2>1. p \in SwingsTo(s, side, h) /\ q \in 1..Len(s) BY <1>2 DEF IsFirstClose
  <2>2. x[1] = p /\ x[2] = q BY <1>2
  <2>3. x \in SwingsTo(s, side, h) \X (1..Len(s)) BY <1>2, <2>1
  <2> QED BY <1>2, <2>2, <2>3 DEF FirstCloses
<1> QED BY <1>1, <1>2

\* A new swing decides about the one before it and about no other.
LEMMA FirstCloseOfLast ==
  ASSUME NEW s, Len(s) \in Nat, NEW side, NEW c \in 1..Len(s), IsPivot(s, side, c, PivotLen),
         NEW a \in SwingsTo(s, side, c - 1), \A k \in SwingsTo(s, side, c - 1) : k <= a,
         NEW p, NEW q
  PROVE  LET C == Closes(s, side, a, a + 1, c)
         IN IsFirstClose(s, side, c, p, q) <=>
              \/ IsFirstClose(s, side, c - 1, p, q)
              \/ C # {} /\ p = a /\ q = Least(C)
<1> DEFINE C == Closes(s, side, a, a + 1, c)
           S == SwingsTo(s, side, c - 1)
           T == SwingsTo(s, side, c)
<1>1. T = S \union {c} /\ S \subseteq 1..(c - 1)
  BY DEF SwingsTo
<1>2. a \in 1..(c - 1) /\ a + 1 \in Nat /\ c \in Int BY <1>1
<1>3. C # {} => Least(C) \in (a + 1)..c /\ Closes(s, side, a, a + 1, Least(C)) = {Least(C)}
  BY <1>2, FirstClose
<1>4. \A x, y : Closes(s, side, x, x + 1, y) = {y} => y \in (x + 1)..y BY DEF Closes
<1> HIDE DEF S, T, C
<1>5. ASSUME IsFirstClose(s, side, c - 1, p, q) PROVE IsFirstClose(s, side, c, p, q)
  <2>1. /\ p \in S /\ q \in 1..Len(s) /\ Closes(s, side, p, p + 1, q) = {q}
        /\ \E b \in S : b >= q
        /\ ~\E b \in S : p < b /\ b < q
    BY <1>5 DEF IsFirstClose, S
  <2>2. q <= c - 1 BY <2>1, <1>1
  <2>3. ~\E b \in T : p < b /\ b < q BY <2>1, <2>2, <1>1
  <2> QED BY <2>1, <2>3, <1>1 DEF IsFirstClose, T
<1>6. ASSUME C # {}, p = a, q = Least(C) PROVE IsFirstClose(s, side, c, p, q)
  <2>1. q \in (a + 1)..c /\ Closes(s, side, p, p + 1, q) = {q} BY <1>3, <1>6
  <2>2. ~\E b \in T : p < b /\ b < q
    <3>1. \A b \in S : ~(a < b) BY <1>1, <1>2 DEF S
    <3> QED BY <2>1, <3>1, <1>1, <1>6
  <2>3. p \in T /\ c \in T /\ c >= q /\ q \in 1..Len(s) BY <2>1, <1>1, <1>2, <1>6 DEF S
  <2> QED BY <2>1, <2>2, <2>3 DEF IsFirstClose, T
<1>7. ASSUME IsFirstClose(s, side, c, p, q)
      PROVE  IsFirstClose(s, side, c - 1, p, q) \/ (C # {} /\ p = a /\ q = Least(C))
  <2>1. /\ p \in T /\ q \in 1..Len(s) /\ Closes(s, side, p, p + 1, q) = {q}
        /\ \E b \in T : b >= q
        /\ ~\E b \in T : p < b /\ b < q
    BY <1>7 DEF IsFirstClose, T
  <2>2. q <= c BY <2>1, <1>1
  <2>3. q > p
    <3>1. q \in (p + 1)..q BY <2>1, <1>4
    <3> QED BY <3>1, <2>1, <1>1
  <2>4. p \in S BY <2>1, <2>2, <2>3, <1>1
  <2>5. p <= a BY <2>4 DEF S
  <2>6. CASE p < a
    <3>1. a \in S /\ a \in T BY <1>1 DEF S
    <3>2. q <= a BY <2>1, <2>6, <3>1, <1>2
    <3>3. ~\E b \in S : p < b /\ b < q BY <2>1, <1>1
    <3> QED BY <2>1, <2>4, <3>1, <3>2, <3>3 DEF IsFirstClose, S
  <2>7. CASE p = a
    <3>1. q \in (a + 1)..c BY <2>1, <2>2, <2>3, <2>7, <1>2
    <3>2. Closes(s, side, a, a + 1, q) = {q} BY <2>1, <2>7
    <3>3. C # {} /\ Least(C) = q BY <3>1, <3>2, <1>2, OnlyClose DEF C
    <3> QED BY <3>3, <2>7
  <2> QED BY <2>4, <2>5, <2>6, <2>7, <1>1, <1>2
<1> QED BY <1>5, <1>6, <1>7 DEF C

\* The first swing decides about none.
LEMMA NoFirstClose ==
  ASSUME NEW s, Len(s) \in Nat, NEW side, NEW c \in 1..Len(s),
         SwingsTo(s, side, c - 1) = {}, NEW p, NEW q
  PROVE  ~IsFirstClose(s, side, c, p, q) /\ ~IsFirstClose(s, side, c - 1, p, q)
<1>1. SwingsTo(s, side, c) \subseteq {c} BY DEF SwingsTo
<1>2. ASSUME IsFirstClose(s, side, c, p, q) PROVE FALSE
  <2>1. p = c /\ q \in 1..Len(s) /\ q <= c BY <1>1, <1>2 DEF IsFirstClose
  <2>2. q \in (p + 1)..q BY <1>2 DEF IsFirstClose, Closes
  <2> QED BY <2>1, <2>2
<1> QED BY <1>2 DEF IsFirstClose

\* Confirming a swing decides about the one before it.
LEMMA SwingDecided ==
  ASSUME NEW s, Len(s) \in Nat, NEW side \in Sides, NEW c \in Nat, c \in 1..Len(s), NEW st, Typed(st),
         IsPivot(s, side, c, PivotLen), Decided(st, s, side, c - 1)
  PROVE  Decided(ConfirmSwing(st, s, side, c), s, side, c)
<1> DEFINE a == st.last[side]
           C == Through(st, s, side, c)
           br == Found(st, s, side, c)
           new == ConfirmSwing(st, s, side, c)
           S == SwingsTo(s, side, c - 1)
           T == SwingsTo(s, side, c)
<1>1. T = S \union {c} /\ S \subseteq 1..(c - 1) BY DEF SwingsTo
<1>2. /\ S = {} => a = 0
      /\ S # {} => a \in S /\ \A k \in S : k <= a
      /\ Broken(st.breaks, side) = FirstCloses(s, side, c - 1)
      /\ \A k \in DOMAIN st.breaks : st.breaks[k].side = side => st.breaks[k].swing < a
      /\ \A k, l \in DOMAIN st.breaks :
           /\ st.breaks[k].side = side /\ st.breaks[l].side = side
           /\ st.breaks[k].swing = st.breaks[l].swing
           => k = l
  BY DEF Decided
<1>3. /\ new.last = [st.last EXCEPT ![side] = c]
      /\ a # 0 /\ C # {} => br \in Break /\ new.breaks = Append(st.breaks, br)
      /\ ~(a # 0 /\ C # {}) => new.breaks = st.breaks
  <2>3. new.last = LastAfter(st, side, c) BY ConfirmedFields
  <2>4. Breaks(st, s, side, c) => br \in Break BY FoundIsBreak
  <2>5. Breaks(st, s, side, c) => new.breaks = Append(st.breaks, br) BY ConfirmedFields
  <2>6. ~Breaks(st, s, side, c) => new.breaks = st.breaks BY ConfirmedFields
  <2> QED BY <2>3, <2>4, <2>5, <2>6 DEF Breaks, LastAfter
<1>4. new.last[side] = c /\ st.breaks \in Seq(Break) BY <1>3 DEF Typed
<1>5. br.side = side /\ br.swing = a /\ br.bar = Least(C) BY DEF Found
<1>6. a # 0 <=> S # {} BY <1>1, <1>2
<1>7. S # {} => \A p, q : IsFirstClose(s, side, c, p, q) <=>
                   \/ IsFirstClose(s, side, c - 1, p, q)
                   \/ C # {} /\ p = a /\ q = Least(C)
  BY <1>2, FirstCloseOfLast DEF Through
<1>8. S = {} => \A p, q : ~IsFirstClose(s, side, c, p, q) /\ ~IsFirstClose(s, side, c - 1, p, q)
  BY NoFirstClose
<1>9. a \in Nat /\ a < c BY <1>1, <1>2
<1> HIDE DEF C, S, T, a, new, br
<1>10. Broken(new.breaks, side) = FirstCloses(s, side, c)
  <2>1. ASSUME a # 0, C # {}
        PROVE  FirstCloses(s, side, c) = FirstCloses(s, side, c - 1) \union {<<a, Least(C)>>}
    <3>1. \A p, q : IsFirstClose(s, side, c, p, q) <=>
              IsFirstClose(s, side, c - 1, p, q) \/ (p = a /\ q = Least(C))
      BY <1>6, <1>7, <2>1
    <3> QED BY <3>1, FirstClosesArePairs
  <2>2. ASSUME ~(a # 0 /\ C # {})
        PROVE  FirstCloses(s, side, c) = FirstCloses(s, side, c - 1)
    <3>1. \A p, q : IsFirstClose(s, side, c, p, q) <=> IsFirstClose(s, side, c - 1, p, q)
      BY <1>6, <1>7, <1>8, <2>2
    <3>2. \A x : x \in FirstCloses(s, side, c) <=> x \in FirstCloses(s, side, c - 1)
      BY <3>1, FirstClosesArePairs
    <3>3. \A x \in FirstCloses(s, side, c) : x \in FirstCloses(s, side, c - 1) BY <3>2
    <3>4. \A x \in FirstCloses(s, side, c - 1) : x \in FirstCloses(s, side, c) BY <3>2
    <3> DEFINE F == FirstCloses(s, side, c)
               G == FirstCloses(s, side, c - 1)
    <3>5. F \subseteq G /\ G \subseteq F BY <3>3, <3>4
    <3> HIDE DEF F, G
    <3>6. F = G BY <3>5
    <3> QED BY <3>6 DEF F, G
  <2>3. CASE a # 0 /\ C # {}
    <3>1. Broken(Append(st.breaks, br), side) = Broken(st.breaks, side) \union {<<br.swing, br.bar>>}
      BY <1>3, <1>4, <1>5, <2>3, BrokenGrows
    <3> QED BY <3>1, <1>2, <1>3, <1>5, <2>1, <2>3
  <2>4. CASE ~(a # 0 /\ C # {}) BY <1>2, <1>3, <2>2, <2>4
  <2> QED BY <2>3, <2>4
<1>11. /\ \A k \in DOMAIN new.breaks : new.breaks[k].side = side => new.breaks[k].swing < c
       /\ \A k, l \in DOMAIN new.breaks :
            /\ new.breaks[k].side = side /\ new.breaks[l].side = side
            /\ new.breaks[k].swing = new.breaks[l].swing
            => k = l
  <2>1. CASE a # 0 /\ C # {}
    <3> DEFINE m == Len(st.breaks)
    <3>1. /\ m \in Nat /\ DOMAIN st.breaks = 1..m /\ DOMAIN new.breaks = 1..(m + 1)
          /\ new.breaks[m + 1] = br
          /\ \A k \in 1..m : new.breaks[k] = st.breaks[k] /\ st.breaks[k] \in Break
      BY <1>3, <1>4, <2>1, LenProperties, ElementOfSeq
    <3> HIDE DEF m
    <3>2. \A k \in 1..m : st.breaks[k].swing \in Nat BY <3>1 DEF Break
    <3>3. \A k \in 1..m : st.breaks[k].side = side => st.breaks[k].swing < a BY <3>1, <1>2
    <3>4. \A k \in 1..(m + 1) : k \in 1..m \/ k = m + 1 BY <3>1
    <3>5. \A k \in DOMAIN new.breaks : new.breaks[k].side = side =>
             new.breaks[k].swing < c /\ (k # m + 1 => new.breaks[k].swing < a)
      <4> TAKE k \in DOMAIN new.breaks
      <4>1. CASE k = m + 1 BY <4>1, <3>1, <1>5, <1>9
      <4>2. CASE k \in 1..m BY <4>2, <3>1, <3>2, <3>3, <1>9
      <4> QED BY <4>1, <4>2, <3>1, <3>4
    <3>6. \A k, l \in DOMAIN new.breaks :
            /\ new.breaks[k].side = side /\ new.breaks[l].side = side
            /\ new.breaks[k].swing = new.breaks[l].swing
            => k = l
      <4> SUFFICES ASSUME NEW k \in DOMAIN new.breaks, NEW l \in DOMAIN new.breaks,
                          new.breaks[k].side = side, new.breaks[l].side = side,
                          new.breaks[k].swing = new.breaks[l].swing
                   PROVE  k = l
        OBVIOUS
      <4>1. CASE k \in 1..m /\ l \in 1..m BY <4>1, <3>1, <1>2
      <4>2. CASE k = m + 1 /\ l \in 1..m BY <4>2, <3>1, <3>2, <3>3, <1>5, <1>9
      <4>3. CASE k \in 1..m /\ l = m + 1 BY <4>3, <3>1, <3>2, <3>3, <1>5, <1>9
      <4> QED BY <4>1, <4>2, <4>3, <3>1, <3>4
    <3> QED BY <3>5, <3>6
  <2>2. CASE ~(a # 0 /\ C # {})
    <3>1. \A k \in DOMAIN st.breaks : st.breaks[k] \in Break BY <1>4, ElementOfSeq, LenProperties
    <3>2. \A k \in DOMAIN st.breaks : st.breaks[k].swing \in Nat BY <3>1 DEF Break
    <3> QED BY <3>2, <2>2, <1>2, <1>3, <1>9
  <2> QED BY <2>1, <2>2
<1>12. T # {} /\ c \in T /\ \A k \in T : k <= c BY <1>1
<1> QED BY <1>4, <1>10, <1>11, <1>12 DEF Decided, T, new

\* A bar that is no swing decides nothing.
LEMMA NoSwingDecided ==
  ASSUME NEW s, NEW side, NEW c \in Int, NEW st,
         ~IsPivot(s, side, c, PivotLen), Decided(st, s, side, c - 1)
  PROVE  Decided(st, s, side, c)
<1>1. SwingsTo(s, side, c) = SwingsTo(s, side, c - 1) BY DEF SwingsTo
<1>2. FirstCloses(s, side, c) = FirstCloses(s, side, c - 1)
  BY <1>1 DEF FirstCloses, IsFirstClose
<1> QED BY <1>1, <1>2 DEF Decided

\* A swing of one side leaves the other side as it is.
LEMMA OtherSideDecided ==
  ASSUME NEW s, NEW side \in Sides, NEW other \in Sides, other # side, NEW c \in Nat,
         NEW st, Typed(st), NEW h, Decided(st, s, other, h)
  PROVE  Decided(ConfirmSwing(st, s, side, c), s, other, h)
<1> DEFINE new == ConfirmSwing(st, s, side, c)
           br == Found(st, s, side, c)
<1>1. new.last = LastAfter(st, side, c) BY ConfirmedFields
<1>2. Breaks(st, s, side, c) => br \in Break BY FoundIsBreak
<1>3. Breaks(st, s, side, c) => new.breaks = Append(st.breaks, br) BY ConfirmedFields
<1>4. ~Breaks(st, s, side, c) => new.breaks = st.breaks BY ConfirmedFields
<1>5. new.last[other] = st.last[other] BY <1>1 DEF LastAfter, Typed
<1>6. br.side = side BY DEF Found
<1>7. st.breaks \in Seq(Break) BY DEF Typed
<1>8. /\ Broken(st.breaks, other) = FirstCloses(s, other, h)
      /\ \A k \in DOMAIN st.breaks :
           st.breaks[k].side = other => st.breaks[k].swing < st.last[other]
      /\ \A k, l \in DOMAIN st.breaks :
           /\ st.breaks[k].side = other /\ st.breaks[l].side = other
           /\ st.breaks[k].swing = st.breaks[l].swing
           => k = l
  BY DEF Decided
<1> HIDE DEF new, br
<1>9. /\ Broken(new.breaks, other) = FirstCloses(s, other, h)
      /\ \A k \in DOMAIN new.breaks :
           new.breaks[k].side = other => new.breaks[k].swing < st.last[other]
      /\ \A k, l \in DOMAIN new.breaks :
           /\ new.breaks[k].side = other /\ new.breaks[l].side = other
           /\ new.breaks[k].swing = new.breaks[l].swing
           => k = l
  <2>1. CASE Breaks(st, s, side, c)
    <3> DEFINE m == Len(st.breaks)
    <3>1. /\ m \in Nat /\ DOMAIN st.breaks = 1..m /\ DOMAIN new.breaks = 1..(m + 1)
          /\ new.breaks[m + 1] = br
          /\ \A k \in 1..m : new.breaks[k] = st.breaks[k]
      BY <1>2, <1>3, <1>7, <2>1, LenProperties
    <3>2. Broken(Append(st.breaks, br), other) = Broken(st.breaks, other)
      BY <1>2, <1>6, <1>7, <2>1, BrokenGrows
    <3> HIDE DEF m
    <3>3. \A k \in DOMAIN new.breaks : new.breaks[k].side = other =>
            k \in DOMAIN st.breaks /\ new.breaks[k] = st.breaks[k]
      BY <3>1, <1>6
    <3>4. Broken(new.breaks, other) = FirstCloses(s, other, h) BY <3>2, <1>3, <1>8, <2>1
    <3> QED BY <3>3, <3>4, <1>8
  <2>2. CASE ~Breaks(st, s, side, c) BY <2>2, <1>4, <1>8
  <2> QED BY <2>1, <2>2
<1> QED BY <1>5, <1>9 DEF Decided, new

\* Only the last swings and the breaks are looked at.
LEMMA DecidedFields ==
  ASSUME NEW s, NEW side, NEW h, NEW st, NEW tt, st.last = tt.last, st.breaks = tt.breaks,
         Decided(st, s, side, h)
  PROVE  Decided(tt, s, side, h)
BY DEF Decided

\* One more bar changes nothing about swings that are confirmed already.
LEMMA NewBarDecidesNothing ==
  ASSUME NEW S, NEW s \in Seq(S), NEW b \in S, NEW side, NEW st, PivotLen \in Nat,
         Decided(st, s, side, Len(s) - PivotLen)
  PROVE  Decided(st, Append(s, b), side, Len(s) - PivotLen)
<1> DEFINE t == Append(s, b)
           h == Len(s) - PivotLen
<1>1. /\ Len(s) \in Nat /\ Len(t) = Len(s) + 1
      /\ \A k \in 1..Len(s) : t[k] = s[k]
  OBVIOUS
<1> HIDE DEF t
<1>2. \A k \in 1..Len(s) : Extreme(t, side, k) = Extreme(s, side, k) BY <1>1 DEF Extreme
<1>3. \A k \in 1..h : IsPivot(t, side, k, PivotLen) <=> IsPivot(s, side, k, PivotLen)
  <2> TAKE k \in 1..h
  <2>1. k \in 1..Len(s) /\ k + PivotLen <= Len(s) /\ k + PivotLen <= Len(t) BY <1>1
  <2>2. k - PivotLen >= 1 => (k - PivotLen)..(k + PivotLen) \subseteq 1..Len(s) BY <2>1
  <2>3. k - PivotLen >= 1 =>
          \A j \in (k - PivotLen)..(k + PivotLen) : Extreme(t, side, j) = Extreme(s, side, j)
    BY <2>2, <1>2
  <2> QED BY <2>1, <2>3, <1>2 DEF IsPivot
<1>4. SwingsTo(t, side, h) = SwingsTo(s, side, h) BY <1>3 DEF SwingsTo
<1>5. ASSUME NEW p \in 1..h, NEW q, q <= h, q \in Int
      PROVE  Closes(t, side, p, p + 1, q) = Closes(s, side, p, p + 1, q)
  <2>1. ASSUME NEW j \in (p + 1)..q PROVE t[j] = s[j]
    <3>1. j \in 1..Len(s) BY <1>1, <1>5
    <3> QED BY <1>1, <3>1
  <2>2. Extreme(t, side, p) = Extreme(s, side, p) BY <1>1, <1>2
  <2> QED BY <2>1, <2>2 DEF Closes
<1>6. ASSUME NEW p, NEW q
      PROVE  IsFirstClose(t, side, h, p, q) <=> IsFirstClose(s, side, h, p, q)
  <2>1. SwingsTo(s, side, h) \subseteq 1..h BY DEF SwingsTo
  <2>2. ASSUME p \in SwingsTo(s, side, h), q \in Int, \E d \in SwingsTo(s, side, h) : d >= q
        PROVE  /\ Closes(t, side, p, p + 1, q) = Closes(s, side, p, p + 1, q)
               /\ q \in 1..Len(s) <=> q \in 1..Len(t)
    <3>1. q <= h /\ p \in 1..h BY <2>1, <2>2, <1>1
    <3>2. Closes(t, side, p, p + 1, q) = Closes(s, side, p, p + 1, q) BY <3>1, <2>2, <1>5
    <3>3. q <= Len(s) /\ q <= Len(t) BY <3>1, <2>2, <1>1
    <3> QED BY <3>2, <3>3, <2>2, <1>1
  <2> QED BY <2>2, <1>4 DEF IsFirstClose
<1>7. FirstCloses(t, side, h) = FirstCloses(s, side, h)
  <2> DEFINE F == FirstCloses(t, side, h)
             G == FirstCloses(s, side, h)
  <2>1. \A x : x \in F <=> x \in G BY <1>6, FirstClosesArePairs
  <2> HIDE DEF F, G
  <2>2. F \subseteq G /\ G \subseteq F BY <2>1
  <2>3. F = G BY <2>2
  <2> QED BY <2>3 DEF F, G
<1> QED BY <1>4, <1>7 DEF Decided, t

-----------------------------------------------------------------------------
\* Trend and characters.

\* A break is a CHoCH when it goes against the one before it, and the trend is the
\* direction of the last one.
Alternates(st) ==
  /\ \A k \in DOMAIN st.breaks :
       st.breaks[k].choch <=> Direction(st.breaks[k].side) #
                                IF k = 1 THEN 1 ELSE Direction(st.breaks[k - 1].side)
  /\ st.trend = IF st.breaks = <<>> THEN 1 ELSE Direction(st.breaks[Len(st.breaks)].side)

LEMMA SwingAlternates ==
  ASSUME NEW st, Typed(st), Alternates(st), NEW s, NEW side \in Sides, NEW c \in Nat
  PROVE  Alternates(ConfirmSwing(st, s, side, c))
<1> DEFINE new == ConfirmSwing(st, s, side, c)
           br == Found(st, s, side, c)
<1>1. Breaks(st, s, side, c) => br \in Break BY FoundIsBreak
<1>2. Breaks(st, s, side, c) => new.breaks = Append(st.breaks, br) BY ConfirmedFields
<1>3. Breaks(st, s, side, c) => new.trend = Direction(side) BY ConfirmedFields
<1>4. ~Breaks(st, s, side, c) => new.breaks = st.breaks BY ConfirmedFields
<1>5. ~Breaks(st, s, side, c) => new.trend = st.trend BY ConfirmedFields
<1>6. br.side = side /\ (br.choch <=> st.trend # Direction(side)) BY DEF Found
<1>7. st.breaks \in Seq(Break) BY DEF Typed
<1> HIDE DEF new, br
<1>8. CASE Breaks(st, s, side, c)
  <2> DEFINE m == Len(st.breaks)
  <2>1. /\ m \in Nat /\ DOMAIN st.breaks = 1..m /\ DOMAIN new.breaks = 1..(m + 1)
        /\ new.breaks[m + 1] = br
        /\ \A k \in 1..m : new.breaks[k] = st.breaks[k]
        /\ Len(new.breaks) = m + 1 /\ new.breaks # <<>>
        /\ st.breaks = <<>> <=> m = 0
    <3> DEFINE old == st.breaks
               all == Append(old, br)
    <3>1. br \in Break /\ new.breaks = all BY <1>1, <1>2, <1>8
    <3>2. old \in Seq(Break) BY <1>7
    <3>3. /\ all # <<>> /\ Len(all) = Len(old) + 1
          /\ \A k \in 1..Len(old) : all[k] = old[k]
          /\ all[Len(old) + 1] = br /\ all \in Seq(Break)
      <4> HIDE DEF old
      <4> QED BY <3>1, <3>2, AppendProperties
    <3>4. Len(old) \in Nat /\ DOMAIN old = 1..Len(old) /\ (old = <<>> <=> Len(old) = 0)
      <4> HIDE DEF old
      <4> QED BY <3>2, LenProperties, EmptySeq
    <3> HIDE DEF all
    <3>5. DOMAIN all = 1..Len(all) BY <3>3, LenProperties
    <3> QED BY <3>1, <3>3, <3>4, <3>5
  <2>2. st.trend = IF m = 0 THEN 1 ELSE Direction(st.breaks[m].side) BY <2>1 DEF Alternates
  <2>3. \A k \in 1..m : st.breaks[k].choch <=> Direction(st.breaks[k].side) #
                            IF k = 1 THEN 1 ELSE Direction(st.breaks[k - 1].side)
    BY <2>1 DEF Alternates
  <2> HIDE DEF m
  <2>4. \A k \in DOMAIN new.breaks :
          new.breaks[k].choch <=> Direction(new.breaks[k].side) #
                                    IF k = 1 THEN 1 ELSE Direction(new.breaks[k - 1].side)
    <3> TAKE k \in DOMAIN new.breaks
    <3>1. CASE k = m + 1
      <4>1. k = 1 <=> m = 0 BY <3>1, <2>1
      <4>2. k # 1 => new.breaks[k - 1] = st.breaks[m] BY <3>1, <2>1
      <4> QED BY <3>1, <4>1, <4>2, <2>1, <2>2, <1>6
    <3>2. CASE k \in 1..m
      <4>1. k # 1 => new.breaks[k - 1] = st.breaks[k - 1] BY <3>2, <2>1
      <4> QED BY <3>2, <4>1, <2>1, <2>3
    <3> QED BY <3>1, <3>2, <2>1
  <2> QED BY <2>1, <2>4, <1>3, <1>6, <1>8 DEF Alternates, new
<1>9. CASE ~Breaks(st, s, side, c) BY <1>9, <1>4, <1>5 DEF Alternates, new
<1> QED BY <1>8, <1>9

-----------------------------------------------------------------------------
\* The loop.

\* What holds of the loop's state when the bars up to h have been decided.
Sound(st, s, h) ==
  Typed(st) /\ Alternates(st) /\ \A side \in Sides : Decided(st, s, side, h)

LEMMA ConfirmedSound ==
  ASSUME NEW s, Len(s) \in Nat, NEW c \in Int, c <= Len(s), PivotLen \in Nat,
         NEW st, Sound(st, s, c - 1)
  PROVE  Sound(Confirmed(st, s, c), s, c)
<1> DEFINE high == IF IsPivot(s, "high", c, PivotLen) THEN ConfirmSwing(st, s, "high", c) ELSE st
           low == IF IsPivot(s, "low", c, PivotLen) THEN ConfirmSwing(high, s, "low", c) ELSE high
<1>1. Confirmed(st, s, c) = low BY DEF Confirmed
<1>2. "high" \in Sides /\ "low" \in Sides /\ \A side \in Sides : side = "high" \/ side = "low"
  BY DEF Sides
<1>3. \A side : IsPivot(s, side, c, PivotLen) => c \in Nat /\ c \in 1..Len(s) BY DEF IsPivot
<1>4. /\ Typed(st) /\ Alternates(st)
      /\ Decided(st, s, "high", c - 1) /\ Decided(st, s, "low", c - 1)
  BY <1>2 DEF Sound
<1>5. /\ Typed(high) /\ Alternates(high)
      /\ Decided(high, s, "high", c) /\ Decided(high, s, "low", c - 1)
  <2>1. CASE IsPivot(s, "high", c, PivotLen)
    <3>1. c \in Nat /\ c \in 1..Len(s) /\ high = ConfirmSwing(st, s, "high", c) BY <2>1, <1>3
    <3> HIDE DEF high
    <3>2. Typed(high) BY <3>1, <1>2, <1>4, ConfirmedTyped
    <3>3. Alternates(high) BY <3>1, <1>2, <1>4, SwingAlternates
    <3>4. Decided(high, s, "high", c) BY <3>1, <2>1, <1>2, <1>4, SwingDecided
    <3>5. Decided(high, s, "low", c - 1) BY <3>1, <1>2, <1>4, OtherSideDecided
    <3> QED BY <3>2, <3>3, <3>4, <3>5
  <2>2. CASE ~IsPivot(s, "high", c, PivotLen)
    <3>1. high = st BY <2>2
    <3>2. Decided(st, s, "high", c) BY <2>2, <1>4, NoSwingDecided
    <3> QED BY <3>1, <3>2, <1>4
  <2> QED BY <2>1, <2>2
<1> HIDE DEF high
<1>6. /\ Typed(low) /\ Alternates(low)
      /\ Decided(low, s, "low", c) /\ Decided(low, s, "high", c)
  <2>1. CASE IsPivot(s, "low", c, PivotLen)
    <3>1. c \in Nat /\ c \in 1..Len(s) /\ low = ConfirmSwing(high, s, "low", c) BY <2>1, <1>3
    <3> HIDE DEF low
    <3>2. Typed(low) BY <3>1, <1>2, <1>5, ConfirmedTyped
    <3>3. Alternates(low) BY <3>1, <1>2, <1>5, SwingAlternates
    <3>4. Decided(low, s, "low", c) BY <3>1, <2>1, <1>2, <1>5, SwingDecided
    <3>5. Decided(low, s, "high", c) BY <3>1, <1>2, <1>5, OtherSideDecided
    <3> QED BY <3>2, <3>3, <3>4, <3>5
  <2>2. CASE ~IsPivot(s, "low", c, PivotLen)
    <3>1. low = high BY <2>2
    <3>2. Decided(high, s, "low", c) BY <2>2, <1>5, NoSwingDecided
    <3> QED BY <3>1, <3>2, <1>5
  <2> QED BY <2>1, <2>2
<1> HIDE DEF low
<1> QED BY <1>1, <1>2, <1>6 DEF Sound

\* The state that the loop carries from bar to bar.
LoopState == [last |-> last, trend |-> Current, breaks |-> breaks]

IInv ==
  /\ bars \in Seq(Bars) /\ Len(bars) <= MaxBars
  /\ trend \in Seq({1, -1}) /\ Len(trend) = Len(bars)
  /\ Sound(LoopState, bars, Len(bars) - PivotLen)

LEMMA InitIInv == ASSUME ConstantsAssumption PROVE Init => IInv
<1> SUFFICES ASSUME Init PROVE IInv OBVIOUS
<1>1. /\ bars = <<>> /\ last = [side \in Sides |-> 0] /\ trend = <<>> /\ breaks = <<>>
      /\ Current = 1
  BY DEF Init, Current
<1>2. bars \in Seq(Bars) /\ Len(bars) <= MaxBars /\ trend \in Seq({1, -1}) /\ Len(trend) = Len(bars)
  BY <1>1 DEF ConstantsAssumption
<1> DEFINE h == Len(bars) - PivotLen
<1>3. LoopState.last = last /\ LoopState.trend = 1 /\ LoopState.breaks = <<>> BY <1>1 DEF LoopState
<1>4. Typed(LoopState) BY <1>1, <1>3 DEF Typed
<1>5. Alternates(LoopState) BY <1>3 DEF Alternates
<1>6. ASSUME NEW side \in Sides PROVE Decided(LoopState, bars, side, h)
  <2>1. h \in Int /\ h < 1 BY <1>1 DEF ConstantsAssumption
  <2> HIDE DEF h
  <2>2. SwingsTo(bars, side, h) = {} BY <2>1 DEF SwingsTo
  <2>3. FirstCloses(bars, side, h) = {} BY <2>2 DEF FirstCloses
  <2>4. Broken(LoopState.breaks, side) = {} BY <1>3 DEF Broken
  <2>5. LoopState.last[side] = 0 BY <1>1, <1>3
  <2>6. DOMAIN LoopState.breaks = {} BY <1>3
  <2> QED BY <2>2, <2>3, <2>4, <2>5, <2>6 DEF Decided
<1> QED BY <1>2, <1>4, <1>5, <1>6 DEF IInv, Sound

LEMMA NextIInv == ASSUME ConstantsAssumption PROVE IInv /\ [Next]_vars => IInv'
<1> SUFFICES ASSUME IInv, [Next]_vars PROVE IInv' OBVIOUS
<1>1. ASSUME NEW bar \in Bars, NextBar(bar) PROVE IInv'
  <2> DEFINE s == Append(bars, bar)
             c == Len(s) - PivotLen
             st == Confirmed(LoopState, s, c)
  <2>1. bars \in Seq(Bars) /\ PivotLen \in Nat /\ MaxBars \in Nat
    BY DEF IInv, ConstantsAssumption
  <2>2. s \in Seq(Bars) /\ Len(s) = Len(bars) + 1 /\ Len(bars) \in Nat BY <2>1
  <2>3. /\ Len(bars) < MaxBars /\ bars' = s /\ last' = st.last
        /\ trend' = Append(trend, st.trend) /\ breaks' = st.breaks
    BY <1>1 DEF NextBar, LoopState
  <2>4. Sound(LoopState, bars, Len(bars) - PivotLen) BY DEF IInv
  <2> HIDE DEF s
  <2>5. c - 1 = Len(bars) - PivotLen /\ c \in Int /\ c <= Len(s) /\ Len(s) \in Nat BY <2>1, <2>2
  <2>6. Sound(LoopState, s, c - 1)
    <3>1. ASSUME NEW side \in Sides PROVE Decided(LoopState, s, side, Len(bars) - PivotLen)
      <4>1. Decided(LoopState, bars, side, Len(bars) - PivotLen) BY <2>4 DEF Sound
      <4> QED BY <4>1, <2>1, NewBarDecidesNothing DEF s
    <3> QED BY <3>1, <2>4, <2>5 DEF Sound
  <2> HIDE DEF c
  <2>7. Sound(st, s, c) BY <2>1, <2>5, <2>6, ConfirmedSound
  <2> HIDE DEF st
  <2>8. st.trend \in {1, -1} BY <2>7 DEF Sound, Alternates, Direction
  <2>9. trend \in Seq({1, -1}) /\ Len(trend) = Len(bars) BY DEF IInv
  <2>10. /\ trend' \in Seq({1, -1}) /\ Len(trend') = Len(trend) + 1
         /\ trend' # <<>> /\ trend'[Len(trend')] = st.trend
    BY <2>3, <2>8, <2>9
  <2>11. Current' = st.trend BY <2>10 DEF Current
  <2>12. LoopState'.last = st.last /\ LoopState'.trend = st.trend /\ LoopState'.breaks = st.breaks
    BY <2>3, <2>11 DEF LoopState
  <2>13. Typed(LoopState') BY <2>7, <2>12 DEF Sound, Typed
  <2>14. Alternates(LoopState') BY <2>7, <2>12 DEF Sound, Alternates
  <2>15. \A side \in Sides : Decided(LoopState', s, side, c) BY <2>7, <2>12, DecidedFields DEF Sound
  <2>16. Sound(LoopState', bars', Len(bars') - PivotLen)
    BY <2>3, <2>13, <2>14, <2>15 DEF Sound, c
  <2>17. bars' \in Seq(Bars) /\ Len(bars') <= MaxBars /\ Len(trend') = Len(bars')
    BY <2>1, <2>2, <2>3, <2>9, <2>10
  <2> QED BY <2>10, <2>16, <2>17 DEF IInv
<1>2. CASE UNCHANGED vars
  <2>1. LoopState' = LoopState BY <1>2 DEF vars, LoopState, Current
  <2> QED BY <1>2, <2>1 DEF vars, IInv
<1> QED BY <1>1, <1>2 DEF Next

-----------------------------------------------------------------------------
\* The windows before and after a step.

\* t is the window s with one more bar.
Extends(t, s) ==
  /\ s \in Seq(Bars) /\ t \in Seq(Bars)
  /\ Len(t) = Len(s) + 1
  /\ \A k \in 1..Len(s) : t[k] = s[k]

\* Breaks are only appended.
Prefix(old, new) == DOMAIN old \subseteq DOMAIN new /\ \A k \in DOMAIN old : new[k] = old[k]

LEMMA SwingAppends ==
  ASSUME NEW st, Typed(st), NEW s, NEW side \in Sides, NEW c \in Nat
  PROVE  Prefix(st.breaks, ConfirmSwing(st, s, side, c).breaks)
<1>1. st.breaks \in Seq(Break) BY DEF Typed
<1>2. CASE Breaks(st, s, side, c)
  <2>1. Found(st, s, side, c) \in Break BY <1>2, FoundIsBreak
  <2>2. ConfirmSwing(st, s, side, c).breaks = Append(st.breaks, Found(st, s, side, c))
    BY <1>2, ConfirmedFields
  <2> QED BY <1>1, <2>1, <2>2, LenProperties DEF Prefix
<1>3. CASE ~Breaks(st, s, side, c)
  BY <1>3, ConfirmedFields DEF Prefix
<1> QED BY <1>2, <1>3

LEMMA BreaksAppended ==
  ASSUME NEW st, Typed(st), NEW s, NEW c \in Int, PivotLen \in Nat
  PROVE  Prefix(st.breaks, Confirmed(st, s, c).breaks)
<1> DEFINE high == IF IsPivot(s, "high", c, PivotLen) THEN ConfirmSwing(st, s, "high", c) ELSE st
           low == IF IsPivot(s, "low", c, PivotLen) THEN ConfirmSwing(high, s, "low", c) ELSE high
<1>1. Confirmed(st, s, c) = low BY DEF Confirmed
<1>2. "high" \in Sides /\ "low" \in Sides BY DEF Sides
<1>3. \A side : IsPivot(s, side, c, PivotLen) => c \in Nat BY DEF IsPivot
<1>4. Typed(high) /\ Prefix(st.breaks, high.breaks)
  <2>1. CASE IsPivot(s, "high", c, PivotLen)
    BY <1>2, <1>3, <2>1, ConfirmedTyped, SwingAppends
  <2>2. CASE ~IsPivot(s, "high", c, PivotLen)
    BY <2>2 DEF Prefix
  <2> QED BY <2>1, <2>2
<1> HIDE DEF high
<1>5. Prefix(high.breaks, low.breaks)
  <2>1. CASE IsPivot(s, "low", c, PivotLen)
    BY <1>2, <1>3, <1>4, <2>1, SwingAppends
  <2>2. CASE ~IsPivot(s, "low", c, PivotLen)
    BY <2>2 DEF Prefix
  <2> QED BY <2>1, <2>2
<1> HIDE DEF low
<1> QED BY <1>1, <1>4, <1>5 DEF Prefix

\* The step of the loop that the properties are about.
LEMMA WindowStep ==
  ASSUME ConstantsAssumption, IInv, NEW bar \in Bars, NextBar(bar)
  PROVE  /\ Extends(bars', bars)
         /\ breaks \in Seq(Break) /\ breaks' \in Seq(Break)
         /\ Prefix(breaks, breaks')
<1> DEFINE s == Append(bars, bar)
           st == Confirmed(LoopState, s, Len(s) - PivotLen)
<1>1. bars \in Seq(Bars) /\ PivotLen \in Nat BY DEF IInv, ConstantsAssumption
<1>2. /\ s \in Seq(Bars) /\ Len(s) = Len(bars) + 1 /\ Len(s) \in Nat
      /\ \A k \in 1..Len(bars) : s[k] = bars[k]
  BY <1>1
<1>3. bars' = s /\ breaks' = st.breaks BY DEF NextBar, LoopState
<1>4. Typed(LoopState) /\ LoopState.breaks = breaks BY DEF IInv, Sound, LoopState
<1>5. IInv' BY NextIInv DEF Next
<1>6. breaks \in Seq(Break) /\ breaks' \in Seq(Break)
  <2>1. breaks \in Seq(Break) BY <1>4 DEF Typed
  <2>2. Typed(LoopState)' /\ (LoopState.breaks = breaks)' BY <1>5 DEF IInv, Sound, LoopState
  <2>3. breaks' \in Seq(Break) BY <2>2 DEF Typed
  <2> QED BY <2>1, <2>3
<1> HIDE DEF s
<1>7. Prefix(LoopState.breaks, st.breaks) BY <1>1, <1>2, <1>4, BreaksAppended
<1> QED BY <1>1, <1>2, <1>3, <1>4, <1>6, <1>7 DEF Extends

LEMMA SweptSides ==
  ASSUME NEW w, NEW j, NEW side
  PROVE  side \in SweptAt(Sweeps(w), j) <=>
           /\ side \in Sides
           /\ \E k \in DOMAIN w : /\ IsPivot(w, side, k, LiquidityLen)
                                  /\ SweepsOf(w, side, k) # {}
                                  /\ Least(SweepsOf(w, side, k)) = j
<1> DEFINE Swept(x) == {k \in DOMAIN w : IsPivot(w, x, k, LiquidityLen) /\ SweepsOf(w, x, k) # {}}
           Sweep(x, k) == [side |-> x, pivot |-> k, bar |-> Least(SweepsOf(w, x, k))]
<1>1. Sweeps(w) = UNION {{Sweep(x, k) : k \in Swept(x)} : x \in Sides} BY DEF Sweeps
<1>2. \A x, k : Sweep(x, k).side = x /\ Sweep(x, k).bar = Least(SweepsOf(w, x, k)) OBVIOUS
<1>3. ASSUME side \in SweptAt(Sweeps(w), j)
      PROVE  side \in Sides /\ \E k \in Swept(side) : Least(SweepsOf(w, side, k)) = j
  <2>1. PICK sw \in Sweeps(w) : sw.bar = j /\ sw.side = side BY <1>3 DEF SweptAt
  <2> HIDE DEF Sweep, Swept
  <2>2. PICK x \in Sides : sw \in {Sweep(x, k) : k \in Swept(x)} BY <1>1, <2>1
  <2>3. PICK k \in Swept(x) : sw = Sweep(x, k) BY <2>2
  <2> QED BY <1>2, <2>1, <2>3
<1>4. ASSUME side \in Sides, NEW k \in Swept(side), Least(SweepsOf(w, side, k)) = j
      PROVE  side \in SweptAt(Sweeps(w), j)
  <2> HIDE DEF Sweep, Swept
  <2>1. Sweep(side, k) \in Sweeps(w) BY <1>1, <1>4
  <2> QED BY <1>2, <1>4, <2>1 DEF SweptAt
<1> QED BY <1>3, <1>4

\* Sweeps of earlier seconds are known: a new bar sweeps only at itself.
LEMMA SweepsKept ==
  ASSUME ConstantsAssumption, NEW s, NEW t, Extends(t, s), NEW j \in 1..Len(s)
  PROVE  SweptAt(Sweeps(t), j) = SweptAt(Sweeps(s), j)
<1>1. /\ Len(s) \in Nat /\ Len(t) = Len(s) + 1 /\ LiquidityLen \in Nat \ {0}
      /\ DOMAIN s = 1..Len(s) /\ DOMAIN t = 1..Len(t)
      /\ \A k \in 1..Len(s) : t[k] = s[k]
  BY LenProperties DEF Extends, ConstantsAssumption
<1>2. \A side, k : IsPivot(s, side, k, LiquidityLen) /\ k \in DOMAIN s => IsPivot(t, side, k, LiquidityLen)
  BY <1>1 DEF IsPivot, Extreme
<1>3. ASSUME NEW side, NEW k \in 1..Len(s), k + LiquidityLen <= Len(s)
      PROVE  /\ IsPivot(t, side, k, LiquidityLen) => IsPivot(s, side, k, LiquidityLen)
             /\ SweepsOf(s, side, k) \subseteq SweepsOf(t, side, k)
             /\ SweepsOf(t, side, k) \subseteq SweepsOf(s, side, k) \union {Len(t)}
             /\ SweepsOf(t, side, k) \subseteq Nat \ {0}
  <2>1. IsPivot(t, side, k, LiquidityLen) => IsPivot(s, side, k, LiquidityLen)
    BY <1>1, <1>3 DEF IsPivot, Extreme
  <2>2. Extreme(t, side, k) = Extreme(s, side, k) BY <1>1 DEF Extreme
  <2>3. /\ SweepsOf(s, side, k) \subseteq SweepsOf(t, side, k)
        /\ SweepsOf(t, side, k) \subseteq SweepsOf(s, side, k) \union {Len(t)}
        /\ SweepsOf(t, side, k) \subseteq Nat \ {0}
    BY <1>1, <2>2 DEF SweepsOf
  <2> QED BY <2>1, <2>3
<1>4. ASSUME NEW side, NEW k \in DOMAIN t, IsPivot(t, side, k, LiquidityLen),
             SweepsOf(t, side, k) # {}, Least(SweepsOf(t, side, k)) = j
      PROVE  /\ k \in DOMAIN s /\ IsPivot(s, side, k, LiquidityLen)
             /\ SweepsOf(s, side, k) # {} /\ Least(SweepsOf(s, side, k)) = j
  <2>1. SweepsOf(t, side, k) \subseteq Nat BY <1>1 DEF SweepsOf
  <2>2. j \in SweepsOf(t, side, k) /\ \A y \in SweepsOf(t, side, k) : j <= y
    BY <1>4, <2>1, LeastExists
  <2>3. k \in 1..Len(s) /\ k + LiquidityLen <= Len(s) BY <1>1, <2>2 DEF SweepsOf
  <2>4. j \in SweepsOf(s, side, k) BY <1>1, <1>3, <2>2, <2>3
  <2>5. \A y \in SweepsOf(s, side, k) : j <= y BY <1>3, <2>2, <2>3
  <2>6. SweepsOf(s, side, k) \subseteq Nat BY <1>3, <2>3
  <2>7. Least(SweepsOf(s, side, k)) = j
    <3>1. /\ Least(SweepsOf(s, side, k)) \in SweepsOf(s, side, k)
          /\ \A y \in SweepsOf(s, side, k) : Least(SweepsOf(s, side, k)) <= y
      BY <2>4, <2>6, LeastExists
    <3> QED BY <2>4, <2>5, <2>6, <3>1
  <2> QED BY <1>1, <1>3, <1>4, <2>3, <2>4, <2>7
<1>5. ASSUME NEW side, NEW k \in DOMAIN s, IsPivot(s, side, k, LiquidityLen),
             SweepsOf(s, side, k) # {}, Least(SweepsOf(s, side, k)) = j
      PROVE  /\ k \in DOMAIN t /\ IsPivot(t, side, k, LiquidityLen)
             /\ SweepsOf(t, side, k) # {} /\ Least(SweepsOf(t, side, k)) = j
  <2>1. k \in 1..Len(s) /\ k + LiquidityLen <= Len(s) BY <1>1, <1>5 DEF IsPivot
  <2>2. SweepsOf(s, side, k) \subseteq Nat BY <1>3, <2>1
  <2>3. j \in SweepsOf(s, side, k) /\ \A y \in SweepsOf(s, side, k) : j <= y
    BY <1>5, <2>2, LeastExists
  <2>4. j \in SweepsOf(t, side, k) /\ \A y \in SweepsOf(t, side, k) : j <= y
    BY <1>1, <1>3, <2>1, <2>3
  <2>5. SweepsOf(t, side, k) \subseteq Nat BY <1>3, <2>1
  <2>6. Least(SweepsOf(t, side, k)) = j
    <3>1. /\ Least(SweepsOf(t, side, k)) \in SweepsOf(t, side, k)
          /\ \A y \in SweepsOf(t, side, k) : Least(SweepsOf(t, side, k)) <= y
      BY <2>4, <2>5, LeastExists
    <3> QED BY <2>4, <2>5, <3>1
  <2> QED BY <1>1, <1>2, <1>5, <2>1, <2>4, <2>6
<1>6. \A side : side \in SweptAt(Sweeps(t), j) <=> side \in SweptAt(Sweeps(s), j)
  BY <1>4, <1>5, SweptSides
<1> QED BY <1>6

-----------------------------------------------------------------------------
\* Every variable keeps its type, for any bars, lengths and windows: no swing or
\* break names a bar that the window does not have.
THEOREM StructureTypeCorrect == ASSUME ConstantsAssumption PROVE Spec => []TypeOK
<1>1. ASSUME IInv PROVE TypeOK
  <2> DEFINE h == Len(bars) - PivotLen
  <2>1. /\ LoopState.last = last /\ LoopState.breaks = breaks /\ Len(bars) \in Nat
        /\ PivotLen \in Nat
    BY <1>1 DEF LoopState, IInv, ConstantsAssumption
  <2>2. last \in [Sides -> Nat] /\ breaks \in Seq(Break) BY <1>1, <2>1 DEF IInv, Sound, Typed
  <2>3. ASSUME NEW side \in Sides PROVE last[side] \in 0..Len(bars)
    <3>1. last[side] = 0 \/ last[side] \in SwingsTo(bars, side, h)
      BY <1>1, <2>1 DEF IInv, Sound, Decided
    <3>2. SwingsTo(bars, side, h) \subseteq 1..Len(bars) BY <2>1 DEF SwingsTo
    <3> QED BY <3>1, <3>2, <2>1
  <2>4. last \in [Sides -> 0..Len(bars)] BY <2>2, <2>3
  <2> QED BY <1>1, <2>2, <2>4 DEF IInv, TypeOK
<1> QED BY InitIInv, NextIInv, <1>1, PTL DEF Spec

\* Directions of CHoCHs and BoSs fit those of the breaks before them, and the trend is
\* that of the last break, for any pivot length.
THEOREM CharactersAlternate == ASSUME ConstantsAssumption PROVE Spec => []CharacterAlternates
<1>1. ASSUME IInv PROVE CharacterAlternates
  <2>1. LoopState.trend = Current /\ LoopState.breaks = breaks BY DEF LoopState
  <2> QED BY <1>1, <2>1 DEF IInv, Sound, Alternates, CharacterAlternates
<1> QED BY InitIInv, NextIInv, <1>1, PTL DEF Spec

\* The breaks are the first closes through confirmed swings, each recorded once, for
\* any pivot length and any price path.
THEOREM BreaksFound == ASSUME ConstantsAssumption PROVE Spec => []BreaksAreFirstCloses
<1>1. ASSUME IInv PROVE BreaksAreFirstCloses
  <2> DEFINE h == Len(bars) - PivotLen
             Stamped(side) == {c \in Swings(side) \X DOMAIN bars :
                                 /\ Closes(bars, side, c[1], c[1] + 1, c[2]) = {c[2]}
                                 /\ \E b \in Swings(side) : b >= c[2]
                                 /\ ~\E b \in Swings(side) : c[1] < b /\ b < c[2]}
             Record(k) == <<breaks[k].side, breaks[k].swing, breaks[k].bar>>
             L == {Record(k) : k \in DOMAIN breaks}
             R == UNION {{<<side, c[1], c[2]>> : c \in Stamped(side)} : side \in Sides}
  <2>1. /\ LoopState.last = last /\ LoopState.breaks = breaks /\ breaks \in Seq(Break)
        /\ Len(bars) \in Nat /\ DOMAIN bars = 1..Len(bars) /\ PivotLen \in Nat
    BY <1>1, LenProperties DEF LoopState, IInv, Sound, Typed, ConstantsAssumption
  <2>2. ASSUME NEW side \in Sides
        PROVE  /\ Broken(breaks, side) = FirstCloses(bars, side, h)
               /\ \A k, l \in DOMAIN breaks :
                    /\ breaks[k].side = side /\ breaks[l].side = side
                    /\ breaks[k].swing = breaks[l].swing
                    => k = l
    BY <1>1, <2>1 DEF IInv, Sound, Decided
  <2>3. \A side : Swings(side) = SwingsTo(bars, side, h)
    BY <2>1 DEF Swings, SwingsTo, IsPivot
  <2>4. \A side : Stamped(side) = FirstCloses(bars, side, h)
    BY <2>1, <2>3 DEF FirstCloses, IsFirstClose
  <2>5. \A k \in DOMAIN breaks : breaks[k].side \in Sides
    <3>1. \A k \in DOMAIN breaks : breaks[k] \in Break BY <2>1, ElementOfSeq, LenProperties
    <3> QED BY <3>1 DEF Break
  <2> HIDE DEF h, Stamped
  <2>6. ASSUME NEW k \in DOMAIN breaks PROVE Record(k) \in R
    <3>1. <<breaks[k].swing, breaks[k].bar>> \in Broken(breaks, breaks[k].side) BY DEF Broken
    <3>2. <<breaks[k].swing, breaks[k].bar>> \in Stamped(breaks[k].side)
      BY <3>1, <2>2, <2>4, <2>5
    <3> DEFINE c == <<breaks[k].swing, breaks[k].bar>>
    <3>3. Record(k) = <<breaks[k].side, c[1], c[2]>> OBVIOUS
    <3> HIDE DEF c, Record
    <3>4. c \in Stamped(breaks[k].side) BY <3>2 DEF c
    <3> QED BY <3>3, <3>4, <2>5
  <2>7. ASSUME NEW side \in Sides, NEW c \in Stamped(side) PROVE <<side, c[1], c[2]>> \in L
    <3>1. c \in Broken(breaks, side) BY <2>2, <2>4, <2>7
    <3>2. PICK k \in DOMAIN breaks : breaks[k].side = side /\ c = <<breaks[k].swing, breaks[k].bar>>
      BY <3>1 DEF Broken
    <3>3. <<side, c[1], c[2]>> = Record(k) BY <3>2
    <3> HIDE DEF Record
    <3> QED BY <3>3
  <2>8. L = R
    <3>1. L \subseteq R BY <2>6
    <3>2. R \subseteq L BY <2>7
    <3> HIDE DEF L, R
    <3> QED BY <3>1, <3>2
  <2>9. \A k, l \in DOMAIN breaks :
          breaks[k].side = breaks[l].side /\ breaks[k].swing = breaks[l].swing => k = l
    BY <2>2, <2>5
  <2> QED BY <2>8, <2>9 DEF BreaksAreFirstCloses, Stamped
<1> QED BY InitIInv, NextIInv, <1>1, PTL DEF Spec

-----------------------------------------------------------------------------
\* Order blocks.

\* Every break is between its swing and the last bar that has been decided.
LEMMA BreakPlaced ==
  ASSUME NEW st, Typed(st), NEW s, Len(s) \in Nat, NEW h \in Int, h <= Len(s),
         \A side \in Sides : Decided(st, s, side, h), NEW k \in DOMAIN st.breaks
  PROVE  /\ st.breaks[k] \in Break
         /\ st.breaks[k].swing \in 1..Len(s)
         /\ st.breaks[k].bar \in (st.breaks[k].swing + 1)..Len(s)
         /\ st.breaks[k].bar <= h
<1> DEFINE br == st.breaks[k]
<1>1. br \in Break BY LenProperties, ElementOfSeq DEF Typed
<1>2. br.side \in Sides BY <1>1 DEF Break
<1>3. <<br.swing, br.bar>> \in Broken(st.breaks, br.side) BY DEF Broken
<1>4. <<br.swing, br.bar>> \in FirstCloses(s, br.side, h) BY <1>2, <1>3 DEF Decided
<1> DEFINE x == <<br.swing, br.bar>>
<1>5. PICK p, q : x = <<p, q>> /\ IsFirstClose(s, br.side, h, p, q)
  <2> HIDE DEF x
  <2>1. x \in FirstCloses(s, br.side, h) BY <1>4 DEF x
  <2> QED BY <2>1, FirstClosesArePairs
<1>6. IsFirstClose(s, br.side, h, br.swing, br.bar) BY <1>5
<1> HIDE DEF br, x
<1>7. br.swing \in 1..h /\ br.bar \in 1..Len(s) BY <1>6 DEF IsFirstClose, SwingsTo
<1>8. br.bar \in (br.swing + 1)..br.bar BY <1>6 DEF IsFirstClose, Closes
<1>9. br.swing \in 1..Len(s) /\ br.bar \in (br.swing + 1)..Len(s) BY <1>7, <1>8
<1>10. br.bar <= h
  <2>1. PICK b \in SwingsTo(s, br.side, h) : b >= br.bar BY <1>6 DEF IsFirstClose
  <2>2. b \in 1..h BY DEF SwingsTo
  <2> QED BY <1>7, <2>1, <2>2
<1> QED BY <1>1, <1>9, <1>10 DEF br

\* A close breaks a high or a low, never both: of the two swings the later one would
\* have closed beyond the earlier one already.
LEMMA OneSidePerBar ==
  ASSUME ConstantsAssumption, NEW st, Typed(st), NEW s \in Seq(Bars), NEW h \in Int, h <= Len(s),
         \A side \in Sides : Decided(st, s, side, h),
         NEW k \in DOMAIN st.breaks, NEW l \in DOMAIN st.breaks, st.breaks[k].bar = st.breaks[l].bar
  PROVE  st.breaks[k].side = st.breaks[l].side
<1> DEFINE brks == st.breaks
<1>1. /\ Len(s) \in Nat
      /\ \A x \in 1..Len(s) : /\ s[x].high \in Int /\ s[x].low \in Int /\ s[x].close \in Int
                              /\ s[x].low <= s[x].close /\ s[x].close <= s[x].high
  <2>1. Len(s) \in Nat /\ \A x \in 1..Len(s) : s[x] \in Bars BY ElementOfSeq
  <2>2. \A bar \in Bars : /\ bar.high \in Int /\ bar.low \in Int /\ bar.close \in Int
                          /\ bar.low <= bar.close /\ bar.close <= bar.high
    BY DEF ConstantsAssumption
  <2> QED BY <2>1, <2>2
<1>2. \A x \in DOMAIN brks : /\ brks[x] \in Break
                            /\ brks[x].swing \in 1..Len(s)
                            /\ brks[x].bar \in (brks[x].swing + 1)..Len(s)
                            /\ Closes(s, brks[x].side, brks[x].swing, brks[x].swing + 1, brks[x].bar) = {brks[x].bar}
  <2> TAKE x \in DOMAIN brks
  <2>1. brks[x] \in Break /\ brks[x].swing \in 1..Len(s) /\ brks[x].bar \in (brks[x].swing + 1)..Len(s)
    BY <1>1, BreakPlaced
  <2>2. brks[x].side \in Sides BY <2>1 DEF Break
  <2>3. Broken(brks, brks[x].side) = FirstCloses(s, brks[x].side, h) BY <2>2 DEF Decided
  <2>4. <<brks[x].swing, brks[x].bar>> \in Broken(brks, brks[x].side) BY DEF Broken
  <2>5. \E p, q : /\ <<brks[x].swing, brks[x].bar>> = <<p, q>>
                  /\ IsFirstClose(s, brks[x].side, h, p, q)
    BY <2>3, <2>4, FirstClosesArePairs
  <2>6. IsFirstClose(s, brks[x].side, h, brks[x].swing, brks[x].bar) BY <2>5
  <2> QED BY <2>1, <2>6 DEF IsFirstClose
<1>3. \A x, y \in DOMAIN brks :
        ~(brks[x].side = "high" /\ brks[y].side = "low" /\ brks[x].bar = brks[y].bar)
  <2> SUFFICES ASSUME NEW x \in DOMAIN brks, NEW y \in DOMAIN brks,
                      brks[x].side = "high", brks[y].side = "low", brks[x].bar = brks[y].bar
               PROVE  FALSE
    OBVIOUS
  <2> DEFINE p == brks[x].swing
             q == brks[y].swing
             j == brks[x].bar
  <2>1. /\ p \in 1..Len(s) /\ q \in 1..Len(s) /\ j \in (p + 1)..Len(s) /\ j \in (q + 1)..Len(s)
        /\ Closes(s, "high", p, p + 1, j) = {j} /\ Closes(s, "low", q, q + 1, j) = {j}
    BY <1>2
  <2> HIDE DEF p, q, j
  <2>2. /\ \A m \in (p + 1)..j : s[m].close > s[p].high <=> m = j
        /\ \A m \in (q + 1)..j : s[m].close < s[q].low <=> m = j
    BY <2>1 DEF Closes, Beyond, Extreme
  <2>3. /\ j \in 1..Len(s) /\ j \in (p + 1)..j /\ j \in (q + 1)..j
        /\ s[j].close > s[p].high /\ s[j].close < s[q].low
    BY <2>1, <2>2
  <2>4. CASE p < q
    <3>1. q \in (p + 1)..j /\ q # j BY <2>1, <2>4
    <3>2. ~(s[q].close > s[p].high) BY <2>2, <3>1
    <3> QED BY <1>1, <2>1, <2>3, <3>2
  <2>5. CASE q < p
    <3>1. p \in (q + 1)..j /\ p # j BY <2>1, <2>5
    <3>2. ~(s[p].close < s[q].low) BY <2>2, <3>1
    <3> QED BY <1>1, <2>1, <2>3, <3>2
  <2>6. CASE p = q BY <1>1, <2>1, <2>3, <2>6
  <2> QED BY <2>1, <2>4, <2>5, <2>6
<1>4. brks[k].side \in {"high", "low"} /\ brks[l].side \in {"high", "low"} BY <1>2 DEF Break, Sides
<1> QED BY <1>3, <1>4

\* A leg of bars has one that none goes beyond.
LEMMA ExtremeExists ==
  ASSUME NEW s, NEW side \in Sides, NEW from \in Nat, NEW to \in Nat, from <= to,
         \A k \in from..to : Extreme(s, side, k) \in Int
  PROVE  \E j \in from..to : \A l \in from..to :
           ~Beyond(side, Extreme(s, side, l), Extreme(s, side, j))
<1> DEFINE Has(n) == \E j \in from..n : \A l \in from..n :
                       ~Beyond(side, Extreme(s, side, l), Extreme(s, side, j))
           Lacks == {n \in from..to : ~Has(n)}
<1>1. Has(to) => \E j \in from..to : \A l \in from..to :
                     ~Beyond(side, Extreme(s, side, l), Extreme(s, side, j))
  OBVIOUS
<1>2. to \in from..to /\ Lacks \subseteq Nat OBVIOUS
<1>3. Has(from)
  <2>1. from..from = {from} /\ Extreme(s, side, from) \in Int OBVIOUS
  <2>2. ~Beyond(side, Extreme(s, side, from), Extreme(s, side, from)) BY <2>1 DEF Beyond
  <2> QED BY <2>1, <2>2
<1>4. \A n \in from..to : n \in Lacks <=> ~Has(n) OBVIOUS
<1> HIDE DEF Has, Lacks
<1> SUFFICES ASSUME Lacks # {} PROVE FALSE BY <1>1, <1>2, <1>4
<1>5. PICK n \in Lacks : \A y \in Lacks : n <= y BY <1>2, LeastExists
<1>6. n \in from..to /\ ~Has(n) /\ n - 1 \in from..to /\ Has(n - 1)
  <2>1. n \in from..to /\ ~Has(n) BY <1>4, <1>5 DEF Lacks
  <2>2. n # from BY <2>1, <1>3
  <2>3. n - 1 \in from..to BY <2>1, <2>2
  <2>4. ~(n <= n - 1) BY <2>1
  <2>5. n - 1 \notin Lacks BY <1>5, <2>4
  <2> QED BY <2>1, <2>3, <2>5, <1>4
<1>7. PICK j \in from..(n - 1) : \A l \in from..(n - 1) :
          ~Beyond(side, Extreme(s, side, l), Extreme(s, side, j))
  BY <1>6 DEF Has
<1>8. /\ j \in from..n /\ n \in from..n
      /\ \A l \in from..n : l \in from..(n - 1) \/ l = n
      /\ \A l \in from..n : l \in from..to
  BY <1>6
<1> DEFINE E(l) == Extreme(s, side, l)
<1>9. \A l \in from..n : E(l) \in Int BY <1>8
<1>10. \A l \in from..(n - 1) : ~Beyond(side, E(l), E(j)) BY <1>7
<1> HIDE DEF E
<1>11. CASE Beyond(side, E(n), E(j))
  <2>1. ASSUME NEW l \in from..n PROVE ~Beyond(side, E(l), E(n))
    <3>1. E(l) \in Int /\ E(n) \in Int /\ E(j) \in Int BY <1>8, <1>9
    <3>2. CASE l = n BY <3>1, <3>2 DEF Beyond
    <3>3. CASE l \in from..(n - 1)
      <4>1. ~Beyond(side, E(l), E(j)) BY <3>3, <1>10
      <4> QED BY <3>1, <4>1, <1>11 DEF Beyond
    <3> QED BY <3>2, <3>3, <1>8
  <2> QED BY <2>1, <1>6, <1>8 DEF E, Has
<1>12. CASE ~Beyond(side, E(n), E(j))
  <2>1. \A l \in from..n : ~Beyond(side, E(l), E(j)) BY <1>8, <1>10, <1>12
  <2> QED BY <2>1, <1>6, <1>8 DEF E, Has
<1> QED BY <1>11, <1>12

\* One more bar leaves a block where it is, and can only mitigate it at itself.
LEMMA BlockKept ==
  ASSUME ConstantsAssumption, NEW s, NEW t, Extends(t, s), NEW br \in Break,
         br.swing \in 1..Len(s), br.bar \in (br.swing + 1)..Len(s)
  PROVE  /\ BlockOf(t, br).start = BlockOf(s, br).start
         /\ BlockOf(t, br).mitigated \in
              {BlockOf(s, br).mitigated} \union
              (IF BlockOf(s, br).mitigated = 0 THEN {Len(t)} ELSE {})
<1> DEFINE side == Opposite(br.side)
           leg == br.swing..br.bar
           Starts(w) == {j \in leg : \A l \in leg : ~Beyond(side, Extreme(w, side, l), Extreme(w, side, j))}
           start == Least(Starts(s))
           C(w) == Closes(w, side, start, br.bar + 1, Len(w))
           Until(w) == IF C(w) = {} THEN 0 ELSE Least(C(w))
<1>1. /\ s \in Seq(Bars) /\ t \in Seq(Bars) /\ Len(s) \in Nat /\ Len(t) = Len(s) + 1
      /\ \A k \in 1..Len(s) : t[k] = s[k]
      /\ \A k \in 1..Len(s) : s[k] \in [high : Int, low : Int, close : Int]
  <2>1. /\ s \in Seq(Bars) /\ t \in Seq(Bars) /\ Len(s) \in Nat /\ Len(t) = Len(s) + 1
        /\ \A k \in 1..Len(s) : t[k] = s[k]
    BY DEF Extends
  <2>2. \A k \in 1..Len(s) : s[k] \in Bars BY <2>1, ElementOfSeq
  <2> QED BY <2>1, <2>2 DEF ConstantsAssumption
<1>2. side \in Sides BY DEF Opposite, Sides
<1>3. /\ leg \subseteq 1..Len(s) /\ leg \subseteq Nat
      /\ br.swing \in Nat /\ br.bar \in Nat /\ br.swing <= br.bar
  BY <1>1
<1> HIDE DEF side
<1>4. \A k \in 1..Len(s) : Extreme(t, side, k) = Extreme(s, side, k) /\ Extreme(s, side, k) \in Int
  BY <1>1 DEF Extreme
<1>5. \A k \in leg : Extreme(t, side, k) = Extreme(s, side, k) /\ Extreme(s, side, k) \in Int
  BY <1>3, <1>4
<1>6. Starts(t) = Starts(s)
  <2> HIDE DEF leg
  <2> QED BY <1>5
<1>7. Starts(s) # {}
  <2>1. \E j \in leg : \A l \in leg : ~Beyond(side, Extreme(s, side, l), Extreme(s, side, j))
    BY <1>2, <1>3, <1>5, ExtremeExists
  <2> QED BY <2>1
<1>8. Starts(s) \subseteq Nat BY <1>3
<1>9. start \in leg
  <2>1. start \in Starts(s)
    <3> HIDE DEF Starts
    <3> QED BY <1>7, <1>8, LeastExists
  <2> QED BY <2>1
<1>10. /\ BlockOf(s, br) = [start |-> start, mitigated |-> Until(s)]
       /\ BlockOf(t, br) = [start |-> start, mitigated |-> Until(t)]
  <2>1. /\ BlockOf(s, br) = [start |-> Least(Starts(s)),
                             mitigated |-> LET D == Closes(s, side, Least(Starts(s)), br.bar + 1, Len(s))
                                           IN IF D = {} THEN 0 ELSE Least(D)]
        /\ BlockOf(t, br) = [start |-> Least(Starts(t)),
                             mitigated |-> LET D == Closes(t, side, Least(Starts(t)), br.bar + 1, Len(t))
                                           IN IF D = {} THEN 0 ELSE Least(D)]
    BY DEF BlockOf, side
  <2> QED BY <2>1, <1>6
<1> HIDE DEF leg, Starts, start
<1>11. start \in 1..Len(s) BY <1>3, <1>9
<1>12. Extreme(t, side, start) = Extreme(s, side, start) BY <1>4, <1>11
<1>13. /\ C(s) \subseteq C(t) /\ C(t) \subseteq C(s) \union {Len(t)}
       /\ C(t) \subseteq Nat /\ C(s) \subseteq 1..Len(s)
  <2>1. \A j \in (br.bar + 1)..Len(s) : t[j] = s[j] BY <1>1, <1>3
  <2> QED BY <2>1, <1>1, <1>3, <1>12 DEF Closes
<1> HIDE DEF C
<1>14. Until(t) \in {Until(s)} \union (IF Until(s) = 0 THEN {Len(t)} ELSE {})
  <2>1. CASE C(s) = {}
    <3>1. CASE C(t) = {} BY <2>1, <3>1
    <3>2. CASE C(t) # {}
      <4>1. C(t) = {Len(t)} BY <2>1, <3>2, <1>13
      <4>2. Least(C(t)) \in C(t) BY <3>2, <1>13, LeastExists
      <4> QED BY <2>1, <3>2, <4>1, <4>2
    <3> QED BY <3>1, <3>2
  <2>2. CASE C(s) # {}
    <3>1. C(t) # {} /\ C(s) \subseteq Nat BY <2>2, <1>13
    <3>2. Least(C(s)) \in C(s) /\ \A y \in C(s) : Least(C(s)) <= y BY <2>2, <3>1, LeastExists
    <3>3. Least(C(t)) \in C(t) /\ \A y \in C(t) : Least(C(t)) <= y BY <3>1, <1>13, LeastExists
    <3>4. Least(C(s)) = Least(C(t))
      <4> DEFINE a == Least(C(s))
                 b == Least(C(t))
      <4>1. b <= a /\ a \in 1..Len(s) BY <3>2, <3>3, <1>13
      <4>2. b \in C(s) \/ b = Len(t) BY <3>3, <1>13
      <4>3. b \in C(s) => a <= b BY <3>2
      <4>4. b \in Nat /\ a \in Nat BY <3>1, <3>2, <3>3, <1>13
      <4> HIDE DEF a, b
      <4>5. a = b BY <4>1, <4>2, <4>3, <4>4, <1>1
      <4> QED BY <4>5 DEF a, b
    <3> QED BY <2>2, <3>1, <3>4
  <2> QED BY <2>1, <2>2
<1> HIDE DEF Until
<1> QED BY <1>10, <1>14

\* The trend recorded at a bar is not changed, and a block is mitigated once, for any
\* pivot length and any price path.
THEOREM NothingRepainted == ASSUME ConstantsAssumption PROVE Spec => NoRepaint
<1> DEFINE A ==
      /\ Len(bars) > 2 * PivotLen => \A j \in DOMAIN bars : Trend(j)' = Trend(j)
      /\ \A k \in DOMAIN breaks :
           /\ BlockOf(bars', breaks'[k]).start = BlockOf(bars, breaks[k]).start
           /\ BlockOf(bars', breaks'[k]).mitigated \in
                {BlockOf(bars, breaks[k]).mitigated} \union
                (IF BlockOf(bars, breaks[k]).mitigated = 0 THEN {Len(bars')} ELSE {})
<1>1. ASSUME IInv, NEW bar \in Bars, NextBar(bar) PROVE A
  <2>1. /\ Extends(bars', bars) /\ Prefix(breaks, breaks')
        /\ breaks \in Seq(Break) /\ breaks' \in Seq(Break)
    BY <1>1, WindowStep
  <2>2. Len(bars) > 2 * PivotLen => \A j \in DOMAIN bars : Trend(j)' = Trend(j)
    <3>1. /\ PivotLen \in Nat /\ Len(bars) \in Nat /\ DOMAIN bars = 1..Len(bars)
          /\ Len(bars') = Len(bars) + 1
      BY <2>1, LenProperties DEF Extends, ConstantsAssumption
    <3>2. PICK v : trend' = Append(trend, v) BY <1>1 DEF NextBar
    <3>3. trend \in Seq({1, -1}) /\ Len(trend) = Len(bars) BY <1>1 DEF IInv
    <3>4. \A j \in 1..Len(trend) : trend'[j] = trend[j]
      <4> QED BY <3>2, <3>3
    <3> QED BY <3>1, <3>3, <3>4 DEF Trend
  <2>3. ASSUME NEW k \in DOMAIN breaks
        PROVE  /\ BlockOf(bars', breaks'[k]).start = BlockOf(bars, breaks[k]).start
               /\ BlockOf(bars', breaks'[k]).mitigated \in
                    {BlockOf(bars, breaks[k]).mitigated} \union
                    (IF BlockOf(bars, breaks[k]).mitigated = 0 THEN {Len(bars')} ELSE {})
    <3>1. breaks'[k] = breaks[k] BY <2>1 DEF Prefix
    <3>2. /\ Len(bars) \in Nat /\ PivotLen \in Nat /\ LoopState.breaks = breaks
          /\ Sound(LoopState, bars, Len(bars) - PivotLen)
      BY <1>1, <2>1, LenProperties DEF IInv, LoopState, ConstantsAssumption
    <3>3. /\ Typed(LoopState)
          /\ \A side \in Sides : Decided(LoopState, bars, side, Len(bars) - PivotLen)
      BY <3>2 DEF Sound
    <3>4. Len(bars) - PivotLen \in Int /\ Len(bars) - PivotLen <= Len(bars) BY <3>2
    <3>5. /\ breaks[k] \in Break /\ breaks[k].swing \in 1..Len(bars)
          /\ breaks[k].bar \in (breaks[k].swing + 1)..Len(bars)
      BY <3>2, <3>3, <3>4, BreakPlaced
    <3> QED BY <3>1, <3>5, <2>1, BlockKept
  <2> QED BY <2>2, <2>3
<1>2. IInv /\ [Next]_vars => [A]_vars BY <1>1 DEF Next
<1>3. Init => IInv BY InitIInv
<1>4. IInv /\ [Next]_vars => IInv' BY NextIInv
<1> QED BY <1>2, <1>3, <1>4, PTL DEF Spec, NoRepaint

-----------------------------------------------------------------------------
\* How far hindsight reaches.

\* A bounded set of naturals has a greatest element.
LEMMA GreatestExists ==
  ASSUME NEW n \in Nat, NEW S, S \subseteq 0..n, S # {}
  PROVE  \E x \in S : \A y \in S : y <= x
<1> DEFINE Bounds == {u \in 0..n : \A y \in S : y <= u}
<1>1. Bounds \subseteq Nat OBVIOUS
<1>2. n \in Bounds OBVIOUS
<1>3. \A u : u \in Bounds <=> u \in 0..n /\ \A y \in S : y <= u OBVIOUS
<1> HIDE DEF Bounds
<1>4. PICK u \in Bounds : \A v \in Bounds : u <= v BY <1>1, <1>2, LeastExists
<1>5. u \in 0..n /\ \A y \in S : y <= u BY <1>3, <1>4
<1>6. u \in S
  <2> SUFFICES ASSUME u \notin S PROVE FALSE OBVIOUS
  <2>1. \A y \in S : y <= u - 1 BY <1>5
  <2>2. PICK y \in S : TRUE OBVIOUS
  <2>3. u - 1 \in 0..n BY <1>5, <2>1, <2>2
  <2>4. u - 1 \in Bounds BY <1>3, <2>1, <2>3
  <2>5. ~(u <= u - 1) BY <1>5
  <2> QED BY <1>4, <2>4, <2>5
<1> QED BY <1>5, <1>6

\* The bar of a second, and the bars that are over before a bar begins.
LEMMA SecondsOfBars ==
  ASSUME ConstantsAssumption, NEW n \in Nat, NEW i \in 1..LastSecond(n)
  PROVE  /\ BarOf(i) \in 1..n
         /\ \A r \in Nat : i <= FirstSecond(r) => BarOf(i) <= r
<1> DEFINE q == (i - 1) \div Resample
<1>1. Resample \in Nat /\ Resample >= 1 BY DEF ConstantsAssumption
<1>2. n * Resample \in Int BY <1>1
<1>3. i - 1 \in Nat /\ i - 1 < n * Resample BY <1>1, <1>2 DEF LastSecond
<1>4. q \in Nat /\ Resample * q <= i - 1 BY <1>1, <1>3
<1> HIDE DEF q
<1>5. \A x, y \in Nat : x >= y => Resample * x >= Resample * y BY <1>1
<1>6. ~(q >= n)
  <2>1. ASSUME q >= n PROVE FALSE
    <3>1. Resample * q >= Resample * n BY <2>1, <1>4, <1>5
    <3>2. Resample * n = n * Resample BY <1>1
    <3>3. Resample * q \in Int BY <1>1, <1>4
    <3> QED BY <3>1, <3>2, <3>3, <1>2, <1>3, <1>4
  <2> QED BY <2>1
<1>7. ASSUME NEW r \in Nat, i <= FirstSecond(r) PROVE q <= r - 1
  <2>1. i - 1 <= (r - 1) * Resample BY <1>1, <1>7 DEF FirstSecond
  <2>2. ASSUME q >= r PROVE FALSE
    <3>1. Resample * q >= Resample * r BY <2>2, <1>4, <1>5
    <3>2. (r - 1) * Resample = Resample * r - Resample BY <1>1
    <3>3. Resample * q \in Int /\ Resample * r \in Int BY <1>1, <1>4
    <3> QED BY <2>1, <3>1, <3>2, <3>3, <1>1, <1>3, <1>4
  <2> QED BY <2>2, <1>4
<1>8. BarOf(i) = q + 1 BY DEF BarOf, q
<1> QED BY <1>4, <1>6, <1>7, <1>8

\* A break comes after the swing that a new swing of its side replaces.
BreaksAfterLast(st, new, side) ==
  \A k \in DOMAIN new.breaks \ DOMAIN st.breaks :
    /\ new.breaks[k].bar \in Nat /\ st.last[side] < new.breaks[k].bar
    /\ st.last[side] # new.last[side]

LEMMA SwingBreaksLater ==
  ASSUME NEW st, Typed(st), NEW s, NEW side \in Sides, NEW c \in Nat,
         NEW new, new = ConfirmSwing(st, s, side, c)
  PROVE  BreaksAfterLast(st, new, side)
<1> DEFINE br == Found(st, s, side, c)
           C == Through(st, s, side, c)
<1>1. new.last = LastAfter(st, side, c) BY ConfirmedFields
<1>2. st.breaks \in Seq(Break) /\ st.last \in [Sides -> Nat] BY DEF Typed
<1>3. new.last[side] = c
  BY <1>1, <1>2 DEF LastAfter
<1>4. CASE Breaks(st, s, side, c)
  <2>1. new.breaks = Append(st.breaks, br) /\ br \in Break BY <1>4, ConfirmedFields, FoundIsBreak
  <2>2. /\ C # {} /\ C \subseteq Nat /\ st.last[side] \in Nat
        /\ \A y \in C : st.last[side] < y /\ y <= c
    BY <1>2, <1>4 DEF Breaks, Through, Closes
  <2>3. br.bar = Least(C) BY DEF Found
  <2> HIDE DEF C
  <2>4. Least(C) \in C BY <2>2, LeastExists
  <2>5. br.bar \in Nat /\ st.last[side] < br.bar /\ br.bar <= c BY <2>2, <2>3, <2>4
  <2> HIDE DEF br
  <2>6. \A k \in DOMAIN new.breaks \ DOMAIN st.breaks : new.breaks[k] = br
    BY <1>2, <2>1, LenProperties
  <2> QED BY <1>3, <2>2, <2>5, <2>6 DEF BreaksAfterLast
<1>5. CASE ~Breaks(st, s, side, c)
  <2>1. new.breaks = st.breaks BY <1>5, ConfirmedFields
  <2> QED BY <1>3, <2>1 DEF BreaksAfterLast
<1> QED BY <1>4, <1>5

\* The same for both sides.
LEMMA BreaksLater ==
  ASSUME NEW st, Typed(st), NEW s, NEW c \in Int, PivotLen \in Nat
  PROVE  LET new == Confirmed(st, s, c)
         IN \A k \in DOMAIN new.breaks \ DOMAIN st.breaks : \E side \in Sides :
              /\ st.last[side] # new.last[side]
              /\ st.last[side] < new.breaks[k].bar /\ new.breaks[k].bar \in Nat
<1> DEFINE high == IF IsPivot(s, "high", c, PivotLen) THEN ConfirmSwing(st, s, "high", c) ELSE st
           low == IF IsPivot(s, "low", c, PivotLen) THEN ConfirmSwing(high, s, "low", c) ELSE high
<1>1. Confirmed(st, s, c) = low BY DEF Confirmed
<1>2. /\ "high" \in Sides /\ "low" \in Sides
  BY DEF Sides
<1>3. \A side : IsPivot(s, side, c, PivotLen) => c \in Nat BY DEF IsPivot
<1>4. /\ Typed(high) /\ high.last["low"] = st.last["low"]
      /\ BreaksAfterLast(st, high, "high")
  <2>1. CASE IsPivot(s, "high", c, PivotLen)
    <3>1. c \in Nat /\ high = ConfirmSwing(st, s, "high", c) BY <2>1, <1>3
    <3> HIDE DEF high
    <3>2. Typed(high) BY <3>1, <1>2, ConfirmedTyped
    <3>3. BreaksAfterLast(st, high, "high") BY <3>1, <1>2, SwingBreaksLater
    <3>4. high.last = LastAfter(st, "high", c) BY <3>1, ConfirmedFields
    <3>5. high.last["low"] = st.last["low"] BY <3>4 DEF LastAfter, Typed, Sides
    <3> QED BY <3>2, <3>3, <3>5
  <2>2. CASE ~IsPivot(s, "high", c, PivotLen) BY <2>2 DEF BreaksAfterLast
  <2> QED BY <2>1, <2>2
<1> HIDE DEF high
<1>5. /\ low.last["high"] = high.last["high"] /\ Prefix(high.breaks, low.breaks)
      /\ BreaksAfterLast(high, low, "low")
  <2>1. CASE IsPivot(s, "low", c, PivotLen)
    <3>1. c \in Nat /\ low = ConfirmSwing(high, s, "low", c) BY <2>1, <1>3
    <3> HIDE DEF low
    <3>2. Prefix(high.breaks, low.breaks) BY <3>1, <1>2, <1>4, SwingAppends
    <3>3. BreaksAfterLast(high, low, "low") BY <3>1, <1>2, <1>4, SwingBreaksLater
    <3>4. low.last = LastAfter(high, "low", c) BY <3>1, ConfirmedFields
    <3>5. low.last["high"] = high.last["high"] BY <3>4, <1>4 DEF LastAfter, Typed, Sides
    <3> QED BY <3>2, <3>3, <3>5
  <2>2. CASE ~IsPivot(s, "low", c, PivotLen) BY <2>2 DEF Prefix, BreaksAfterLast
  <2> QED BY <2>1, <2>2
<1> HIDE DEF low
<1>6. \A k \in DOMAIN low.breaks \ DOMAIN st.breaks : \E side \in Sides :
        /\ st.last[side] # low.last[side]
        /\ st.last[side] < low.breaks[k].bar /\ low.breaks[k].bar \in Nat
  <2> TAKE k \in DOMAIN low.breaks \ DOMAIN st.breaks
  <2>1. CASE k \in DOMAIN high.breaks
    <3>1. low.breaks[k] = high.breaks[k] BY <2>1, <1>5 DEF Prefix
    <3> QED BY <2>1, <3>1, <1>2, <1>4, <1>5 DEF BreaksAfterLast
  <2>2. CASE k \notin DOMAIN high.breaks
    BY <2>2, <1>2, <1>4, <1>5 DEF BreaksAfterLast
  <2> QED BY <2>1, <2>2
<1> QED BY <1>1, <1>6

\* The new breaks are all after bar j.
LaterThan(old, new, j) ==
  /\ old \in Seq(Break) /\ new \in Seq(Break) /\ Prefix(old, new)
  /\ \A k \in DOMAIN new \ DOMAIN old : j < new[k].bar

\* The last position of a set of breaks, 0 if there is none.
LastOf(S) == IF S = {} THEN 0 ELSE CHOOSE k \in S : \A l \in S : l <= k

LEMMA LastOfPositions ==
  ASSUME NEW brks \in Seq(Break), NEW S, S \subseteq DOMAIN brks
  PROVE  LastOf(S) = 0 \/ LastOf(S) \in DOMAIN brks
<1>1. DOMAIN brks = 1..Len(brks) /\ Len(brks) \in Nat BY LenProperties
<1>2. S \subseteq 0..Len(brks) BY <1>1
<1>3. S # {} => \E x \in S : \A y \in S : y <= x BY <1>1, <1>2, GreatestExists
<1>4. S # {} => LastOf(S) \in S BY <1>3 DEF LastOf
<1> QED BY <1>4 DEF LastOf

LEMMA BarsOfBreaks ==
  ASSUME NEW old, NEW new, NEW j \in Nat, LaterThan(old, new, j)
  PROVE  /\ \A k \in DOMAIN old : k \in DOMAIN new /\ new[k] = old[k] /\ old[k].bar \in Nat
         /\ \A k \in DOMAIN new \ DOMAIN old : ~(new[k].bar <= j)
         /\ \A k \in DOMAIN new \ DOMAIN old, l \in DOMAIN old : ~(k <= l)
<1>1. /\ old \in Seq(Break) /\ new \in Seq(Break) /\ Prefix(old, new)
      /\ \A k \in DOMAIN new \ DOMAIN old : j < new[k].bar
  BY DEF LaterThan
<1>2. /\ DOMAIN old = 1..Len(old) /\ Len(old) \in Nat /\ \A k \in DOMAIN old : old[k] \in Break
      /\ DOMAIN new = 1..Len(new) /\ Len(new) \in Nat /\ \A k \in DOMAIN new : new[k] \in Break
  BY <1>1, LenProperties, ElementOfSeq
<1>3. \A br \in Break : br.bar \in Nat BY DEF Break
<1>4. \A k \in DOMAIN old : k \in DOMAIN new /\ new[k] = old[k] /\ old[k].bar \in Nat
  BY <1>1, <1>2, <1>3 DEF Prefix
<1>5. \A k \in DOMAIN new \ DOMAIN old : ~(new[k].bar <= j)
  <2> TAKE k \in DOMAIN new \ DOMAIN old
  <2>1. new[k].bar \in Nat /\ j < new[k].bar BY <1>1, <1>2, <1>3
  <2> QED BY <2>1
<1>6. \A k \in DOMAIN new \ DOMAIN old, l \in DOMAIN old : ~(k <= l) BY <1>2
<1> QED BY <1>4, <1>5, <1>6

LEMMA LastBreakKept ==
  ASSUME NEW old, NEW new, NEW j \in Nat, LaterThan(old, new, j)
  PROVE  /\ LastBreak(new, j) = LastBreak(old, j)
         /\ LastBreak(old, j) = 0 \/ LastBreak(old, j) \in DOMAIN old
<1> DEFINE UpTo(brks) == {k \in DOMAIN brks : brks[k].bar <= j}
<1>1. \A brks : LastBreak(brks, j) = LastOf(UpTo(brks)) BY DEF LastBreak, LastOf
<1>2. UpTo(new) = UpTo(old)
  <2>1. /\ \A k \in DOMAIN old : k \in DOMAIN new /\ new[k] = old[k]
        /\ \A k \in DOMAIN new \ DOMAIN old : ~(new[k].bar <= j)
    BY BarsOfBreaks
  <2> QED BY <2>1
<1>3. UpTo(old) \subseteq DOMAIN old OBVIOUS
<1> HIDE DEF UpTo
<1>4. LastOf(UpTo(old)) = 0 \/ LastOf(UpTo(old)) \in DOMAIN old
  BY <1>3, LastOfPositions DEF LaterThan
<1> QED BY <1>1, <1>2, <1>4

LEMMA LastListedKept ==
  ASSUME NEW old, NEW new, NEW j \in Nat, LaterThan(old, new, j),
         NEW was, was \subseteq DOMAIN old, NEW is, is \subseteq DOMAIN new,
         \A k \in DOMAIN old : k \in is <=> k \in was
  PROVE  /\ LastListed(new, is, j) = LastListed(old, was, j)
         /\ LastListed(old, was, j) = 0 \/ LastListed(old, was, j) \in DOMAIN old
<1> DEFINE Reached(brks, list) == {k \in list : \A l \in list : l <= k => brks[l].bar <= j}
<1>1. \A brks, list : LastListed(brks, list, j) = LastOf(Reached(brks, list))
  BY DEF LastListed, LastOf
<1>2. /\ \A k \in DOMAIN old : k \in DOMAIN new /\ new[k] = old[k] /\ k <= k
      /\ \A k \in DOMAIN new \ DOMAIN old : ~(new[k].bar <= j) /\ k <= k
      /\ \A k \in DOMAIN new \ DOMAIN old, l \in DOMAIN old : ~(k <= l)
  <2>1. DOMAIN old \subseteq Int /\ DOMAIN new \subseteq Int BY LenProperties DEF LaterThan
  <2>2. \A k \in Int : k <= k OBVIOUS
  <2> QED BY <2>1, <2>2, BarsOfBreaks
<1>3. \A k \in DOMAIN old : k \in Reached(new, is) <=> k \in Reached(old, was)
  BY <1>2
<1>4. \A k \in DOMAIN new \ DOMAIN old : k \notin Reached(new, is)
  BY <1>2
<1>5. Reached(old, was) \subseteq DOMAIN old /\ Reached(new, is) \subseteq DOMAIN new OBVIOUS
<1> HIDE DEF Reached
<1>6. Reached(new, is) = Reached(old, was) BY <1>3, <1>4, <1>5, <1>2
<1>7. LastOf(Reached(old, was)) = 0 \/ LastOf(Reached(old, was)) \in DOMAIN old
  BY <1>5, LastOfPositions DEF LaterThan
<1> QED BY <1>1, <1>6, <1>7

\* A gap that bar t closes is seen only by breaks after bar t.
LEMMA ChochsKept ==
  ASSUME ConstantsAssumption, NEW s, NEW t, Extends(t, s),
         NEW old, NEW new, NEW j \in Nat, LaterThan(old, new, j),
         \A k \in DOMAIN old : old[k].bar \in 1..Len(s)
  PROVE  /\ Chochs(old) \subseteq DOMAIN old /\ Chochs(new) \subseteq DOMAIN new
         /\ ChochsPlus(s, old) \subseteq DOMAIN old /\ ChochsPlus(t, new) \subseteq DOMAIN new
         /\ \A k \in DOMAIN old : /\ k \in Chochs(new) <=> k \in Chochs(old)
                                  /\ k \in ChochsPlus(t, new) <=> k \in ChochsPlus(s, old)
<1>1. /\ Chochs(old) \subseteq DOMAIN old /\ Chochs(new) \subseteq DOMAIN new
      /\ ChochsPlus(s, old) \subseteq DOMAIN old /\ ChochsPlus(t, new) \subseteq DOMAIN new
  BY DEF Chochs, ChochsPlus
<1>2. \A k \in DOMAIN old : k \in DOMAIN new /\ new[k] = old[k] BY BarsOfBreaks
<1>3. \A k \in DOMAIN old : k \in Chochs(new) <=> k \in Chochs(old) BY <1>2 DEF Chochs
<1>4. /\ Len(s) \in Nat /\ Len(t) = Len(s) + 1 /\ \A k \in 1..Len(s) : t[k] = s[k]
      /\ DOMAIN s = 1..Len(s) /\ DOMAIN t = 1..Len(t)
      /\ Resample \in Nat \ {0}
  BY LenProperties DEF Extends, ConstantsAssumption
<1>5. \A u \in DOMAIN s : u \in DOMAIN t /\ (Gap(t, u) <=> Gap(s, u))
  <2> TAKE u \in DOMAIN s
  <2>1. u > 2 => u - 2 \in 1..Len(s) BY <1>4
  <2> QED BY <1>4, <2>1 DEF Gap
<1>6. ASSUME NEW b \in 1..Len(s) PROVE ~(LastSecond(Len(t)) <= FirstSecond(b))
  <2> DEFINE n == Len(s)
  <2>1. b \in Nat /\ n \in Nat /\ b <= n /\ Resample \in Nat /\ Resample >= 1 BY <1>4
  <2> HIDE DEF n
  <2>2. b * Resample <= n * Resample BY <2>1
  <2>3. b * Resample \in Int /\ n * Resample \in Int BY <2>1
  <2>4. (n + 1) * Resample = n * Resample + Resample BY <2>1
  <2>5. (b - 1) * Resample = b * Resample - Resample BY <2>1
  <2>6. ~((n + 1) * Resample <= (b - 1) * Resample + 1)
    BY <2>1, <2>2, <2>3, <2>4, <2>5
  <2> QED BY <2>6, <1>4 DEF n, LastSecond, FirstSecond
<1>7. ASSUME NEW k \in DOMAIN old
      PROVE  k \in ChochsPlus(t, new) <=> k \in ChochsPlus(s, old)
  <2> DEFINE Leg(w, br, u) == /\ Gap(w, u)
                              /\ FirstSecond(br.swing) <= LastSecond(u)
                              /\ LastSecond(u) <= FirstSecond(br.bar)
  <2>1. new[k] = old[k] /\ k \in DOMAIN new /\ old[k].bar \in 1..Len(s) BY <1>2
  <2>2. ~Leg(t, old[k], Len(t)) BY <1>6, <2>1
  <2>3. \A u \in DOMAIN s : u \in DOMAIN t /\ (Leg(t, old[k], u) <=> Leg(s, old[k], u)) BY <1>5
  <2>4. \A u \in DOMAIN t : u \in DOMAIN s \/ u = Len(t) BY <1>4
  <2>5. /\ k \in ChochsPlus(s, old) <=> k \in Chochs(old) /\ \E u \in DOMAIN s : Leg(s, old[k], u)
        /\ k \in ChochsPlus(t, new) <=> k \in Chochs(new) /\ \E u \in DOMAIN t : Leg(t, new[k], u)
    BY DEF ChochsPlus
  <2> HIDE DEF Leg
  <2>6. (\E u \in DOMAIN t : Leg(t, old[k], u)) <=> (\E u \in DOMAIN s : Leg(s, old[k], u))
    BY <2>2, <2>3, <2>4
  <2> QED BY <1>3, <2>1, <2>5, <2>6
<1> QED BY <1>1, <1>3, <1>7

\* The bar that a second is told about, before and after the bar after n arrives.
LEMMA ToldBars ==
  ASSUME ConstantsAssumption, NEW n \in Nat, NEW i \in 1..(LastSecond(n) + Resample)
  PROVE  /\ BarOf(i) \in 1..(n + 1)
         /\ \A r \in Nat : i <= FirstSecond(r) => BarOf(i) <= r
         /\ i <= LastSecond(n) => /\ BarOf(i) \in 1..n
                                  /\ ToldBar(i, n) = BarOf(i) /\ ToldBar(i, n + 1) = BarOf(i)
         /\ ~(i <= LastSecond(n)) => /\ BarOf(i) = n + 1
                                     /\ ToldBar(i, n) = n /\ ToldBar(i, n + 1) = n + 1
<1>1. /\ Resample \in Nat /\ Resample >= 1 /\ n + 1 \in Nat
      /\ LastSecond(n + 1) = LastSecond(n) + Resample /\ LastSecond(n) \in Int
  BY DEF ConstantsAssumption, LastSecond
<1>2. /\ BarOf(i) \in 1..(n + 1)
      /\ \A r \in Nat : i <= FirstSecond(r) => BarOf(i) <= r
  BY <1>1, SecondsOfBars
<1>3. CASE i <= LastSecond(n)
  <2>1. i \in 1..LastSecond(n) BY <1>1, <1>3
  <2>2. BarOf(i) \in 1..n BY <2>1, SecondsOfBars
  <2> QED BY <1>2, <1>3, <2>2 DEF ToldBar, Smaller
<1>4. CASE ~(i <= LastSecond(n))
  <2> DEFINE q == (i - 1) \div Resample
             r == (i - 1) % Resample
  <2>1. i - 1 \in Int /\ i - 1 >= n * Resample /\ n * Resample \in Int
    BY <1>1, <1>4 DEF LastSecond
  <2>2. q \in Int /\ r \in 0..(Resample - 1) /\ i - 1 = Resample * q + r BY <1>1, <2>1
  <2>3. BarOf(i) = q + 1 BY DEF BarOf
  <2> HIDE DEF q, r
  <2>4. q \in 0..n BY <1>2, <2>2, <2>3
  <2>5. q >= n
    <3>1. ASSUME q <= n - 1 PROVE FALSE
      <4>1. Resample * q <= Resample * (n - 1) BY <1>1, <2>4, <3>1
      <4>2. Resample * (n - 1) = n * Resample - Resample BY <1>1
      <4>3. Resample * q \in Int BY <1>1, <2>4
      <4> QED BY <4>1, <4>2, <4>3, <1>1, <2>1, <2>2
    <3> QED BY <3>1, <2>4
  <2>6. BarOf(i) = n + 1 BY <2>3, <2>4, <2>5
  <2> QED BY <1>2, <1>4, <2>6 DEF ToldBar, Smaller
<1> QED BY <1>2, <1>3, <1>4

\* What the seconds of bar j are told of breaks, and of everything.
Choch(brks, j) == LastListed(brks, Chochs(brks), j)
ChochPlus(w, brks, j) == LastListed(brks, ChochsPlus(w, brks), j)

BarView(w, brks, j) == [break     |-> Entry(brks, LastBreak(brks, j)),
                        choch     |-> Entry(brks, Choch(brks, j)),
                        chochPlus |-> Entry(brks, ChochPlus(w, brks, j)),
                        swept     |-> SweptAt(Sweeps(w), j)]

LEMMA ViewsOfBars ==
  ASSUME NEW s, NEW brks, NEW p, NEW i \in 1..(LastSecond(Len(s)) + p),
         ToldBar(i, Len(s)) \in DOMAIN s
  PROVE  Views(s, brks, p)[i] = BarView(s, brks, ToldBar(i, Len(s)))
BY DEF Views, BarView, Choch, ChochPlus

\* Before all new breaks a bar is told the breaks that it was told before.
LEMMA BreaksTold ==
  ASSUME ConstantsAssumption, NEW s, NEW t, Extends(t, s), NEW j \in Nat,
         NEW old, NEW new, LaterThan(old, new, j),
         \A k \in DOMAIN old : old[k].bar \in 1..Len(s)
  PROVE  /\ Entry(new, LastBreak(new, j)) = Entry(old, LastBreak(old, j))
         /\ Entry(new, Choch(new, j)) = Entry(old, Choch(old, j))
         /\ Entry(new, ChochPlus(t, new, j)) = Entry(old, ChochPlus(s, old, j))
<1>7. \A k \in DOMAIN old : new[k] = old[k] BY BarsOfBreaks
<1>8. \A k : k = 0 \/ k \in DOMAIN old => Entry(new, k) = Entry(old, k) BY <1>7 DEF Entry
<1>9. Entry(new, LastBreak(new, j)) = Entry(old, LastBreak(old, j))
  BY <1>8, LastBreakKept
<1>10. /\ Chochs(old) \subseteq DOMAIN old /\ Chochs(new) \subseteq DOMAIN new
       /\ ChochsPlus(s, old) \subseteq DOMAIN old /\ ChochsPlus(t, new) \subseteq DOMAIN new
       /\ \A k \in DOMAIN old : k \in Chochs(new) <=> k \in Chochs(old)
       /\ \A k \in DOMAIN old : k \in ChochsPlus(t, new) <=> k \in ChochsPlus(s, old)
  BY ChochsKept
<1>11. Entry(new, Choch(new, j)) = Entry(old, Choch(old, j))
  <2>1. /\ LastListed(new, Chochs(new), j) = LastListed(old, Chochs(old), j)
        /\ LastListed(old, Chochs(old), j) = 0 \/ LastListed(old, Chochs(old), j) \in DOMAIN old
    <3> DEFINE was == Chochs(old)
               is  == Chochs(new)
    <3>1. /\ was \subseteq DOMAIN old /\ is \subseteq DOMAIN new
          /\ \A k \in DOMAIN old : k \in is <=> k \in was
      BY <1>10
    <3> HIDE DEF was, is
    <3>2. /\ LastListed(new, is, j) = LastListed(old, was, j)
          /\ LastListed(old, was, j) = 0 \/ LastListed(old, was, j) \in DOMAIN old
      BY <3>1, LastListedKept
    <3> QED BY <3>2 DEF was, is
  <2> QED BY <1>8, <2>1 DEF Choch
<1>12. Entry(new, ChochPlus(t, new, j)) = Entry(old, ChochPlus(s, old, j))
  <2>1. /\ LastListed(new, ChochsPlus(t, new), j) = LastListed(old, ChochsPlus(s, old), j)
        /\ \/ LastListed(old, ChochsPlus(s, old), j) = 0
           \/ LastListed(old, ChochsPlus(s, old), j) \in DOMAIN old
    BY <1>10, LastListedKept
  <2> QED BY <1>8, <2>1 DEF ChochPlus
<1> QED BY <1>9, <1>11, <1>12

\* No break is at a bar that is not over: its seconds are told what the last whole bar
\* is told.
LEMMA TailTold ==
  ASSUME ConstantsAssumption, NEW s, NEW n \in Nat, NEW brks \in Seq(Break),
         \A k \in DOMAIN brks : brks[k].bar \in 1..n
  PROVE  /\ LastBreak(brks, n + 1) = LastBreak(brks, n)
         /\ Choch(brks, n + 1) = Choch(brks, n)
         /\ ChochPlus(s, brks, n + 1) = ChochPlus(s, brks, n)
<1>1. \A k \in DOMAIN brks : brks[k].bar <= n /\ brks[k].bar <= n + 1 OBVIOUS
<1>2. \A list : list \subseteq DOMAIN brks => LastListed(brks, list, n + 1) = LastListed(brks, list, n)
  <2> TAKE list
  <2> HAVE list \subseteq DOMAIN brks
  <2> DEFINE Reached(j) == {k \in list : \A l \in list : l <= k => brks[l].bar <= j}
  <2>1. Reached(n + 1) = Reached(n) BY <1>1
  <2>2. \A j : LastListed(brks, list, j) = LastOf(Reached(j)) BY DEF LastListed, LastOf
  <2> HIDE DEF Reached
  <2> QED BY <2>1, <2>2
<1>3. Chochs(brks) \subseteq DOMAIN brks /\ ChochsPlus(s, brks) \subseteq DOMAIN brks
  BY DEF Chochs, ChochsPlus
<1>4. LastBreak(brks, n + 1) = LastBreak(brks, n)
  <2> DEFINE UpTo(j) == {k \in DOMAIN brks : brks[k].bar <= j}
  <2>1. UpTo(n + 1) = UpTo(n) BY <1>1
  <2>2. \A j : LastBreak(brks, j) = LastOf(UpTo(j)) BY DEF LastBreak, LastOf
  <2> HIDE DEF UpTo
  <2> QED BY <2>1, <2>2
<1> QED BY <1>2, <1>3, <1>4 DEF Choch, ChochPlus

\* Seconds of the bars before all new breaks are told what they were told before; those
\* of the new bar may be told of its sweeps.
LEMMA ViewsKept ==
  ASSUME ConstantsAssumption, NEW s, NEW t, Extends(t, s), s # <<>>,
         NEW i \in 1..(LastSecond(Len(s)) + (Resample - 1)),
         NEW old, NEW new, LaterThan(old, new, BarOf(i)),
         \A k \in DOMAIN old : old[k].bar \in 1..Len(s)
  PROVE  LET was == Views(s, old, Resample - 1)[i]
             is  == Views(t, new, 0)[i]
         IN /\ is.break = was.break
            /\ is = was \/ (i > LastSecond(Len(s)) /\ was.swept # is.swept)
<1> DEFINE n == Len(s)
<1>1. /\ Len(s) \in Nat \ {0} /\ Len(t) = n + 1 /\ Resample \in Nat \ {0}
      /\ DOMAIN s = 1..Len(s) /\ DOMAIN t = 1..Len(t)
      /\ LastSecond(n) \in Int /\ LastSecond(n + 1) = LastSecond(n) + Resample
      /\ LastSecond(n + 1) + 0 = LastSecond(n) + Resample
  <2>1. Len(s) \in Nat \ {0} /\ Len(t) = n + 1 BY LenProperties, EmptySeq DEF Extends
  <2>2. Resample \in Nat \ {0} BY DEF ConstantsAssumption
  <2>3. LastSecond(n) \in Int /\ LastSecond(n + 1) = LastSecond(n) + Resample
    BY <2>1, <2>2 DEF LastSecond
  <2>4. DOMAIN s = 1..Len(s) /\ DOMAIN t = 1..Len(t) BY LenProperties DEF Extends
  <2> QED BY <2>1, <2>2, <2>3, <2>4
<1> HIDE DEF n
<1>2. n \in Nat /\ n >= 1 /\ i \in 1..(LastSecond(n) + Resample) /\ i \in 1..(LastSecond(n + 1) + 0)
      /\ i \in 1..(LastSecond(n) + (Resample - 1))
  BY <1>1 DEF n
<1>3. ToldBar(i, n) \in 1..n /\ ToldBar(i, n + 1) \in 1..(n + 1) /\ BarOf(i) \in Nat
  BY <1>2, ToldBars
<1>4. Views(s, old, Resample - 1)[i] = BarView(s, old, ToldBar(i, n))
  BY <1>1, <1>2, <1>3, ViewsOfBars DEF n
<1>5. Views(t, new, 0)[i] = BarView(t, new, ToldBar(i, n + 1))
  BY <1>1, <1>2, <1>3, ViewsOfBars
<1>6. CASE i <= LastSecond(n)
  <2> DEFINE j == BarOf(i)
  <2>1. j \in 1..n /\ ToldBar(i, n) = j /\ ToldBar(i, n + 1) = j BY <1>2, <1>6, ToldBars
  <2> HIDE DEF j
  <2>2. LaterThan(old, new, j) /\ j \in Nat BY <2>1 DEF j
  <2>3. SweptAt(Sweeps(t), j) = SweptAt(Sweeps(s), j) BY <2>1, SweepsKept DEF n
  <2>4. BarView(t, new, j) = BarView(s, old, j) BY <2>2, <2>3, BreaksTold DEF BarView
  <2> QED BY <1>4, <1>5, <2>1, <2>4
<1>7. CASE ~(i <= LastSecond(n))
  <2>1. BarOf(i) = n + 1 /\ ToldBar(i, n) = n /\ ToldBar(i, n + 1) = n + 1
    BY <1>2, <1>7, ToldBars
  <2>2. LaterThan(old, new, n + 1) /\ n + 1 \in Nat BY <1>2, <2>1
  <2>3. /\ Entry(new, LastBreak(new, n + 1)) = Entry(old, LastBreak(old, n + 1))
        /\ Entry(new, Choch(new, n + 1)) = Entry(old, Choch(old, n + 1))
        /\ Entry(new, ChochPlus(t, new, n + 1)) = Entry(old, ChochPlus(s, old, n + 1))
    BY <2>2, BreaksTold
  <2>4. /\ LastBreak(old, n + 1) = LastBreak(old, n)
        /\ Choch(old, n + 1) = Choch(old, n)
        /\ ChochPlus(s, old, n + 1) = ChochPlus(s, old, n)
    BY <1>2, TailTold DEF n, LaterThan
  <2> DEFINE was == BarView(s, old, n)
             is  == BarView(t, new, n + 1)
  <2>5. /\ is.break = was.break
        /\ is.swept = was.swept => is = was
    BY <2>3, <2>4 DEF BarView
  <2>6. i > LastSecond(n) BY <1>1, <1>2, <1>7 DEF n
  <2> HIDE DEF was, is
  <2> QED BY <1>4, <1>5, <2>1, <2>5, <2>6 DEF n, was, is
<1> QED BY <1>6, <1>7

\* A new bar rewrites no second before the swing that its new swing replaces, for any
\* pivot length, any resampling and any price path.
THEOREM HindsightBounded == ASSUME ConstantsAssumption PROVE Spec => HindsightIsBounded
<1> DEFINE A ==
      LET old == Views(bars, breaks, Resample - 1)
          new == Views(bars', breaks', 0)
          replaced == {last[side] : side \in {x \in Sides : last'[x] # last[x]}}
      IN Len(bars) > 2 * PivotLen =>
           \A i \in DOMAIN old :
             \/ \E swing \in replaced : i > FirstSecond(swing)
             \/ LET was == old[i]
                    is  == new[i]
                IN /\ \A dir \in {1, -1} : Alignment(was, i, dir) = Alignment(is, i, dir)
                   /\ \/ i > LastSecond(Len(bars)) /\ was.swept # is.swept
                      \/ /\ was.swept = is.swept
                         /\ \A dir \in {1, -1} : Conviction(was, i, dir) = Conviction(is, i, dir)
<1>1. ASSUME IInv, NEW bar \in Bars, NextBar(bar) PROVE A
  <2>1. /\ Extends(bars', bars) /\ Prefix(breaks, breaks')
        /\ breaks \in Seq(Break) /\ breaks' \in Seq(Break)
    BY <1>1, WindowStep
  <2>2. /\ Len(bars) \in Nat /\ Resample \in Nat \ {0} /\ PivotLen \in Nat
        /\ DOMAIN bars = 1..Len(bars) /\ Len(Append(bars, bar)) \in Nat
    BY <2>1, LenProperties DEF Extends, ConstantsAssumption
  <2>3. /\ Typed(LoopState) /\ LoopState.breaks = breaks /\ LoopState.last = last
        /\ \A side \in Sides : Decided(LoopState, bars, side, Len(bars) - PivotLen)
    BY <1>1 DEF IInv, Sound, LoopState
  <2>4. \A k \in DOMAIN breaks : breaks[k].bar \in 1..Len(bars)
    <3> TAKE k \in DOMAIN breaks
    <3>1. Len(bars) - PivotLen \in Int /\ Len(bars) - PivotLen <= Len(bars) BY <2>2
    <3>2. /\ breaks[k].swing \in 1..Len(bars)
          /\ breaks[k].bar \in (breaks[k].swing + 1)..Len(bars)
      BY <2>2, <2>3, <3>1, BreakPlaced
    <3> QED BY <2>2, <3>2
  <2>5. \A k \in DOMAIN breaks' \ DOMAIN breaks : \E side \in Sides :
          /\ last[side] # last'[side] /\ last[side] < breaks'[k].bar /\ breaks'[k].bar \in Nat
    <3> DEFINE c == Len(Append(bars, bar)) - PivotLen
               st == Confirmed(LoopState, Append(bars, bar), c)
    <3>1. breaks' = st.breaks /\ last' = st.last BY <1>1 DEF NextBar, LoopState
    <3>2. c \in Int BY <2>2
    <3> HIDE DEF c
    <3>3. \A k \in DOMAIN st.breaks \ DOMAIN LoopState.breaks : \E side \in Sides :
            /\ LoopState.last[side] # st.last[side]
            /\ LoopState.last[side] < st.breaks[k].bar /\ st.breaks[k].bar \in Nat
      BY <2>2, <2>3, <3>2, BreaksLater
    <3> HIDE DEF st
    <3> QED BY <2>3, <3>1, <3>3
  <2>6. last \in [Sides -> Nat] BY <2>3 DEF Typed
  <2>7. ASSUME NEW i \in DOMAIN Views(bars, breaks, Resample - 1), bars # <<>>,
               \A side \in Sides : last'[side] # last[side] => ~(i > FirstSecond(last[side]))
        PROVE  LET was == Views(bars, breaks, Resample - 1)[i]
                   is  == Views(bars', breaks', 0)[i]
               IN /\ is.break = was.break
                  /\ is = was \/ (i > LastSecond(Len(bars)) /\ was.swept # is.swept)
    <3>1. i \in 1..(LastSecond(Len(bars)) + (Resample - 1)) BY DEF Views
    <3>2. BarOf(i) \in Nat /\ \A r \in Nat : i <= FirstSecond(r) => BarOf(i) <= r
      <4>1. LastSecond(Len(bars)) \in Int BY <2>2 DEF LastSecond
      <4>2. i \in 1..(LastSecond(Len(bars)) + Resample) BY <2>2, <3>1, <4>1
      <4> QED BY <2>2, <4>2, ToldBars
    <3>3. ASSUME NEW k \in DOMAIN breaks' \ DOMAIN breaks PROVE BarOf(i) < breaks'[k].bar
      <4>1. PICK side \in Sides : /\ last[side] # last'[side]
                                  /\ last[side] < breaks'[k].bar /\ breaks'[k].bar \in Nat
        BY <2>5
      <4>2. last[side] \in Nat BY <2>6
      <4>3. FirstSecond(last[side]) \in Int BY <2>2, <4>2 DEF FirstSecond
      <4>4. i \in Int BY <3>1
      <4>5. ~(i > FirstSecond(last[side])) BY <2>7, <4>1
      <4>6. i <= FirstSecond(last[side]) BY <4>3, <4>4, <4>5
      <4>7. BarOf(i) <= last[side] BY <3>2, <4>2, <4>6
      <4> QED BY <3>2, <4>1, <4>2, <4>7
    <3>4. LaterThan(breaks, breaks', BarOf(i)) BY <2>1, <3>3 DEF LaterThan
    <3> QED BY <2>1, <2>4, <2>7, <3>1, <3>4, ViewsKept
  <2>8. ASSUME Len(bars) > 2 * PivotLen, NEW i \in DOMAIN Views(bars, breaks, Resample - 1),
               ~\E swing \in {last[side] : side \in {x \in Sides : last'[x] # last[x]}} :
                  i > FirstSecond(swing)
        PROVE  LET was == Views(bars, breaks, Resample - 1)[i]
                   is  == Views(bars', breaks', 0)[i]
               IN /\ \A dir \in {1, -1} : Alignment(was, i, dir) = Alignment(is, i, dir)
                  /\ \/ i > LastSecond(Len(bars)) /\ was.swept # is.swept
                     \/ /\ was.swept = is.swept
                        /\ \A dir \in {1, -1} : Conviction(was, i, dir) = Conviction(is, i, dir)
    <3> DEFINE was == Views(bars, breaks, Resample - 1)[i]
               is  == Views(bars', breaks', 0)[i]
    <3>1. bars # <<>> BY <2>1, <2>2, <2>8, EmptySeq DEF Extends
    <3>2. \A side \in Sides : last'[side] # last[side] => ~(i > FirstSecond(last[side]))
      BY <2>8
    <3>3. /\ is.break = was.break
          /\ is = was \/ (i > LastSecond(Len(bars)) /\ was.swept # is.swept)
      BY <3>1, <3>2, <2>7
    <3> HIDE DEF was, is
    <3>4. \A dir : Alignment(was, i, dir) = Alignment(is, i, dir) BY <3>3 DEF Alignment
    <3>5. \/ i > LastSecond(Len(bars)) /\ was.swept # is.swept
          \/ /\ was.swept = is.swept
             /\ \A dir \in {1, -1} : Conviction(was, i, dir) = Conviction(is, i, dir)
      BY <3>3
    <3> QED BY <3>4, <3>5 DEF was, is
  <2> QED BY <2>8
<1>2. IInv /\ [Next]_vars => [A]_vars BY <1>1 DEF Next
<1>3. Init => IInv BY InitIInv
<1>4. IInv /\ [Next]_vars => IInv' BY NextIInv
<1> QED BY <1>2, <1>3, <1>4, PTL DEF Spec, HindsightIsBounded

-----------------------------------------------------------------------------
\* The memory of the backtest.

\* The newest breaks of the first k, as many as the memory holds.
Held(k) == IF k > MemoryLen THEN MemoryLen ELSE k
Newest(brks, k) == [i \in 1..Held(k) |-> brks[k - Held(k) + i]]

LEMMA NewestFields ==
  ASSUME MemoryLen \in Nat \ {0}, NEW brks \in Seq(Break), NEW k \in 0..Len(brks)
  PROVE  /\ Held(k) \in 0..k /\ (k > 0 => Held(k) > 0)
         /\ Newest(brks, k) \in Seq(Break) /\ Len(Newest(brks, k)) = Held(k)
         /\ \A i \in 1..Held(k) : /\ k - Held(k) + i \in 1..Len(brks)
                                  /\ Newest(brks, k)[i] = brks[k - Held(k) + i]
<1>1. Len(brks) \in Nat /\ \A i \in 1..Len(brks) : brks[i] \in Break BY ElementOfSeq
<1>2. Held(k) \in 0..k /\ (k > 0 => Held(k) > 0) BY <1>1 DEF Held
<1>3. \A i \in 1..Held(k) : k - Held(k) + i \in 1..Len(brks) BY <1>1, <1>2
<1>4. Newest(brks, k) \in [1..Held(k) -> Break] BY <1>1, <1>3 DEF Newest
<1> DEFINE f == Newest(brks, k)
           m == Held(k)
<1>5. \A i \in 1..m : f[i] = brks[k - m + i] BY DEF Newest
<1> HIDE DEF f, m
<1>6. m \in Nat /\ f \in [1..m -> Break] BY <1>2, <1>4 DEF f, m
<1>7. f \in Seq(Break) /\ Len(f) = m BY <1>6
<1> QED BY <1>2, <1>3, <1>5, <1>7 DEF f, m

\* A break that is not before those in the memory is appended to them.
LEMMA RememberInOrder ==
  ASSUME MemoryLen \in Nat \ {0}, NEW mem \in Seq(Break), NEW br \in Break,
         \A i \in DOMAIN mem : mem[i].bar <= br.bar
  PROVE  Remember(mem, br) = IF Len(mem) + 1 > MemoryLen THEN Tail(Append(mem, br))
                             ELSE Append(mem, br)
<1> DEFINE L == Len(mem)
           before == Cardinality({i \in DOMAIN mem : mem[i].bar <= br.bar})
           sorted == SubSeq(mem, 1, before) \o <<br>> \o SubSeq(mem, before + 1, Len(mem))
<1>1. L \in Nat /\ DOMAIN mem = 1..L BY LenProperties
<1>2. {i \in DOMAIN mem : mem[i].bar <= br.bar} = 1..L BY <1>1
<1>3. Cardinality(1..L) = L
  <2> HIDE DEF L
  <2>1. L \in Int /\ 1 \in Int BY <1>1
  <2>2. Cardinality(1..L) = IF 1 > L THEN 0 ELSE L - 1 + 1 BY <2>1, FS_Interval
  <2> QED BY <1>1, <2>2
<1>4. before = L BY <1>2, <1>3
<1>5. SubSeq(mem, 1, L) = mem BY SubSeqFull
<1>6. SubSeq(mem, L + 1, L) = <<>> BY <1>1, SubSeqEmpty
<1>7. mem \o <<br>> = Append(mem, br) /\ Append(mem, br) \in Seq(Break)
  BY AppendIsConcat, AppendProperties
<1>8. Append(mem, br) \o <<>> = Append(mem, br) BY <1>7, ConcatEmptySeq
<1>9. sorted = Append(mem, br) BY <1>4, <1>5, <1>6, <1>7, <1>8
<1>10. Len(Append(mem, br)) = Len(mem) + 1 BY AppendProperties
<1>11. Remember(mem, br) = IF Len(sorted) > MemoryLen THEN Tail(sorted) ELSE sorted
  BY DEF Remember
<1> HIDE DEF sorted
<1> QED BY <1>9, <1>10, <1>11

\* Breaks of one order leave the newest ones in the memory.
LEMMA NewestRemembered ==
  ASSUME MemoryLen \in Nat \ {0}, NEW brks \in Seq(Break), NEW k \in 1..Len(brks),
         \A i, l \in DOMAIN brks : i < l => brks[i].bar <= brks[l].bar
  PROVE  Remember(Newest(brks, k - 1), brks[k]) = Newest(brks, k)
<1> DEFINE mem == Newest(brks, k - 1)
           new == Newest(brks, k)
           br == brks[k]
           m == Held(k - 1)
           n == Held(k)
           all == Append(mem, br)
<1>1. /\ Len(brks) \in Nat /\ DOMAIN brks = 1..Len(brks)
      /\ k \in 0..Len(brks) /\ k - 1 \in 0..Len(brks) /\ k \in Nat
      /\ br \in Break
  <2>1. Len(brks) \in Nat /\ DOMAIN brks = 1..Len(brks) BY LenProperties
  <2>2. br \in Break BY ElementOfSeq
  <2>3. k \in 0..Len(brks) /\ k - 1 \in 0..Len(brks) /\ k \in Nat BY <2>1
  <2> QED BY <2>1, <2>2, <2>3
<1>2. /\ m \in 0..(k - 1) /\ mem \in Seq(Break) /\ Len(mem) = m
      /\ \A i \in 1..m : k - 1 - m + i \in 1..Len(brks) /\ mem[i] = brks[k - 1 - m + i]
  BY <1>1, NewestFields
<1>3. /\ n \in 0..k /\ new \in Seq(Break) /\ Len(new) = n
      /\ \A i \in 1..n : k - n + i \in 1..Len(brks) /\ new[i] = brks[k - n + i]
  BY <1>1, NewestFields
<1>4. n = IF m + 1 > MemoryLen THEN m ELSE m + 1 BY <1>1 DEF Held
<1> HIDE DEF mem, new, br, m, n
<1>5. \A i \in DOMAIN mem : mem[i].bar <= br.bar
  <2> TAKE i \in DOMAIN mem
  <2>1. i \in 1..m BY <1>2, LenProperties
  <2>2. k - 1 - m + i \in DOMAIN brks /\ mem[i] = brks[k - 1 - m + i] BY <1>1, <1>2, <2>1
  <2>3. k - 1 - m + i < k BY <1>1, <1>2, <2>1
  <2>4. k \in DOMAIN brks BY <1>1
  <2> QED BY <2>2, <2>3, <2>4 DEF br
<1>6. Remember(mem, br) = IF m + 1 > MemoryLen THEN Tail(all) ELSE all
  BY <1>1, <1>2, <1>5, RememberInOrder
<1>7. /\ all \in Seq(Break) /\ all # <<>> /\ Len(all) = m + 1
      /\ \A i \in 1..m : all[i] = mem[i]
      /\ all[m + 1] = br
  <2>1. mem \in Seq(Break) /\ br \in Break /\ Len(mem) = m BY <1>1, <1>2
  <2>2. /\ all \in Seq(Break) /\ all # <<>> /\ Len(all) = Len(mem) + 1
        /\ \A i \in 1..Len(mem) : all[i] = mem[i]
        /\ all[Len(mem) + 1] = br
    BY <2>1, AppendProperties
  <2> HIDE DEF all
  <2> QED BY <2>1, <2>2
<1> HIDE DEF all
<1>8. \A i \in 1..(m + 1) : all[i] = brks[k - 1 - m + i]
  <2> TAKE i \in 1..(m + 1)
  <2>1. CASE i = m + 1
    <3>1. k - 1 - m + i = k BY <2>1, <1>1, <1>2
    <3> QED BY <2>1, <3>1, <1>7 DEF br
  <2>2. CASE i \in 1..m BY <2>2, <1>2, <1>7
  <2>3. i = m + 1 \/ i \in 1..m BY <1>2
  <2> QED BY <2>1, <2>2, <2>3
<1>9. CASE m + 1 > MemoryLen
  <2>1. Tail(all) \in Seq(Break) /\ Len(Tail(all)) = m /\ \A i \in 1..m : Tail(all)[i] = all[i + 1]
    <3>1. Len(all) - 1 = m BY <1>2, <1>7
    <3> QED BY <3>1, <1>7, HeadTailProperties
  <2>2. n = m BY <1>4, <1>9
  <2>3. ASSUME NEW i \in 1..m PROVE Tail(all)[i] = new[i]
    <3>1. i + 1 \in 1..(m + 1) /\ k - 1 - m + (i + 1) = k - m + i BY <1>1, <1>2
    <3>2. all[i + 1] = brks[k - m + i] BY <3>1, <1>8
    <3> QED BY <3>2, <2>1, <2>2, <1>3
  <2>4. Tail(all) = new BY <2>1, <2>2, <2>3, <1>3, SeqEqual
  <2> QED BY <2>4, <1>6, <1>9 DEF mem, new, br
<1>10. CASE ~(m + 1 > MemoryLen)
  <2>1. n = m + 1 BY <1>4, <1>10
  <2>2. ASSUME NEW i \in 1..(m + 1) PROVE all[i] = new[i]
    <3>1. k - n + i = k - 1 - m + i BY <2>1, <1>1, <1>2
    <3> QED BY <3>1, <2>1, <1>3, <1>8
  <2>3. all = new BY <2>1, <2>2, <1>3, <1>7, SeqEqual
  <2> QED BY <2>3, <1>6, <1>10 DEF mem, new, br
<1> QED BY <1>9, <1>10

\* When each break goes against the one before it or is no CHoCH, the memory knows the
\* direction of the newest.
LEMMA ThesisOfNewest ==
  ASSUME MemoryLen \in Nat \ {0}, NEW brks \in Seq(Break), NEW k \in 1..Len(brks),
         \A l \in 2..Len(brks) :
           brks[l].choch <=> Direction(brks[l].side) # Direction(brks[l - 1].side)
  PROVE  Thesis(Newest(brks, k)) = Direction(brks[k].side)
<1> DEFINE mem == Newest(brks, k)
           m == Held(k)
           turns == {i \in DOMAIN mem : i = 1 \/ mem[i].choch}
           D(i) == Direction(mem[i].side)
<1>1. Len(brks) \in Nat /\ k \in 0..Len(brks) /\ k \in Nat /\ k > 0 OBVIOUS
<1>2. /\ m \in 1..k /\ mem \in Seq(Break) /\ Len(mem) = m
      /\ \A i \in 1..m : k - m + i \in 1..Len(brks) /\ mem[i] = brks[k - m + i]
  BY <1>1, NewestFields
<1>3. Thesis(mem) = IF mem = <<>> THEN 0 ELSE D(Greatest(turns)) BY DEF Thesis
<1> HIDE DEF mem, m
<1>4. m \in Nat /\ DOMAIN mem = 1..m /\ mem # <<>> /\ 1 \in 1..m BY <1>2, LenProperties
<1>5. turns \subseteq 0..m /\ 1 \in turns /\ turns \subseteq 1..m BY <1>4
<1> DEFINE g == Greatest(turns)
<1>6. g \in turns /\ \A y \in turns : g >= y
  <2> HIDE DEF turns
  <2>1. \E x \in turns : \A y \in turns : y <= x BY <1>4, <1>5, GreatestExists
  <2>2. \A x, y \in turns : y <= x <=> x >= y BY <1>5
  <2>3. \E x \in turns : \A y \in turns : x >= y BY <2>1, <2>2
  <2> QED BY <2>3 DEF Greatest
<1>7. g \in 1..m BY <1>5, <1>6
<1> HIDE DEF g
<1>8. ASSUME NEW i \in (g + 1)..m PROVE D(i) = D(i - 1)
  <2>1. i \in 1..m /\ i - 1 \in 1..m /\ ~(g >= i) /\ i # 1 BY <1>4, <1>7
  <2>2. ~mem[i].choch BY <2>1, <1>4, <1>6
  <2>3. /\ mem[i] = brks[k - m + i] /\ mem[i - 1] = brks[k - m + (i - 1)]
        /\ k - m + (i - 1) \in 1..Len(brks) /\ k - m + i \in 1..Len(brks)
    BY <2>1, <1>2
  <2>4. k - m + i \in 2..Len(brks) /\ k - m + (i - 1) = (k - m + i) - 1
    BY <2>3, <2>1, <1>1, <1>4
  <2> QED BY <2>2, <2>3, <2>4
<1>9. D(m) = D(g)
  <2> DEFINE Bad == {i \in g..m : D(i) # D(g)}
  <2> SUFFICES ASSUME m \in Bad PROVE FALSE BY <1>4, <1>7
  <2>1. Bad \subseteq Nat BY <1>7
  <2>2. \A i : i \in Bad <=> i \in g..m /\ D(i) # D(g) OBVIOUS
  <2> HIDE DEF Bad, D
  <2>3. PICK i \in Bad : \A y \in Bad : i <= y BY <2>1, LeastExists
  <2>4. i \in g..m /\ i # g BY <2>2, <2>3
  <2>5. i \in (g + 1)..m /\ i - 1 \in g..m /\ ~(i <= i - 1) BY <2>4, <1>4, <1>7
  <2>6. D(i - 1) = D(g) BY <2>2, <2>3, <2>5
  <2>7. D(i) = D(i - 1) BY <2>5, <1>8
  <2> QED BY <2>2, <2>3, <2>6, <2>7
<1>10. mem[m] = brks[k]
  <2>1. m \in 1..m /\ k - m + m = k BY <1>1, <1>4, <1>7
  <2> QED BY <2>1, <1>2
<1> QED BY <1>3, <1>4, <1>9, <1>10 DEF g, mem

LEMMA LastBreakInOrder ==
  ASSUME NEW brks \in Seq(Break), NEW j \in Nat,
         \A i, l \in DOMAIN brks : i < l => brks[i].bar <= brks[l].bar
  PROVE  /\ LastBreak(brks, j) \in 0..Len(brks)
         /\ \A k \in 1..Len(brks) : brks[k].bar <= j <=> k <= LastBreak(brks, j)
<1> DEFINE UpTo == {k \in DOMAIN brks : brks[k].bar <= j}
           n == Len(brks)
           K == LastBreak(brks, j)
<1>1. n \in Nat /\ DOMAIN brks = 1..n /\ \A k \in 1..n : brks[k] \in Break
  BY LenProperties, ElementOfSeq
<1>2. \A k \in 1..n : brks[k].bar \in Nat BY <1>1 DEF Break
<1>3. K = LastOf(UpTo) BY DEF LastBreak, LastOf
<1>4. UpTo \subseteq 0..n BY <1>1
<1>5. \A k \in 1..n : k \in UpTo <=> brks[k].bar <= j BY <1>1
<1>6. UpTo \subseteq 1..n BY <1>1
<1> HIDE DEF UpTo, n, K
<1>7. CASE UpTo = {}
  <2>1. K = 0 BY <1>3, <1>7 DEF LastOf
  <2> QED BY <2>1, <1>1, <1>5, <1>7 DEF n, K
<1>8. CASE UpTo # {}
  <2>1. \E x \in UpTo : \A y \in UpTo : y <= x BY <1>1, <1>4, <1>8, GreatestExists
  <2>2. K \in UpTo /\ \A y \in UpTo : y <= K BY <2>1, <1>3, <1>8 DEF LastOf
  <2>3. K \in 1..n /\ brks[K].bar <= j BY <2>2, <1>5, <1>6
  <2>4. ASSUME NEW k \in 1..n, k <= K PROVE brks[k].bar <= j
    <3>1. CASE k = K BY <3>1, <2>3
    <3>2. CASE k # K
      <4>1. k < K BY <3>2, <2>3, <2>4, <1>1
      <4>2. brks[k].bar <= brks[K].bar BY <4>1, <2>3, <1>1
      <4> QED BY <4>2, <2>3, <1>2
    <3> QED BY <3>1, <3>2
  <2>5. \A k \in 1..n : brks[k].bar <= j => k <= K BY <2>2, <1>5
  <2> QED BY <2>3, <2>4, <2>5, <1>1 DEF n, K
<1> QED BY <1>7, <1>8

\* Committed in the order of their bars, breaks up to bar j leave the newest of them.
LEMMA MemoryInOrder ==
  ASSUME MemoryLen \in Nat \ {0}, NEW brks \in Seq(Break), NEW j \in Nat,
         \A i, l \in DOMAIN brks : i < l => brks[i].bar <= brks[l].bar
  PROVE  Memory(brks, j) = Newest(brks, LastBreak(brks, j))
<1> DEFINE n == Len(brks)
           K == LastBreak(brks, j)
           At(k) == Newest(brks, IF k <= K THEN k ELSE K)
           Step(was, k) == IF k = 0 THEN <<>>
                           ELSE IF brks[k].bar <= j THEN Remember(was, brks[k]) ELSE was
           Walk(g) == [k \in 0..n |-> Step(g[k - 1], k)]
           F == [k \in 0..n |-> At(k)]
<1>1. n \in Nat BY LenProperties
<1>2. K \in 0..n /\ \A k \in 1..n : brks[k].bar <= j <=> k <= K BY LastBreakInOrder
<1>3. Memory(brks, j) = (CHOOSE g : g = Walk(g))[n] BY DEF Memory
<1>4. ASSUME NEW k \in 0..n PROVE At(k) = Step(At(k - 1), k)
  <2>1. CASE k = 0
    <3>1. 0 <= K BY <1>1, <1>2
    <3>2. Newest(brks, 0) = <<>> BY DEF Newest, Held
    <3> QED BY <2>1, <3>1, <3>2
  <2>2. CASE k # 0 /\ k <= K
    <3>1. k \in 1..n /\ k - 1 <= K BY <2>2, <1>1, <1>2
    <3>2. Remember(Newest(brks, k - 1), brks[k]) = Newest(brks, k) BY <3>1, NewestRemembered
    <3>3. brks[k].bar <= j BY <3>1, <2>2, <1>2
    <3> QED BY <2>2, <3>1, <3>2, <3>3
  <2>3. CASE k # 0 /\ ~(k <= K)
    <3>1. k \in 1..n /\ ~(brks[k].bar <= j) BY <2>3, <1>1, <1>2
    <3>2. k - 1 <= K => k - 1 = K BY <2>3, <3>1, <1>1, <1>2
    <3> QED BY <2>3, <3>1, <3>2
  <2> QED BY <2>1, <2>2, <2>3
<1> HIDE DEF At, Step, K, n
<1>5. \A k : Step(At(k - 1), k) = Step(At(k - 1), k) OBVIOUS
<1>6. \A was : Step(was, 0) = <<>> BY DEF Step
<1>7. F = Walk(F)
  <2>1. ASSUME NEW k \in 0..n PROVE F[k] = Step(F[k - 1], k)
    <3>1. F[k] = At(k) OBVIOUS
    <3>2. CASE k = 0 BY <3>1, <3>2, <1>4, <1>6
    <3>3. CASE k # 0
      <4>1. k - 1 \in 0..n BY <3>3, <1>1
      <4>2. F[k - 1] = At(k - 1) BY <4>1
      <4> QED BY <3>1, <4>2, <1>4
    <3> QED BY <3>2, <3>3
  <2>2. F = [k \in 0..n |-> F[k]] OBVIOUS
  <2> HIDE DEF F
  <2> QED BY <2>1, <2>2
<1>8. \E g : g = Walk(g) BY <1>7
<1> HIDE DEF Walk, F
<1>9. PICK g : g = Walk(g) /\ Memory(brks, j) = g[n] BY <1>3, <1>8
<1>10. \A k \in 0..n : g[k] = Step(g[k - 1], k) BY <1>9 DEF Walk
<1> DEFINE Bad == {k \in 0..n : g[k] # At(k)}
<1>11. n \notin Bad
  <2> SUFFICES ASSUME n \in Bad PROVE FALSE OBVIOUS
  <2>1. Bad \subseteq Nat OBVIOUS
  <2>2. \A k : k \in Bad <=> k \in 0..n /\ g[k] # At(k) OBVIOUS
  <2> HIDE DEF Bad
  <2>3. PICK k \in Bad : \A y \in Bad : k <= y BY <2>1, LeastExists
  <2>4. k \in 0..n /\ g[k] # At(k) BY <2>2, <2>3
  <2>5. k # 0
    <3>1. g[0] = At(0) BY <1>1, <1>4, <1>6, <1>10
    <3> QED BY <2>4, <3>1
  <2>6. k - 1 \in 0..n /\ ~(k <= k - 1) BY <2>4, <2>5, <1>1
  <2>7. g[k - 1] = At(k - 1) BY <2>2, <2>3, <2>6
  <2> QED BY <2>4, <2>7, <1>4, <1>10
<1>12. g[n] = At(n) BY <1>1, <1>11
<1>13. At(n) = Newest(brks, K)
  <2>1. n <= K => n = K BY <1>1, <1>2
  <2> QED BY <2>1 DEF At
<1> QED BY <1>9, <1>12, <1>13 DEF K

\* As long as breaks are committed in the order of their bars, the memory knows the
\* direction of the last one, for any memory length and any price path.
THEOREM MemoryFollows == ASSUME ConstantsAssumption PROVE Spec => []MemoryFollowsTrend
<1>1. ASSUME IInv PROVE MemoryFollowsTrend
  <2> SUFFICES ASSUME \A k, l \in DOMAIN breaks : k < l => breaks[k].bar <= breaks[l].bar,
                      NEW j \in DOMAIN bars
               PROVE  Thesis(Memory(breaks, j)) =
                        IF LastBreak(breaks, j) = 0 THEN 0
                        ELSE Direction(breaks[LastBreak(breaks, j)].side)
    BY DEF MemoryFollowsTrend
  <2> DEFINE k == LastBreak(breaks, j)
  <2>1. /\ LoopState.breaks = breaks /\ breaks \in Seq(Break) /\ bars \in Seq(Bars)
        /\ Alternates(LoopState) /\ MemoryLen \in Nat \ {0}
    BY <1>1 DEF LoopState, IInv, Sound, Typed, ConstantsAssumption
  <2>2. j \in Nat /\ DOMAIN breaks = 1..Len(breaks) /\ Len(breaks) \in Nat BY <2>1, LenProperties
  <2>3. k \in 0..Len(breaks) BY <2>1, <2>2, LastBreakInOrder
  <2>4. Memory(breaks, j) = Newest(breaks, k) BY <2>1, <2>2, MemoryInOrder
  <2> HIDE DEF k
  <2>5. CASE k = 0
    <3>1. Newest(breaks, 0) = <<>> BY DEF Newest, Held, ConstantsAssumption
    <3>2. Thesis(<<>>) = 0 BY DEF Thesis
    <3> QED BY <2>4, <2>5, <3>1, <3>2 DEF k
  <2>6. CASE k # 0
    <3>1. k \in 1..Len(breaks) BY <2>2, <2>3, <2>6
    <3>2. \A l \in 2..Len(breaks) :
            breaks[l].choch <=> Direction(breaks[l].side) # Direction(breaks[l - 1].side)
      <4>1. \A l \in DOMAIN breaks :
              breaks[l].choch <=> Direction(breaks[l].side) #
                                    IF l = 1 THEN 1 ELSE Direction(breaks[l - 1].side)
        BY <2>1 DEF Alternates
      <4>2. \A l \in 2..Len(breaks) : l \in DOMAIN breaks /\ l # 1 BY <2>2
      <4> QED BY <4>1, <4>2
    <3>3. Thesis(Newest(breaks, k)) = Direction(breaks[k].side) BY <2>1, <3>1, <3>2, ThesisOfNewest
    <3> QED BY <2>4, <2>6, <3>3 DEF k
  <2> QED BY <2>5, <2>6
<1> QED BY InitIInv, NextIInv, <1>1, PTL DEF Spec
=============================================================================
