-------------------------- MODULE SniperPoolProofs --------------------------
(***************************************************************************)
(* Theorems about SniperPool for any number of walks, zones, snipers and   *)
(* restarts, except where a theorem assumes a regime of its own.           *)
(***************************************************************************)
EXTENDS SniperPool, WellFoundedInduction, TLAPS

SniperRows ==
  [status : {"none", "pending", "triggered", "cancelled", "expired"},
   zone : {0} \cup ZoneIds, dir : Directions]
ZoneRows == [stored : BOOLEAN, dir : Directions, live : BOOLEAN]
WalkStates ==
  [pc : {"free", "ready", "await"}, todo : SUBSET Snipers, drop : SUBSET ZoneIds,
   firing : {0} \cup Snipers, old : SUBSET Snipers]

\* A row exists exactly below the AUTOINCREMENT counter, and names a zone id.
RowsExist ==
  \A s \in Snipers :
    /\ sniper[s].status # "none" <=> s < nextSniper
    /\ s < nextSniper => sniper[s].zone \in ZoneIds

\* The pool and the walks hold only snipers that have a row.
WatchedExist ==
  /\ \A s \in pending : s < nextSniper
  /\ \A w \in Walks : \A s \in walk[w].todo : s < nextSniper
  /\ \A w \in Walks : walk[w].pc = "await" =>
       walk[w].firing \in Snipers /\ walk[w].firing < nextSniper

Base == TypeOK /\ RowsExist /\ WatchedExist

-----------------------------------------------------------------------------
(* Facts about the operators of the model.                                 *)

\* Every non-empty set of naturals has a least element, and Min finds it.
LEMMA MinExists ==
  ASSUME NEW S, S \subseteq Nat, S # {}
  PROVE  Min(S) \in S /\ \A y \in S : Min(S) <= y
<1> DEFINE R == {ss \in Nat \X Nat : ss[1] < ss[2]}
<1>1. IsWellFoundedOn(R, Nat)
  BY NatLessThanWellFounded DEF OpToRel
<1>2. \E x \in S : \A y \in S : ~(<<y, x>> \in R)
  <2> HIDE DEF R
  <2> QED BY <1>1, WFMin
<1>3. \A x, y \in Nat : y < x => <<y, x>> \in R
  OBVIOUS
<1> HIDE DEF R
<1>4. \E x \in S : \A y \in S : x <= y
  <2>1. PICK x \in S : \A y \in S : ~(<<y, x>> \in R)
    BY <1>2
  <2>2. \A y \in S : ~(y < x)
    BY <2>1, <1>3
  <2>3. \A y \in S : x <= y
    BY <2>2
  <2> QED
    BY <2>3
<1> QED
  BY <1>4 DEF Min

\* Max finds the greatest element of a bounded set: the least upper bound.
LEMMA MaxExists ==
  ASSUME NEW N \in Nat, NEW S, S \subseteq 0..N, S # {}
  PROVE  Max(S) \in S
<1> DEFINE U == {u \in Nat : \A x \in S : x <= u}
<1>1. N \in U
  OBVIOUS
<1> DEFINE m == Min(U)
<1>2. m \in U /\ \A u \in U : m <= u
  <2>1. U \subseteq Nat /\ U # {}
    BY <1>1
  <2> HIDE DEF U
  <2> QED BY <2>1, MinExists
<1> HIDE DEF m
<1>3. m \in S
  <2> SUFFICES ASSUME m \notin S PROVE FALSE
    OBVIOUS
  <2>1. \A x \in S : x \in Nat /\ x < m
    BY <1>2
  <2>2. m \in Nat /\ m - 1 \in Nat
    <3>1. PICK x \in S : x \in Nat /\ x < m
      BY <2>1
    <3> QED BY <1>2, <3>1
  <2>3. \A x \in S : x <= m - 1
    BY <2>1, <2>2
  <2>4. m - 1 \in U
    BY <2>2, <2>3
  <2> QED
    BY <1>2, <2>2, <2>4
<1>4. \E x \in S : \A y \in S : x >= y
  BY <1>2, <1>3
<1> QED
  BY <1>4 DEF Max

\* The last of n fresh zone ids, or zero if there is none.
LEMMA LastFresh ==
  ASSUME NEW a \in Nat, NEW n \in Nat
  PROVE  Max({0} \cup ((a + 1)..(a + n))) = IF n = 0 THEN 0 ELSE a + n
<1> DEFINE S == {0} \cup ((a + 1)..(a + n))
<1> DEFINE m == IF n = 0 THEN 0 ELSE a + n
<1>1. m \in S /\ \A y \in S : m >= y /\ y \in Nat
  OBVIOUS
<1>2. \A x \in S : (\A y \in S : x >= y) => x = m
  BY <1>1
<1> QED
  BY <1>1, <1>2 DEF Max

\* A walk gives a sniper whose zone has an object one of four verdicts.
LEMMA VerdictTyped ==
  \A obj \in ZoneObjects, tooOld \in BOOLEAN :
    obj.phase # "none" =>
      Verdict(obj, tooOld) \in {"cancelled", "expired", "pending", "triggered"}
<1> TAKE obj \in ZoneObjects, tooOld \in BOOLEAN
<1> HAVE obj.phase # "none"
<1>1. obj.phase \in {"dead", "active", "inverted"}
  BY DEF ZoneObjects, Phases
<1> QED
  BY <1>1 DEF Verdict

LEMMA AnyDirectionTyped == AnyDirection \in Directions
BY ConstantsAssumption DEF AnyDirection

-----------------------------------------------------------------------------
(* What a walk does between two awaits:                                    *)
(* which snipers it passed, which of those it kept, and the one it fires.  *)

\* The walk reached the end of its snapshot.
WalkEnds(w, todo, drop, rows, kept) ==
  /\ pending' = {s \in pending \cup kept :
                   rows[s].zone \notin drop \cup {rows[t].zone : t \in todo \ kept}}
  /\ walk' = [walk EXCEPT ![w] = Free]
  /\ fires' = fires

\* The walk handed the sniper f to its handler.
WalkFires(w, todo, drop, old, rows, passed, kept, f) ==
  /\ f \in todo
  /\ zone[rows[f].zone].phase # "none"
  /\ \A s \in passed : s < f
  /\ \A s \in todo : s < f => s \in passed
  /\ pending' = pending \cup kept
  /\ walk' = [walk EXCEPT ![w] =
       [pc |-> "await", todo |-> {r \in todo : r > f},
        drop |-> (drop \cup {rows[t].zone : t \in passed \ kept}) \cup {rows[f].zone},
        firing |-> f, old |-> old]]
  /\ fires' = [fires EXCEPT ![f] = IF @ < 2 THEN @ + 1 ELSE @]

\* The rows after it: settled snipers got a verdict, all others are as before.
RowsAfter(todo, rows, passed, kept) ==
  /\ passed \subseteq todo /\ kept \subseteq passed
  /\ \A s \in kept : zone[rows[s].zone].phase # "none"
  /\ sniper' \in [Snipers -> SniperRows]
  /\ \A s \in Snipers : sniper'[s].zone = rows[s].zone /\ sniper'[s].dir = rows[s].dir
  /\ \A s \in Snipers :
       IF s \in passed \ kept /\ zone[rows[s].zone].phase # "none"
       THEN sniper'[s].status \in {"cancelled", "expired"}
       ELSE sniper'[s] = rows[s]

\* A segment of a walk ends it or fires a sniper.
LEMMA ProceedStep ==
  ASSUME TypeOK, NEW w \in Walks, NEW todo \in SUBSET Snipers,
         NEW drop \in SUBSET ZoneIds, NEW old \in SUBSET Snipers,
         NEW rows \in [Snipers -> SniperRows],
         \A s \in todo : rows[s].zone \in ZoneIds,
         Proceed(w, todo, drop, old, rows)
  PROVE  \E passed, kept \in SUBSET Snipers :
           /\ RowsAfter(todo, rows, passed, kept)
           /\ \/ passed = todo /\ WalkEnds(w, todo, drop, rows, kept)
              \/ \E f \in todo : WalkFires(w, todo, drop, old, rows, passed, kept, f)
<1> DEFINE known    == {s \in todo : zone[rows[s].zone].phase # "none"}
           verdict  == [s \in known |-> Verdict(zone[rows[s].zone], s \in old)]
           firing   == {s \in known : verdict[s] = "triggered"}
           passed   == {s \in todo : \A f \in firing : s < f}
           kept     == {s \in passed \cap known : verdict[s] = "pending"}
           dropping == drop \cup {rows[s].zone : s \in passed \ kept}
<1>1. /\ sniper' = [s \in Snipers |->
            IF s \in (passed \cap known) \ kept
            THEN [rows[s] EXCEPT !.status = verdict[s]] ELSE rows[s]]
      /\ \/ /\ firing = {}
            /\ pending' = {s \in pending \cup kept : rows[s].zone \notin dropping}
            /\ walk' = [walk EXCEPT ![w] = Free]
            /\ fires' = fires
         \/ /\ firing # {}
            /\ pending' = pending \cup kept
            /\ walk' = [walk EXCEPT ![w] =
                 [pc |-> "await", todo |-> {r \in todo : r > Min(firing)},
                  drop |-> dropping \cup {rows[Min(firing)].zone},
                  firing |-> Min(firing), old |-> old]]
            /\ fires' = [fires EXCEPT ![Min(firing)] = IF @ < 2 THEN @ + 1 ELSE @]
  BY Zenon DEF Proceed, DroppedZones
<1>2. \A s \in known :
        verdict[s] \in {"cancelled", "expired", "pending", "triggered"}
  <2> TAKE s \in known
  <2>1. zone[rows[s].zone] \in ZoneObjects
    BY DEF TypeOK
  <2>2. (s \in old) \in BOOLEAN
    OBVIOUS
  <2> QED
    BY <2>1, <2>2, VerdictTyped
<1>3. \A s \in passed : s \notin firing
  <2> SUFFICES ASSUME NEW s \in passed, s \in firing PROVE FALSE
    OBVIOUS
  <2>1. s < s /\ s \in Nat
    BY DEF Snipers
  <2> QED
    BY <2>1
<1>4. \A s \in (passed \cap known) \ kept : verdict[s] \in {"cancelled", "expired"}
  BY <1>2, <1>3
<1>5. RowsAfter(todo, rows, passed, kept)
  <2> HIDE DEF verdict, firing, known
  <2>1. passed \subseteq todo /\ kept \subseteq passed
    OBVIOUS
  <2>2. \A s \in kept : zone[rows[s].zone].phase # "none"
    BY DEF known
  <2>3. \A s \in Snipers : s \in (passed \cap known) \ kept <=>
           s \in passed \ kept /\ zone[rows[s].zone].phase # "none"
    BY DEF known
  <2> HIDE DEF passed, kept
  <2>4. \A s \in Snipers : /\ sniper'[s] \in SniperRows
                           /\ sniper'[s].zone = rows[s].zone
                           /\ sniper'[s].dir = rows[s].dir
                           /\ IF s \in (passed \cap known) \ kept
                              THEN sniper'[s].status \in {"cancelled", "expired"}
                              ELSE sniper'[s] = rows[s]
    BY <1>1, <1>4 DEF SniperRows
  <2>5. sniper' \in [Snipers -> SniperRows]
    BY <1>1, <2>4
  <2> QED
    BY <2>1, <2>2, <2>3, <2>4, <2>5 DEF RowsAfter
<1>6. CASE firing = {}
  <2>1. passed = todo
    BY <1>6
  <2>2. WalkEnds(w, todo, drop, rows, kept)
    <3> HIDE DEF kept, firing, known, verdict
    <3> QED BY <1>1, <1>6, <2>1 DEF WalkEnds
  <2>3. passed \in SUBSET Snipers /\ kept \in SUBSET Snipers
    OBVIOUS
  <2> HIDE DEF kept, passed
  <2> QED
    BY <1>5, <2>1, <2>2, <2>3
<1>7. CASE firing # {}
  <2> DEFINE f == Min(firing)
  <2>1. f \in firing /\ \A y \in firing : f <= y
    <3>1. firing \subseteq Snipers
      OBVIOUS
    <3>2. Snipers \subseteq Nat
      BY ConstantsAssumption DEF Snipers
    <3> HIDE DEF firing
    <3> QED BY <1>7, <3>1, <3>2, MinExists
  <2>2. f \in known /\ f \in todo /\ zone[rows[f].zone].phase # "none"
    BY <2>1
  <2>3. \A s \in passed : s < f
    BY <2>1
  <2>4. \A s \in todo : s < f => s \in passed
    <3> HIDE DEF f
    <3> QED BY <2>1 DEF Snipers
  <2>5. WalkFires(w, todo, drop, old, rows, passed, kept, f)
    <3> HIDE DEF firing, known, verdict, passed, kept
    <3> QED BY <1>1, <1>7, <2>2, <2>3, <2>4 DEF WalkFires
  <2>6. passed \in SUBSET Snipers /\ kept \in SUBSET Snipers
    OBVIOUS
  <2> HIDE DEF kept, passed, f
  <2> QED
    BY <1>5, <2>2, <2>5, <2>6
<1> QED
  BY <1>6, <1>7
-----------------------------------------------------------------------------
(* What a bar does: zones known before keep their direction and their      *)
(* object, and a new sniper watches the last zone found.                   *)

NoNewSniper == UNCHANGED <<sniper, nextSniper, pending>>

NewSniper ==
  /\ nextSniper \in Snipers
  /\ nextZone < nextZone'
  /\ sniper' = [sniper EXCEPT ![nextSniper] =
       [status |-> "pending", zone |-> nextZone', dir |-> zone'[nextZone'].dir]]
  /\ pending' = pending \cup {nextSniper}
  /\ nextSniper' = nextSniper + 1

LEMMA BarStep ==
  ASSUME TypeOK, NEW w \in Walks, OnBar(w)
  PROVE  /\ walk[w].pc = "free"
         /\ walk' = [walk EXCEPT ![w].pc = "ready"]
         /\ nextZone' \in nextZone..MaxZone
         /\ nextZone < nextZone' => warm
         /\ zone' \in [ZoneIds -> ZoneObjects]
         /\ \A z \in ZoneIds :
              IF nextZone < z /\ z <= nextZone' THEN zone'[z].phase # "none"
              ELSE /\ zone'[z].dir = zone[z].dir
                   /\ zone[z].phase # "none" => zone'[z].phase # "none"
                   /\ ~zone[z].tracked => zone'[z] = zone[z]
         /\ zoneRow' \in [ZoneIds -> ZoneRows]
         /\ NoNewSniper \/ NewSniper
         /\ UNCHANGED <<warm, aged, fires, restarts>>
<1>1. PICK n \in 0..(MaxZone - nextZone), lost \in SUBSET Tracked :
        \E seen \in [Tracked \ lost -> Phases], found \in [FreshZoneIds(n) -> NewZones] :
          /\ n > 0 => warm
          /\ zone' = Refreshed(seen, found)
          /\ PersistZones(zone')
          /\ nextZone' = nextZone + n
          /\ InterceptNewSignals(found)
  BY DEF OnBar
<1>2. PICK seen \in [Tracked \ lost -> Phases], found \in [FreshZoneIds(n) -> NewZones] :
          /\ n > 0 => warm
          /\ zone' = Refreshed(seen, found)
          /\ PersistZones(zone')
          /\ nextZone' = nextZone + n
          /\ InterceptNewSignals(found)
  BY <1>1
<1>3. n \in Nat /\ nextZone \in Nat /\ MaxZone \in Nat /\ nextZone' \in nextZone..MaxZone
  BY <1>2, ConstantsAssumption DEF TypeOK
<1>4. \A z \in ZoneIds : z \in DOMAIN found <=> nextZone < z /\ z <= nextZone'
  BY <1>2, <1>3 DEF FreshZoneIds, ZoneIds
<1>5. \A z \in DOMAIN found : found[z] \in ZoneObjects /\ found[z].phase # "none"
  BY DEF NewZones, ZoneObjects, Phases
<1>6. \A z \in ZoneIds :
        /\ zone'[z] \in ZoneObjects
        /\ IF nextZone < z /\ z <= nextZone' THEN zone'[z].phase # "none"
           ELSE /\ zone'[z].dir = zone[z].dir
                /\ zone[z].phase # "none" => zone'[z].phase # "none"
                /\ ~zone[z].tracked => zone'[z] = zone[z]
  <2> TAKE z \in ZoneIds
  <2>0. zone[z] \in ZoneObjects
    BY DEF TypeOK
  <2>1. CASE z \in DOMAIN found
    BY <2>1, <1>2, <1>4, <1>5 DEF Refreshed
  <2>2. CASE z \notin DOMAIN found /\ z \in DOMAIN seen
    <3>1. zone'[z] = [zone[z] EXCEPT !.phase = seen[z]]
      BY <2>2, <1>2 DEF Refreshed
    <3>2. seen[z] \in Phases /\ zone[z].tracked
      BY <2>2 DEF Tracked
    <3> QED
      BY <2>0, <2>2, <3>1, <3>2, <1>4 DEF Phases, ZoneObjects
  <2>3. CASE z \notin DOMAIN found /\ z \notin DOMAIN seen
    <3>1. zone'[z] = LoseZone(zone[z])
      BY <2>3, <1>2 DEF Refreshed
    <3>2. ~zone[z].tracked => zone'[z] = zone[z]
      BY <2>0, <3>1 DEF LoseZone, ZoneObjects
    <3> QED
      BY <2>0, <2>3, <3>1, <3>2, <1>4 DEF LoseZone, ZoneObjects
  <2> QED
    BY <2>1, <2>2, <2>3
<1>7. zone' \in [ZoneIds -> ZoneObjects]
  BY <1>2, <1>6 DEF Refreshed
<1>8. zoneRow' \in [ZoneIds -> ZoneRows]
  <2>1. PICK kept \in SUBSET {z \in ZoneIds : zone'[z].tracked /\ zone'[z].phase = "inverted"} :
          zoneRow' = [z \in ZoneIds |->
            IF zone'[z].tracked
            THEN UpsertedRow(zoneRow[z], zone'[z], zone'[z].phase = "active" \/ z \in kept)
            ELSE zoneRow[z]]
    BY <1>2 DEF PersistZones
  <2>2. zoneRow \in [ZoneIds -> ZoneRows]
    BY DEF TypeOK, ZoneRows
  <2>3. \A row \in ZoneRows, obj \in ZoneObjects, live \in BOOLEAN :
          UpsertedRow(row, obj, live) \in ZoneRows
    BY DEF UpsertedRow, ZoneRows, ZoneObjects
  <2>4. \A z \in ZoneIds : (zone'[z].phase = "active" \/ z \in kept) \in BOOLEAN
    OBVIOUS
  <2>5. \A z \in ZoneIds : zoneRow'[z] \in ZoneRows
    BY <2>1, <2>2, <2>3, <2>4, <1>7
  <2> QED
    BY <2>1, <2>5
<1>9. NoNewSniper \/ NewSniper
  <2>1. Max({0} \cup DOMAIN found) = IF n = 0 THEN 0 ELSE nextZone'
    BY <1>2, <1>3, LastFresh DEF FreshZoneIds
  <2>2. CASE UNCHANGED <<sniper, nextSniper, pending>>
    BY <2>2 DEF NoNewSniper
  <2>3. CASE ~UNCHANGED <<sniper, nextSniper, pending>>
    <3> DEFINE z == Max({0} \cup DOMAIN found)
    <3>1. /\ z # 0
          /\ nextSniper <= MaxSniper
          /\ sniper' = [sniper EXCEPT ![nextSniper] =
               [status |-> "pending", zone |-> z, dir |-> found[z].dir]]
          /\ pending' = pending \cup {nextSniper}
          /\ nextSniper' = nextSniper + 1
      BY <2>3, <1>2 DEF InterceptNewSignals
    <3>2. n # 0 /\ z = nextZone'
      BY <2>1, <3>1
    <3>3. nextZone' \in ZoneIds /\ nextZone < nextZone'
      BY <1>2, <1>3, <3>2 DEF ZoneIds
    <3>4. zone'[nextZone'] = found[nextZone']
      BY <1>2, <1>3, <1>4, <3>3 DEF Refreshed
    <3>5. nextSniper \in Snipers
      BY <3>1, ConstantsAssumption DEF TypeOK, Snipers
    <3> HIDE DEF z
    <3> QED
      BY <3>1, <3>2, <3>3, <3>4, <3>5 DEF NewSniper
  <2> QED
    BY <2>2, <2>3
<1>10. /\ walk[w].pc = "free"
       /\ walk' = [walk EXCEPT ![w].pc = "ready"]
       /\ UNCHANGED <<warm, aged, fires, restarts>>
  BY DEF OnBar, CreateWalk
<1>11. nextZone < nextZone' => warm
  BY <1>2, <1>3
<1> QED
  BY <1>3, <1>6, <1>7, <1>8, <1>9, <1>10, <1>11
-----------------------------------------------------------------------------
(* Type correctness, with the facts about rows it rests on.                *)

LEMMA InitBase == Init => Base
<1> SUFFICES ASSUME Init PROVE Base
  OBVIOUS
<1> USE ConstantsAssumption, AnyDirectionTyped DEF Init
<1>1. TypeOK
  <2>1. sniper \in [Snipers -> SniperRows]
    BY DEF NoSniper, SniperRows
  <2>2. zoneRow \in [ZoneIds -> ZoneRows] /\ zone \in [ZoneIds -> ZoneObjects]
    BY DEF NoZoneRow, ZoneRows, NoZone, ZoneObjects
  <2>3. walk \in [Walks -> WalkStates]
    BY DEF Free, WalkStates
  <2>4. /\ nextSniper \in 1..(MaxSniper + 1) /\ nextZone \in 0..MaxZone
        /\ restarts \in 0..MaxRestarts /\ fires \in [Snipers -> 0..2]
    OBVIOUS
  <2>5. warm \in BOOLEAN
    OBVIOUS
  <2> QED
    BY <2>1, <2>2, <2>3, <2>4, <2>5 DEF TypeOK, SniperRows, ZoneRows, WalkStates
<1>2. RowsExist
  BY DEF RowsExist, NoSniper, Snipers
<1>3. WatchedExist
  BY DEF WatchedExist, Free
<1> QED
  BY <1>1, <1>2, <1>3 DEF Base

\* A walk that becomes ready keeps its shape.
LEMMA WalkReadied ==
  ASSUME walk \in [Walks -> WalkStates], NEW w \in Walks,
         walk' = [walk EXCEPT ![w].pc = "ready"]
  PROVE  walk' \in [Walks -> WalkStates]
BY DEF WalkStates

\* A bar keeps Base.
LEMMA BarBase ==
  ASSUME Base, NEW w \in Walks, OnBar(w)
  PROVE  Base'
<1> USE DEF Base
<1>0. TypeOK
  OBVIOUS
<1> DEFINE BarFacts ==
  /\ walk' = [walk EXCEPT ![w].pc = "ready"]
  /\ nextZone' \in nextZone..MaxZone
  /\ zone' \in [ZoneIds -> ZoneObjects]
  /\ zoneRow' \in [ZoneIds -> ZoneRows]
  /\ NoNewSniper \/ NewSniper
  /\ UNCHANGED <<warm, aged, fires, restarts>>
<1>1. BarFacts
  BY BarStep
<1>2. CASE NoNewSniper
  <2>1. TypeOK'
    <3>1. nextZone' \in 0..MaxZone
      BY <1>1 DEF TypeOK
    <3>2. walk' \in [Walks -> WalkStates]
      BY <1>1, WalkReadied DEF TypeOK, WalkStates
    <3> HIDE DEF Base
    <3> QED
      BY <1>0, <1>1, <1>2, <3>1, <3>2 DEF NoNewSniper, TypeOK, ZoneRows, WalkStates
  <2>2. RowsExist' /\ WatchedExist'
    BY <1>1, <1>2 DEF NoNewSniper, RowsExist, WatchedExist, TypeOK
  <2> QED
    BY <2>1, <2>2
<1>3. CASE NewSniper
  <2>1. nextSniper \in Nat /\ nextSniper' = nextSniper + 1 /\ nextSniper <= MaxSniper
    BY <1>3, ConstantsAssumption DEF NewSniper, Snipers
  <2>2. nextZone' \in ZoneIds /\ zone'[nextZone'].dir \in Directions
    <3>1. nextZone' \in ZoneIds
      BY <1>1, <1>3, ConstantsAssumption DEF NewSniper, TypeOK, ZoneIds
    <3> QED
      BY <1>1, <3>1 DEF ZoneObjects
  <2>3. TypeOK'
    <3>1. nextZone' \in 0..MaxZone
      BY <1>1 DEF TypeOK
    <3>2. nextSniper' \in 1..(MaxSniper + 1)
      BY <2>1, <1>3, ConstantsAssumption DEF NewSniper, Snipers
    <3>3. sniper' \in [Snipers -> SniperRows]
      BY <1>3, <2>2 DEF NewSniper, TypeOK, SniperRows
    <3>4. pending' \subseteq Snipers
      BY <1>3 DEF NewSniper, TypeOK
    <3>5. walk' \in [Walks -> WalkStates]
      BY <1>1, WalkReadied DEF TypeOK, WalkStates
    <3>6. warm' \in BOOLEAN
      BY <1>1 DEF TypeOK
    <3>7. aged' \subseteq Snipers /\ fires' \in [Snipers -> 0..2] /\ restarts' \in 0..MaxRestarts
      BY <1>1 DEF TypeOK
    <3> HIDE DEF Base
    <3> QED
      BY <1>1, <3>1, <3>2, <3>3, <3>4, <3>5, <3>6, <3>7
         DEF TypeOK, ZoneRows, SniperRows, WalkStates
  <2>4. RowsExist'
    <3> SUFFICES ASSUME NEW s \in Snipers
                 PROVE  /\ sniper'[s].status # "none" <=> s < nextSniper'
                        /\ s < nextSniper' => sniper'[s].zone \in ZoneIds
      BY DEF RowsExist
    <3>1. s \in Nat
      BY ConstantsAssumption DEF Snipers
    <3>2. CASE s = nextSniper
      BY <3>2, <1>3, <2>1, <2>2 DEF NewSniper, TypeOK
    <3>3. CASE s # nextSniper
      BY <3>1, <3>3, <1>3, <2>1 DEF NewSniper, TypeOK, RowsExist
    <3> QED
      BY <3>2, <3>3
  <2>5. WatchedExist'
    <3>1. \A s \in Snipers : s \in Nat
      BY ConstantsAssumption DEF Snipers
    <3>2. \A s \in pending' : s < nextSniper'
      BY <1>3, <2>1, <3>1 DEF NewSniper, WatchedExist, TypeOK
    <3>3. \A v \in Walks : \A s \in walk'[v].todo : s < nextSniper'
      BY <1>1, <2>1, <3>1 DEF WatchedExist, TypeOK
    <3>4. \A v \in Walks : walk'[v].pc = "await" =>
            walk'[v].firing \in Snipers /\ walk'[v].firing < nextSniper'
      BY <1>1, <2>1, <3>1 DEF WatchedExist, TypeOK
    <3> QED
      BY <3>2, <3>3, <3>4 DEF WatchedExist
  <2> QED
    BY <2>3, <2>4, <2>5
<1> QED
  BY <1>1, <1>2, <1>3
\* A segment of a walk keeps Base, whatever rows it starts from.
LEMMA ProceedBase ==
  ASSUME Base, NEW w \in Walks, NEW todo \in SUBSET Snipers,
         NEW drop \in SUBSET ZoneIds, NEW old \in SUBSET Snipers,
         NEW rows \in [Snipers -> SniperRows],
         \A s \in todo : s < nextSniper,
         \A s \in Snipers : /\ rows[s].zone = sniper[s].zone
                            /\ rows[s].status # "none" <=> sniper[s].status # "none",
         Proceed(w, todo, drop, old, rows),
         UNCHANGED <<zoneRow, nextSniper, zoneVars, aged, restarts>>, warm' \in BOOLEAN
  PROVE  Base'
<1> USE DEF Base
<1>1. \A s \in todo : rows[s].zone \in ZoneIds
  BY DEF RowsExist
<1>2. PICK passed, kept \in SUBSET Snipers :
           /\ RowsAfter(todo, rows, passed, kept)
           /\ \/ passed = todo /\ WalkEnds(w, todo, drop, rows, kept)
              \/ \E f \in todo : WalkFires(w, todo, drop, old, rows, passed, kept, f)
  BY <1>1, ProceedStep
<1>3. /\ sniper' \in [Snipers -> SniperRows]
      /\ RowsExist'
      /\ kept \subseteq todo /\ passed \subseteq todo
  <2>1. \A s \in Snipers : sniper'[s].zone = sniper[s].zone
    BY <1>2 DEF RowsAfter
  <2>2. \A s \in Snipers : sniper'[s].status # "none" <=> sniper[s].status # "none"
    <3> TAKE s \in Snipers
    <3>1. CASE s \in passed \ kept /\ zone[rows[s].zone].phase # "none"
      <4>1. sniper'[s].status \in {"cancelled", "expired"} /\ s < nextSniper
        BY <1>2, <3>1 DEF RowsAfter
      <4> QED
        BY <4>1 DEF RowsExist
    <3>2. CASE ~(s \in passed \ kept /\ zone[rows[s].zone].phase # "none")
      BY <1>2, <3>2 DEF RowsAfter
    <3> QED
      BY <3>1, <3>2
  <2> QED
    BY <1>2, <2>1, <2>2 DEF RowsAfter, RowsExist
<1>4. /\ pending' \subseteq Snipers
      /\ \A s \in pending' : s < nextSniper
      /\ walk' \in [Walks -> WalkStates]
      /\ fires' \in [Snipers -> 0..2]
      /\ \A v \in Walks : \A s \in walk'[v].todo : s < nextSniper
      /\ \A v \in Walks : walk'[v].pc = "await" =>
           walk'[v].firing \in Snipers /\ walk'[v].firing < nextSniper
  <2>0. /\ walk \in [Walks -> WalkStates] /\ fires \in [Snipers -> 0..2]
        /\ pending \subseteq Snipers
    BY DEF TypeOK, WalkStates
  <2>1. CASE WalkEnds(w, todo, drop, rows, kept)
    <3>1. Free \in WalkStates
      BY DEF Free, WalkStates
    <3>2. walk' = [walk EXCEPT ![w] = Free] /\ fires' = fires
          /\ pending' \subseteq pending \cup kept
      BY <2>1 DEF WalkEnds
    <3> QED
      BY <2>0, <3>1, <3>2, <1>3 DEF WatchedExist, Free
  <2>2. CASE \E f \in todo : WalkFires(w, todo, drop, old, rows, passed, kept, f)
    <3>1. PICK f \in todo : WalkFires(w, todo, drop, old, rows, passed, kept, f)
      BY <2>2
    <3> DEFINE ws == [pc |-> "await", todo |-> {r \in todo : r > f},
        drop |-> (drop \cup {rows[t].zone : t \in passed \ kept}) \cup {rows[f].zone},
        firing |-> f, old |-> old]
    <3>2. /\ walk' = [walk EXCEPT ![w] = ws]
          /\ pending' = pending \cup kept
          /\ fires' = [fires EXCEPT ![f] = IF @ < 2 THEN @ + 1 ELSE @]
      BY <3>1 DEF WalkFires
    <3>3. ws \in WalkStates
      BY <1>1, <1>3 DEF WalkStates
    <3>4. fires' \in [Snipers -> 0..2]
      <4>1. \A k \in 0..2 : (IF k < 2 THEN k + 1 ELSE k) \in 0..2
        OBVIOUS
      <4> QED
        BY <2>0, <3>2, <4>1
    <3>5. ws.todo \subseteq todo /\ ws.firing = f
      OBVIOUS
    <3> HIDE DEF ws
    <3> QED
      BY <2>0, <3>2, <3>3, <3>4, <3>5, <1>3 DEF WatchedExist
  <2> QED
    BY <1>2, <2>1, <2>2
<1>5. TypeOK'
  <2>1. /\ nextSniper' \in 1..(MaxSniper + 1) /\ zone' \in [ZoneIds -> ZoneObjects]
        /\ nextZone' \in 0..MaxZone /\ aged' \subseteq Snipers /\ restarts' \in 0..MaxRestarts
    BY DEF TypeOK, zoneVars
  <2>2. zoneRow' \in [ZoneIds -> ZoneRows]
    BY DEF TypeOK, ZoneRows
  <2> HIDE DEF Base
  <2> QED
    BY <1>3, <1>4, <2>1, <2>2 DEF TypeOK, ZoneRows, SniperRows, WalkStates
<1> QED
  BY <1>3, <1>4, <1>5 DEF WatchedExist
\* The row of a sniper whose handler returned, as an input of the next segment.
LEMMA TriggeredRows ==
  ASSUME Base, NEW f \in Snipers, f < nextSniper
  PROVE  /\ TriggeredRow(f) \in [Snipers -> SniperRows]
         /\ TriggeredRow(f)[f].status = "triggered"
         /\ \A s \in Snipers : /\ TriggeredRow(f)[s].zone = sniper[s].zone
                               /\ TriggeredRow(f)[s].dir = sniper[s].dir
                               /\ s # f => TriggeredRow(f)[s] = sniper[s]
         /\ \A s \in Snipers : TriggeredRow(f)[s].status # "none"
                                 <=> sniper[s].status # "none"
<1>1. sniper \in [Snipers -> SniperRows] /\ sniper[f].status # "none"
  BY DEF Base, TypeOK, SniperRows, RowsExist
<1> QED
  BY <1>1 DEF TriggeredRow, SniperRows

\* What the two segments of a walk start from.
LEMMA SegmentInputs ==
  ASSUME Base, NEW w \in Walks
  PROVE  /\ sniper \in [Snipers -> SniperRows]
         /\ pending \in SUBSET Snipers /\ aged \in SUBSET Snipers
         /\ walk[w].todo \in SUBSET Snipers /\ walk[w].drop \in SUBSET ZoneIds
         /\ walk[w].old \in SUBSET Snipers
         /\ \A s \in pending : s < nextSniper /\ sniper[s].zone \in ZoneIds
         /\ \A s \in walk[w].todo : s < nextSniper /\ sniper[s].zone \in ZoneIds
         /\ walk[w].pc = "await" => walk[w].firing \in Snipers /\ walk[w].firing < nextSniper
BY DEF Base, TypeOK, SniperRows, RowsExist, WatchedExist

\* Restart keeps Base: the rows in the pool are those that say 'pending'.
LEMMA RestartBase == ASSUME Base, Restart PROVE Base'
<1> USE DEF Base
<1>1. nextZone' \in 0..MaxZone
  <2>1. SeedZoneIds \subseteq 0..MaxZone /\ SeedZoneIds # {}
    BY ConstantsAssumption DEF SeedZoneIds, ZoneIds
  <2>2. Max(SeedZoneIds) \in SeedZoneIds
    BY <2>1, MaxExists, ConstantsAssumption
  <2> QED
    BY <2>1, <2>2 DEF Restart
<1>2. NoZone \in ZoneObjects /\ Free \in WalkStates
  BY AnyDirectionTyped DEF NoZone, ZoneObjects, Free, WalkStates
<1>3. TypeOK'
  <2>1. zone' \in [ZoneIds -> ZoneObjects] /\ walk' \in [Walks -> WalkStates]
    BY <1>2 DEF Restart
  <2>2. restarts' \in 0..MaxRestarts
    BY ConstantsAssumption DEF Restart, TypeOK
  <2>3. pending' \subseteq Snipers /\ warm' \in BOOLEAN
    BY DEF Restart
  <2> QED
    BY <1>1, <2>1, <2>2, <2>3 DEF Restart, TypeOK, storeVars, WalkStates
<1>4. RowsExist' /\ WatchedExist'
  BY DEF Restart, RowsExist, WatchedExist, storeVars, Free
<1> QED
  BY <1>3, <1>4

LEMMA NextBase == Base /\ [Next]_vars => Base'
<1> SUFFICES ASSUME Base, [Next]_vars PROVE Base'
  OBVIOUS
<1>1. ASSUME NEW w \in Walks, OnBar(w) PROVE Base'
  BY <1>1, BarBase
<1>2. ASSUME NEW w \in Walks, WalkStarts(w) PROVE Base'
  <2>1. /\ Proceed(w, pending, {}, aged, sniper)
        /\ UNCHANGED <<zoneRow, nextSniper, zoneVars, aged, restarts>>
        /\ warm' \in BOOLEAN
    BY <1>2 DEF WalkStarts
  <2> QED
    BY <2>1, SegmentInputs, ProceedBase
<1>3. ASSUME NEW w \in Walks, HandlerReturned(w) PROVE Base'
  <2> DEFINE rows == TriggeredRow(walk[w].firing)
  <2>1. /\ Proceed(w, walk[w].todo, walk[w].drop, walk[w].old, rows)
        /\ UNCHANGED <<zoneRow, nextSniper, zoneVars, aged, restarts>>
        /\ warm' \in BOOLEAN /\ walk[w].pc = "await"
    BY <1>3 DEF HandlerReturned, Base, TypeOK
  <2>2. /\ rows \in [Snipers -> SniperRows]
        /\ \A s \in Snipers : /\ rows[s].zone = sniper[s].zone
                              /\ rows[s].status # "none" <=> sniper[s].status # "none"
    BY <2>1, SegmentInputs, TriggeredRows
  <2> HIDE DEF rows
  <2> QED
    BY <2>1, <2>2, SegmentInputs, ProceedBase
<1>4. ASSUME NEW s \in Snipers, AgeOut(s) PROVE Base'
  BY <1>4 DEF AgeOut, Base, TypeOK, RowsExist, WatchedExist, storeVars, zoneVars
<1>5. CASE Restart
  BY <1>5, RestartBase
<1>6. CASE UNCHANGED vars
  BY <1>6 DEF vars, storeVars, zoneVars, Base, TypeOK, RowsExist, WatchedExist
<1> QED
  BY <1>1, <1>2, <1>3, <1>4, <1>5, <1>6 DEF Next

\* Every variable of the bar loop keeps its type, however many walks overlap and
\* however often the process restarts.
THEOREM PoolTypeCorrect == Spec => []TypeOK
<1>1. Base => TypeOK
  BY DEF Base
<1> QED
  BY <1>1, InitBase, NextBase, PTL DEF Spec
-----------------------------------------------------------------------------
(* No sniper is lost while the process lives: a walk may put back a list   *)
(* it read before an await, or drop a zone another walk has dealt with.    *)

\* A zone id that was handed out has an object, and rows and walks name only such
\* ids.
ZonesKnown ==
  /\ \A z \in ZoneIds : z <= nextZone => zone[z].phase # "none"
  /\ \A s \in Snipers : s < nextSniper => sniper[s].zone <= nextZone
  /\ \A w \in Walks : \A z \in walk[w].drop : z <= nextZone

\* Each zone is watched by one sniper only, so dropping it loses no other.
OneSniperPerZone ==
  \A s, t \in Snipers :
    s < nextSniper /\ t < nextSniper /\ sniper[s].zone = sniper[t].zone => s = t

\* The zones a walk will drop have no pending sniper but the one it is firing.
DropsSettled ==
  \A w \in Walks : \A s \in Snipers :
    walk[w].pc = "await" /\ sniper[s].zone \in walk[w].drop /\ sniper[s].status = "pending"
      => s = walk[w].firing

Kept == Base /\ ZonesKnown /\ OneSniperPerZone /\ DropsSettled /\ NoLostSniper

LEMMA InitKept == Init => Kept
<1> SUFFICES ASSUME Init PROVE Kept
  OBVIOUS
<1>1. Base
  BY InitBase
<1>2. nextZone = 0 /\ nextSniper = 1 /\ \A s \in Snipers : sniper[s].status = "none"
  BY DEF Init, NoSniper
<1>3. ZonesKnown /\ OneSniperPerZone
  BY <1>2, ConstantsAssumption DEF ZonesKnown, OneSniperPerZone, ZoneIds, Snipers, Init, Free
<1>4. DropsSettled /\ NoLostSniper
  BY <1>2 DEF DropsSettled, NoLostSniper
<1> QED
  BY <1>1, <1>3, <1>4 DEF Kept

LEMMA BarKept == ASSUME Kept, NEW w \in Walks, OnBar(w) PROVE Kept'
<1>1. Base'
  BY BarBase DEF Kept
<1> USE DEF Kept
<1>0. TypeOK /\ Base /\ nextZone \in Nat /\ MaxZone \in Nat /\ nextSniper \in Nat
  BY ConstantsAssumption DEF Base, TypeOK
<1>2. /\ walk' = [walk EXCEPT ![w].pc = "ready"]
      /\ nextZone' \in nextZone..MaxZone
      /\ \A z \in ZoneIds : z <= nextZone' => zone'[z].phase # "none"
      /\ NoNewSniper \/ NewSniper
  <2>1. \A z \in ZoneIds : z \in Nat
    BY <1>0 DEF ZoneIds
  <2> QED
    BY <1>0, <2>1, BarStep DEF ZonesKnown
<1>3. \A v \in Walks : \A z \in walk'[v].drop : z <= nextZone /\ z <= nextZone'
  <2>1. \A v \in Walks : walk'[v].drop = walk[v].drop /\ walk[v].drop \subseteq Nat
    BY <1>0, <1>2 DEF TypeOK, ZoneIds
  <2> QED
    BY <1>0, <1>2, <2>1 DEF ZonesKnown
<1>4. CASE NoNewSniper
  <2>1. \A s \in Snipers : s < nextSniper =>
          sniper[s].zone \in Nat /\ sniper[s].zone <= nextZone'
    BY <1>0, <1>2 DEF Base, RowsExist, ZoneIds, ZonesKnown
  <2>2. ZonesKnown'
    BY <1>2, <1>3, <1>4, <2>1 DEF NoNewSniper, ZonesKnown
  <2>3. OneSniperPerZone' /\ NoLostSniper'
    BY <1>4 DEF NoNewSniper, OneSniperPerZone, NoLostSniper
  <2>4. DropsSettled'
    BY <1>0, <1>2, <1>4 DEF NoNewSniper, TypeOK, DropsSettled
  <2> QED
    BY <1>1, <2>2, <2>3, <2>4
<1>5. CASE NewSniper
  <2>1. /\ nextSniper \in Snipers /\ nextSniper' = nextSniper + 1
        /\ nextZone < nextZone'
        /\ pending' = pending \cup {nextSniper}
        /\ sniper'[nextSniper].zone = nextZone'
        /\ \A s \in Snipers : s # nextSniper => sniper'[s] = sniper[s]
        /\ \A s \in Snipers : s \in Nat
    BY <1>0, <1>5, ConstantsAssumption DEF NewSniper, TypeOK, Snipers
  <2>2. \A s \in Snipers : s < nextSniper' => s = nextSniper \/ s < nextSniper
    BY <1>0, <2>1
  <2>3. \A s \in Snipers : s < nextSniper =>
          sniper[s].zone \in Nat /\ sniper[s].zone <= nextZone
    BY <1>0 DEF Base, RowsExist, ZoneIds, ZonesKnown
  <2>4. ZonesKnown'
    BY <1>0, <1>2, <1>3, <2>1, <2>2, <2>3 DEF ZonesKnown
  <2>5. OneSniperPerZone'
    BY <1>0, <1>2, <2>1, <2>2, <2>3 DEF OneSniperPerZone
  <2>6. DropsSettled'
    <3> SUFFICES ASSUME NEW v \in Walks, NEW s \in Snipers, walk'[v].pc = "await",
                        sniper'[s].zone \in walk'[v].drop, sniper'[s].status = "pending"
                 PROVE  s = walk'[v].firing
      BY DEF DropsSettled
    <3>1. v # w /\ walk'[v] = walk[v]
      BY <1>0, <1>2 DEF TypeOK
    <3>2. CASE s # nextSniper
      BY <3>1, <3>2, <2>1 DEF DropsSettled
    <3>3. CASE s = nextSniper
      <4>1. nextZone' \in walk'[v].drop
        BY <3>1, <3>3, <2>1
      <4>2. nextZone' <= nextZone
        BY <4>1, <1>3
      <4> QED
        BY <4>2, <2>1, <1>0, <1>2
    <3> QED
      BY <3>2, <3>3
  <2>7. NoLostSniper'
    BY <2>1 DEF NoLostSniper
  <2> QED
    BY <1>1, <2>4, <2>5, <2>6, <2>7
<1> QED
  BY <1>2, <1>4, <1>5
LEMMA ProceedKept ==
  ASSUME Kept, NEW w \in Walks, NEW todo \in SUBSET Snipers,
         NEW drop \in SUBSET ZoneIds, NEW old \in SUBSET Snipers,
         NEW rows \in [Snipers -> SniperRows],
         \A s \in todo : s < nextSniper,
         \A s \in Snipers : /\ rows[s].zone = sniper[s].zone
                            /\ rows[s].status # "none" <=> sniper[s].status # "none"
                            /\ rows[s].status = "pending" => sniper[s].status = "pending",
         \A z \in drop : z <= nextZone,
         \A s \in Snipers : rows[s].zone \in drop => rows[s].status # "pending",
         Proceed(w, todo, drop, old, rows),
         UNCHANGED <<zoneRow, nextSniper, zoneVars, aged, restarts>>, warm' \in BOOLEAN
  PROVE  Kept'
<1> USE DEF Kept
<1>1. Base /\ TypeOK /\ \A s \in todo : rows[s].zone \in ZoneIds
  BY DEF Base, RowsExist
<1>2. Base'
  BY <1>1, ProceedBase
<1>3. PICK passed, kept \in SUBSET Snipers :
           /\ RowsAfter(todo, rows, passed, kept)
           /\ \/ passed = todo /\ WalkEnds(w, todo, drop, rows, kept)
              \/ \E f \in todo : WalkFires(w, todo, drop, old, rows, passed, kept, f)
  BY <1>1, ProceedStep
<1>4. \A s \in todo : zone[rows[s].zone].phase # "none" /\ rows[s].zone <= nextZone
  BY <1>1 DEF ZonesKnown
<1>5. \A s \in Snipers :
        /\ sniper'[s].zone = sniper[s].zone
        /\ sniper'[s].status = "pending" =>
             /\ s \notin passed \ kept
             /\ rows[s].status = "pending" /\ sniper[s].status = "pending"
  BY <1>3, <1>4 DEF RowsAfter
\* A pending sniper is not among those whose zones this segment drops.
<1>6. \A s \in Snipers : sniper'[s].status = "pending" =>
        rows[s].zone \notin drop \cup {rows[t].zone : t \in passed \ kept}
  <2> SUFFICES ASSUME NEW s \in Snipers, sniper'[s].status = "pending",
                      NEW t \in passed \ kept, rows[s].zone = rows[t].zone
               PROVE  FALSE
    BY <1>5
  <2>1. t \in todo /\ t < nextSniper /\ t \in Snipers
    BY <1>3 DEF RowsAfter
  <2>2. s < nextSniper
    BY <1>1, <1>5 DEF Base, RowsExist
  <2>3. s = t
    BY <2>1, <2>2 DEF OneSniperPerZone
  <2> QED
    BY <2>3, <1>5
<1>7. /\ NoLostSniper'
      /\ \A v \in Walks : \A z \in walk'[v].drop : z <= nextZone
      /\ DropsSettled'
  <2>0. walk \in [Walks -> WalkStates]
    BY <1>1 DEF TypeOK, WalkStates
  <2>1. CASE passed = todo /\ WalkEnds(w, todo, drop, rows, kept)
    <3>1. /\ pending' = {s \in pending \cup kept :
                           rows[s].zone \notin drop \cup {rows[t].zone : t \in passed \ kept}}
          /\ walk' = [walk EXCEPT ![w] = Free]
      BY <2>1 DEF WalkEnds
    <3>2. NoLostSniper'
      BY <3>1, <1>5, <1>6 DEF NoLostSniper
    <3>3. \A v \in Walks : \A z \in walk'[v].drop : z <= nextZone
      BY <2>0, <3>1 DEF Free, ZonesKnown
    <3>4. DropsSettled'
      BY <2>0, <3>1, <1>5 DEF Free, DropsSettled
    <3> QED
      BY <3>2, <3>3, <3>4
  <2>2. CASE \E f \in todo : WalkFires(w, todo, drop, old, rows, passed, kept, f)
    <3>1. PICK f \in todo : WalkFires(w, todo, drop, old, rows, passed, kept, f)
      BY <2>2
    <3>2. /\ pending' = pending \cup kept
          /\ walk' = [walk EXCEPT ![w] =
               [pc |-> "await", todo |-> {r \in todo : r > f},
                drop |-> (drop \cup {rows[t].zone : t \in passed \ kept}) \cup {rows[f].zone},
                firing |-> f, old |-> old]]
      BY <3>1 DEF WalkFires
    <3>3. /\ walk'[w].firing = f
          /\ walk'[w].drop = (drop \cup {rows[t].zone : t \in passed \ kept}) \cup {rows[f].zone}
          /\ \A v \in Walks : v # w => walk'[v] = walk[v]
      BY <2>0, <3>2
    <3>4. NoLostSniper'
      BY <3>2, <1>5 DEF NoLostSniper
    <3>5. \A v \in Walks : \A z \in walk'[v].drop : z <= nextZone
      <4>1. \A t \in passed \ kept : rows[t].zone <= nextZone
        BY <1>3, <1>4 DEF RowsAfter
      <4> QED
        BY <3>3, <4>1, <1>4 DEF ZonesKnown
    <3>6. DropsSettled'
      <4> SUFFICES ASSUME NEW v \in Walks, NEW s \in Snipers, walk'[v].pc = "await",
                          sniper'[s].zone \in walk'[v].drop, sniper'[s].status = "pending"
                   PROVE  s = walk'[v].firing
        BY DEF DropsSettled
      <4>1. CASE v # w
        BY <4>1, <3>3, <1>5 DEF DropsSettled
      <4>2. CASE v = w
        <5>1. rows[s].zone = rows[f].zone
          BY <4>2, <3>3, <1>5, <1>6
        <5>2. s < nextSniper /\ f < nextSniper
          BY <1>1, <1>5 DEF Base, RowsExist
        <5> QED
          BY <5>1, <5>2, <4>2, <3>3 DEF OneSniperPerZone
      <4> QED
        BY <4>1, <4>2
    <3> QED
      BY <3>4, <3>5, <3>6
  <2> QED
    BY <1>3, <2>1, <2>2
<1>8. ZonesKnown' /\ OneSniperPerZone'
  BY <1>5, <1>7 DEF ZonesKnown, OneSniperPerZone, zoneVars
<1> QED
  BY <1>2, <1>7, <1>8

LEMMA NextKept == MaxRestarts = 0 /\ Kept /\ [Next]_vars => Kept'
<1> SUFFICES ASSUME MaxRestarts = 0, Kept, [Next]_vars PROVE Kept'
  OBVIOUS
<1>0. Base /\ TypeOK
  BY DEF Kept, Base
<1>1. ASSUME NEW w \in Walks, OnBar(w) PROVE Kept'
  BY <1>1, BarKept
<1>2. ASSUME NEW w \in Walks, WalkStarts(w) PROVE Kept'
  <2>1. /\ Proceed(w, pending, {}, aged, sniper)
        /\ UNCHANGED <<zoneRow, nextSniper, zoneVars, aged, restarts>>
        /\ warm' \in BOOLEAN
    BY <1>2 DEF WalkStarts
  <2> QED
    BY <1>0, <2>1, SegmentInputs, ProceedKept
<1>3. ASSUME NEW w \in Walks, HandlerReturned(w) PROVE Kept'
  <2> DEFINE f == walk[w].firing
             rows == TriggeredRow(f)
  <2>1. /\ Proceed(w, walk[w].todo, walk[w].drop, walk[w].old, rows)
        /\ UNCHANGED <<zoneRow, nextSniper, zoneVars, aged, restarts>>
        /\ warm' \in BOOLEAN /\ walk[w].pc = "await"
    BY <1>0, <1>3 DEF HandlerReturned, TypeOK
  <2>2. f \in Snipers /\ f < nextSniper
    BY <1>0, <2>1, SegmentInputs
  <2>3. /\ rows \in [Snipers -> SniperRows]
        /\ \A s \in Snipers : /\ rows[s].zone = sniper[s].zone
                              /\ rows[s].status # "none" <=> sniper[s].status # "none"
                              /\ rows[s].status = "pending" => sniper[s].status = "pending" /\ s # f
    BY <1>0, <2>2, TriggeredRows
  <2> HIDE DEF rows
  <2>4. \A s \in Snipers : rows[s].zone \in walk[w].drop => rows[s].status # "pending"
    BY <2>1, <2>3 DEF Kept, DropsSettled
  <2>5. \A z \in walk[w].drop : z <= nextZone
    BY DEF Kept, ZonesKnown
  <2> QED
    BY <1>0, <2>1, <2>3, <2>4, <2>5, SegmentInputs, ProceedKept
<1>4. ASSUME NEW s \in Snipers, AgeOut(s) PROVE Kept'
  <2>1. Base'
    BY <1>0, <1>4, NextBase DEF Next
  <2> QED
    BY <1>4, <2>1 DEF AgeOut, Kept, ZonesKnown, OneSniperPerZone, DropsSettled,
         NoLostSniper, storeVars, zoneVars
<1>5. CASE Restart
  BY <1>0, <1>5 DEF Restart, TypeOK
<1>6. CASE UNCHANGED vars
  <2>1. Base'
    BY <1>0, <1>6, NextBase
  <2> QED
    BY <1>6, <2>1 DEF vars, Kept, ZonesKnown, OneSniperPerZone, DropsSettled,
         NoLostSniper, storeVars, zoneVars
<1> QED
  BY <1>1, <1>2, <1>3, <1>4, <1>5, <1>6 DEF Next

\* While the process lives, every row that says 'pending' is watched, however
\* many walks overlap.
THEOREM NoSniperLost ==
  ASSUME MaxRestarts = 0
  PROVE  Spec => []NoLostSniper
<1>1. Kept => NoLostSniper
  BY DEF Kept
<1>2. Kept /\ [Next]_vars => Kept'
  BY NextKept
<1> QED
  BY <1>1, <1>2, InitKept, PTL DEF Spec
-----------------------------------------------------------------------------
(* The first walk of a process precedes every zone: it empties the pool of *)
(* the snipers that were reloaded.                                         *)

Cold ==
  ~warm => /\ \A z \in ZoneIds : zone[z].phase = "none" /\ ~zone[z].tracked
           /\ \A w \in Walks : walk[w].todo = {} /\ walk[w].pc # "await"

\* The first walk fires nothing, writes nothing and leaves an empty pool.
LEMMA ColdWalk ==
  ASSUME Base, Cold, ~warm, NEW w \in Walks, WalkStarts(w)
  PROVE  /\ pending' = {}
         /\ walk' = [walk EXCEPT ![w] = Free]
         /\ fires' = fires
         /\ sniper' = sniper
<1>0. TypeOK
  BY DEF Base
<1>1. Proceed(w, pending, {}, aged, sniper)
  BY DEF WalkStarts
<1>2. PICK passed, kept \in SUBSET Snipers :
           /\ RowsAfter(pending, sniper, passed, kept)
           /\ \/ passed = pending /\ WalkEnds(w, pending, {}, sniper, kept)
              \/ \E f \in pending : WalkFires(w, pending, {}, aged, sniper, passed, kept, f)
  BY <1>0, <1>1, SegmentInputs, ProceedStep
<1>3. \A s \in pending : zone[sniper[s].zone].phase = "none"
  BY SegmentInputs DEF Cold
<1>4. kept = {} /\ \A s \in passed : zone[sniper[s].zone].phase = "none"
  BY <1>2, <1>3 DEF RowsAfter
<1>5. sniper' = sniper
  <2>1. \A s \in Snipers : sniper'[s] = sniper[s]
    BY <1>2, <1>4 DEF RowsAfter
  <2>2. sniper' \in [Snipers -> SniperRows] /\ sniper \in [Snipers -> SniperRows]
    BY <1>2, SegmentInputs DEF RowsAfter
  <2> QED
    BY <2>1, <2>2
<1>6. WalkEnds(w, pending, {}, sniper, kept)
  BY <1>2, <1>3 DEF WalkFires
<1> QED
  BY <1>4, <1>5, <1>6 DEF WalkEnds

LEMMA InitCold == Init => Cold
BY DEF Init, Cold, NoZone, Free

LEMMA NextCold == Base /\ Cold /\ [Next]_vars => Cold'
<1> SUFFICES ASSUME Base, Cold, [Next]_vars PROVE Cold'
  OBVIOUS
<1>0. TypeOK
  BY DEF Base
<1>1. ASSUME NEW w \in Walks, OnBar(w) PROVE Cold'
  <2> SUFFICES ASSUME ~warm' PROVE Cold'
    BY DEF Cold
  <2>1. /\ walk' = [walk EXCEPT ![w].pc = "ready"] /\ ~warm
        /\ nextZone' \in nextZone..MaxZone /\ ~(nextZone < nextZone')
    BY <1>0, <1>1, BarStep
  <2>2. \A z \in ZoneIds : ~(nextZone < z /\ z <= nextZone')
    BY <1>0, <2>1, ConstantsAssumption DEF TypeOK, ZoneIds
  <2>3. \A z \in ZoneIds : zone'[z] = zone[z]
    BY <1>0, <1>1, <2>1, <2>2, BarStep DEF Cold
  <2> QED
    BY <1>0, <2>1, <2>3 DEF Cold, TypeOK
<1>2. ASSUME NEW w \in Walks, WalkStarts(w) PROVE Cold'
  BY <1>2 DEF WalkStarts, Cold
<1>3. ASSUME NEW w \in Walks, HandlerReturned(w) PROVE Cold'
  BY <1>3 DEF HandlerReturned, Cold
<1>4. ASSUME NEW s \in Snipers, AgeOut(s) PROVE Cold'
  BY <1>4 DEF AgeOut, Cold, zoneVars
<1>5. CASE Restart
  BY <1>5 DEF Restart, Cold, NoZone, Free
<1>6. CASE UNCHANGED vars
  BY <1>6 DEF vars, zoneVars, Cold
<1> QED
  BY <1>1, <1>2, <1>3, <1>4, <1>5, <1>6 DEF Next

-----------------------------------------------------------------------------
(* A sniper that is watched was created in this process, for the zone that *)
(* has its id now.                                                         *)

OfItsZone(s) ==
  /\ sniper[s].zone <= nextZone
  /\ zone[sniper[s].zone].dir = sniper[s].dir

Matched ==
  warm => /\ \A s \in pending : OfItsZone(s)
          /\ \A w \in Walks : \A s \in walk[w].todo : OfItsZone(s)
          /\ \A w \in Walks : walk[w].pc = "await" => OfItsZone(walk[w].firing)

LEMMA ProceedMatched ==
  ASSUME Base, warm, Matched, NEW w \in Walks, NEW todo \in SUBSET Snipers,
         NEW drop \in SUBSET ZoneIds, NEW old \in SUBSET Snipers,
         NEW rows \in [Snipers -> SniperRows],
         \A s \in todo : s < nextSniper /\ OfItsZone(s),
         \A s \in Snipers : rows[s].zone = sniper[s].zone /\ rows[s].dir = sniper[s].dir,
         Proceed(w, todo, drop, old, rows), UNCHANGED zoneVars
  PROVE  Matched'
<1>0. TypeOK /\ walk \in [Walks -> WalkStates] /\ \A s \in todo : rows[s].zone \in ZoneIds
  BY DEF Base, RowsExist, TypeOK, WalkStates
<1>1. PICK passed, kept \in SUBSET Snipers :
           /\ RowsAfter(todo, rows, passed, kept)
           /\ \/ passed = todo /\ WalkEnds(w, todo, drop, rows, kept)
              \/ \E f \in todo : WalkFires(w, todo, drop, old, rows, passed, kept, f)
  BY <1>0, ProceedStep
<1>2. \A s \in Snipers : OfItsZone(s) => OfItsZone(s)'
  BY <1>1 DEF RowsAfter, OfItsZone, zoneVars
<1>3. kept \subseteq todo
  BY <1>1 DEF RowsAfter
<1>4. /\ \A s \in pending' : OfItsZone(s)
      /\ \A v \in Walks : \A s \in walk'[v].todo : OfItsZone(s)
      /\ \A v \in Walks : walk'[v].pc = "await" => OfItsZone(walk'[v].firing)
  <2>1. CASE WalkEnds(w, todo, drop, rows, kept)
    BY <1>0, <1>3, <2>1 DEF WalkEnds, Free, Matched
  <2>2. CASE \E f \in todo : WalkFires(w, todo, drop, old, rows, passed, kept, f)
    <3>1. PICK f \in todo : WalkFires(w, todo, drop, old, rows, passed, kept, f)
      BY <2>2
    <3>2. /\ pending' = pending \cup kept
          /\ walk'[w].todo \subseteq todo /\ walk'[w].firing = f
          /\ \A v \in Walks : v # w => walk'[v] = walk[v]
      BY <1>0, <3>1 DEF WalkFires
    <3> QED
      BY <1>3, <3>2 DEF Matched
  <2> QED
    BY <1>1, <2>1, <2>2
<1>5. /\ pending' \subseteq Snipers
      /\ \A v \in Walks : walk'[v].todo \subseteq Snipers
      /\ \A v \in Walks : walk'[v].pc = "await" => walk'[v].firing \in Snipers
  <2>1. CASE WalkEnds(w, todo, drop, rows, kept)
    BY <1>0, <1>3, <2>1 DEF WalkEnds, Free, TypeOK, WalkStates, Base, WatchedExist
  <2>2. CASE \E f \in todo : WalkFires(w, todo, drop, old, rows, passed, kept, f)
    <3>1. PICK f \in todo : WalkFires(w, todo, drop, old, rows, passed, kept, f)
      BY <2>2
    <3>2. /\ pending' = pending \cup kept
          /\ walk'[w].todo \subseteq todo /\ walk'[w].firing = f
          /\ \A v \in Walks : v # w => walk'[v] = walk[v]
      BY <1>0, <3>1 DEF WalkFires
    <3> QED
      BY <1>0, <1>3, <3>2 DEF TypeOK, WalkStates, Base, WatchedExist
  <2> QED
    BY <1>1, <2>1, <2>2
<1> QED
  BY <1>2, <1>4, <1>5 DEF Matched, OfItsZone
LEMMA NextMatched == Base /\ Cold /\ Matched /\ [Next]_vars => Matched'
<1> SUFFICES ASSUME Base, Cold, Matched, [Next]_vars PROVE Matched'
  OBVIOUS
<1>0. TypeOK /\ walk \in [Walks -> WalkStates] /\ nextZone \in Nat /\ nextSniper \in Nat
  BY ConstantsAssumption DEF Base, TypeOK, WalkStates
<1>1. ASSUME NEW w \in Walks, OnBar(w) PROVE Matched'
  <2> SUFFICES ASSUME warm' PROVE Matched'
    BY DEF Matched
  <2>1. /\ warm
        /\ walk' = [walk EXCEPT ![w].pc = "ready"]
        /\ nextZone' \in nextZone..MaxZone
        /\ \A z \in ZoneIds : z <= nextZone => zone'[z].dir = zone[z].dir
        /\ NoNewSniper \/ NewSniper
    <3>1. \A z \in ZoneIds : z \in Nat
      BY ConstantsAssumption DEF ZoneIds
    <3>2. /\ UNCHANGED warm
          /\ walk' = [walk EXCEPT ![w].pc = "ready"]
          /\ nextZone' \in nextZone..MaxZone
          /\ NoNewSniper \/ NewSniper
      BY <1>0, <1>1, BarStep
    <3>3. \A z \in ZoneIds :
              IF nextZone < z /\ z <= nextZone' THEN TRUE ELSE zone'[z].dir = zone[z].dir
      BY <1>0, <1>1, BarStep
    <3>4. \A z \in ZoneIds : z <= nextZone => ~(nextZone < z)
      BY <1>0, <3>1
    <3> QED
      BY <3>2, <3>3, <3>4
  <2>2. \A s \in Snipers : s < nextSniper /\ OfItsZone(s) =>
          /\ sniper[s].zone <= nextZone'
          /\ zone'[sniper[s].zone].dir = sniper[s].dir
    <3> SUFFICES ASSUME NEW s \in Snipers, s < nextSniper, OfItsZone(s)
                 PROVE  /\ sniper[s].zone <= nextZone'
                        /\ zone'[sniper[s].zone].dir = sniper[s].dir
      OBVIOUS
    <3>1. sniper[s].zone \in ZoneIds /\ sniper[s].zone \in Nat
      BY ConstantsAssumption DEF Base, RowsExist, ZoneIds
    <3> QED
      BY <1>0, <2>1, <3>1 DEF OfItsZone
  <2>3. \A s \in Snipers : s < nextSniper =>
          sniper'[s] = sniper[s]
    <3>1. CASE NoNewSniper
      BY <3>1 DEF NoNewSniper
    <3>2. CASE NewSniper
      BY <1>0, <3>2 DEF NewSniper
    <3> QED
      BY <2>1, <3>1, <3>2
  <2>4. \A s \in Snipers : s < nextSniper /\ OfItsZone(s) => OfItsZone(s)'
    BY <2>2, <2>3 DEF OfItsZone
  <2>5. \A s \in pending' : OfItsZone(s)'
    <3>1. CASE NoNewSniper
      BY <1>0, <2>1, <2>4, <3>1 DEF NoNewSniper, TypeOK, Base, WatchedExist, Matched
    <3>2. CASE NewSniper
      <4>1. /\ sniper'[nextSniper] = [status |-> "pending", zone |-> nextZone',
                                      dir |-> zone'[nextZone'].dir]
            /\ pending' = pending \cup {nextSniper} /\ nextZone' \in Nat
        BY <1>0, <2>1, <3>2 DEF NewSniper, TypeOK
      <4>2. \A s \in Snipers : s = nextSniper => OfItsZone(s)'
        BY <4>1 DEF OfItsZone
      <4>3. \A s \in pending : s \in Snipers /\ s < nextSniper /\ OfItsZone(s)
        BY <1>0, <2>1, SegmentInputs DEF TypeOK, Base, WatchedExist, Matched
      <4>4. nextSniper \in Snipers
        BY <3>2 DEF NewSniper
      <4> HIDE DEF OfItsZone
      <4> QED
        BY <2>4, <4>1, <4>2, <4>3, <4>4
    <3> QED
      BY <2>1, <3>1, <3>2
  <2>6. \A v \in Walks : /\ walk'[v].todo = walk[v].todo
                         /\ walk'[v].firing = walk[v].firing
                         /\ walk'[v].pc = "await" => walk[v].pc = "await"
    BY <1>0, <2>1 DEF WalkStates
  <2>7. \A v \in Walks : \A s \in walk'[v].todo : OfItsZone(s)'
    BY <1>0, <2>1, <2>4, <2>6, SegmentInputs DEF Matched
  <2>8. \A v \in Walks : walk'[v].pc = "await" => OfItsZone(walk[v].firing)'
    BY <1>0, <2>1, <2>4, <2>6, SegmentInputs DEF Matched
  <2> QED
    BY <2>5, <2>6, <2>7, <2>8 DEF Matched
<1>2. ASSUME NEW w \in Walks, WalkStarts(w) PROVE Matched'
  <2>1. CASE ~warm
    <3>1. pending' = {} /\ walk' = [walk EXCEPT ![w] = Free]
      BY <1>2, <2>1, ColdWalk
    <3> QED
      BY <1>0, <2>1, <3>1 DEF Cold, Matched, Free
  <2>2. CASE warm
    <3>1. Proceed(w, pending, {}, aged, sniper) /\ UNCHANGED zoneVars
      BY <1>2 DEF WalkStarts
    <3>2. \A s \in pending : s < nextSniper /\ OfItsZone(s)
      BY <2>2, SegmentInputs DEF Matched
    <3> QED
      BY <2>2, <3>1, <3>2, SegmentInputs, ProceedMatched
  <2> QED
    BY <2>1, <2>2
<1>3. ASSUME NEW w \in Walks, HandlerReturned(w) PROVE Matched'
  <2> DEFINE rows == TriggeredRow(walk[w].firing)
  <2>1. /\ Proceed(w, walk[w].todo, walk[w].drop, walk[w].old, rows)
        /\ UNCHANGED zoneVars /\ walk[w].pc = "await"
    BY <1>3 DEF HandlerReturned
  <2>2. warm
    BY <2>1 DEF Cold
  <2>3. /\ rows \in [Snipers -> SniperRows]
        /\ \A s \in Snipers : rows[s].zone = sniper[s].zone /\ rows[s].dir = sniper[s].dir
    BY <2>1, SegmentInputs, TriggeredRows
  <2>4. \A s \in walk[w].todo : s < nextSniper /\ OfItsZone(s)
    BY <2>2, SegmentInputs DEF Matched
  <2> HIDE DEF rows
  <2> QED
    BY <2>1, <2>2, <2>3, <2>4, SegmentInputs, ProceedMatched
<1>4. ASSUME NEW s \in Snipers, AgeOut(s) PROVE Matched'
  BY <1>4 DEF AgeOut, Matched, OfItsZone, storeVars, zoneVars
<1>5. CASE Restart
  BY <1>5 DEF Restart, Matched
<1>6. CASE UNCHANGED vars
  BY <1>6 DEF vars, Matched, OfItsZone, storeVars, zoneVars
<1> QED
  BY <1>1, <1>2, <1>3, <1>4, <1>5, <1>6 DEF Next

\* A sniper that fires watches a zone of its own direction, however many walks
\* overlap, and although a restart hands out zone ids again.
THEOREM FiresAgainstInvertedZone == Spec => []FiresAgainstItsZone
<1>1. Init => Base /\ Cold /\ Matched
  BY InitBase, InitCold DEF Init, Matched
<1>2. Base /\ Cold /\ Matched /\ [Next]_vars => Base' /\ Cold' /\ Matched'
  BY NextBase, NextCold, NextMatched
<1>3. Base /\ Cold /\ Matched => FiresAgainstItsZone
  BY DEF Base, Cold, Matched, OfItsZone, FiresAgainstItsZone
<1> QED
  BY <1>1, <1>2, <1>3, PTL DEF Spec

-----------------------------------------------------------------------------
(* When a walk ends before the next one starts, a sniper fires once and    *)
(* its fate is final, also across restarts.                                *)

OneWalk == \A v, w \in Walks : v = w

\* What a walk has still to look at is undecided and has not fired.
TodoUndecided ==
  /\ \A w \in Walks : \A s \in walk[w].todo :
       sniper[s].status = "pending" /\ fires[s] = 0
  /\ \A w \in Walks : walk[w].pc = "await" =>
       /\ sniper[walk[w].firing].status = "pending"
       /\ sniper[walk[w].firing].zone \in walk[w].drop
       /\ walk[w].firing \notin walk[w].todo

\* So is what is in the pool, except for what the walk will drop from it, and
\* what a restart brought back and the first walk will drop.
PoolUndecided ==
  \A s \in pending :
    \/ sniper[s].status = "pending" /\ (warm => fires[s] = 0)
    \/ \E w \in Walks : walk[w].pc = "await" /\ sniper[s].zone \in walk[w].drop

FiredExist == \A s \in Snipers : fires[s] > 0 => s < nextSniper

Serial == Base /\ Cold /\ TodoUndecided /\ PoolUndecided /\ FiredExist /\ FiresOnce

FateStep ==
  \A s \in Snipers :
    sniper[s].status \notin {"none", "pending"} => sniper'[s].status = sniper[s].status

LEMMA InitSerial == Init => Serial
<1> SUFFICES ASSUME Init PROVE Serial
  OBVIOUS
<1>1. Base /\ Cold
  BY InitBase, InitCold
<1>2. TodoUndecided /\ PoolUndecided /\ FiredExist /\ FiresOnce
  BY DEF Init, Free, TodoUndecided, PoolUndecided, FiredExist, FiresOnce
<1> QED
  BY <1>1, <1>2 DEF Serial

\* A bar comes only when no walk is at work; it writes no fate.
LEMMA BarSerial ==
  ASSUME Serial, NEW w \in Walks, OnBar(w)
  PROVE  TodoUndecided' /\ PoolUndecided' /\ FiredExist' /\ FiresOnce' /\ FateStep
<1> USE DEF Serial
<1>0. /\ TypeOK /\ walk \in [Walks -> WalkStates] /\ nextSniper \in Nat
      /\ fires \in [Snipers -> 0..2] /\ \A s \in Snipers : s \in Nat
  BY ConstantsAssumption DEF Base, TypeOK, WalkStates, Snipers
<1>1. /\ walk[w].pc = "free"
      /\ walk' = [walk EXCEPT ![w].pc = "ready"]
      /\ NoNewSniper \/ NewSniper
      /\ warm' = warm /\ fires' = fires
  BY <1>0, BarStep
<1>2. /\ \A s \in Snipers : s < nextSniper => sniper'[s] = sniper[s]
      /\ nextSniper <= nextSniper'
      /\ \A s \in pending' :
           \/ s \in pending
           \/ s \in Snipers /\ s = nextSniper /\ sniper'[s].status = "pending" /\ fires[s] = 0
      /\ FateStep
  <2>1. CASE NoNewSniper
    <3>1. sniper' = sniper /\ nextSniper' = nextSniper /\ pending' = pending
      BY <2>1 DEF NoNewSniper
    <3>2. FateStep
      BY <3>1 DEF FateStep
    <3> QED
      BY <1>0, <3>1, <3>2
  <2>2. CASE NewSniper
    <3>1. \A s \in Snipers : s # nextSniper => sniper'[s] = sniper[s]
      BY <2>2 DEF NewSniper
    <3>2. /\ nextSniper \in Snipers /\ pending' = pending \cup {nextSniper}
          /\ nextSniper' = nextSniper + 1
      BY <2>2 DEF NewSniper
    <3>3. sniper'[nextSniper].status = "pending"
      BY <1>0, <2>2 DEF NewSniper, TypeOK
    <3>4. sniper[nextSniper].status = "none" /\ fires[nextSniper] = 0
      BY <1>0, <3>2 DEF Base, RowsExist, FiredExist
    <3>5. FateStep
      BY <3>1, <3>4 DEF FateStep
    <3>6. \A s \in Snipers : s < nextSniper => sniper'[s] = sniper[s]
      BY <1>0, <3>1
    <3>7. nextSniper <= nextSniper'
      BY <1>0, <3>2
    <3> QED
      BY <3>2, <3>3, <3>4, <3>5, <3>6, <3>7
  <2> QED
    BY <1>1, <2>1, <2>2
<1>3. \A v \in Walks : /\ walk'[v].todo = walk[v].todo /\ walk'[v].drop = walk[v].drop
                       /\ walk'[v].firing = walk[v].firing
                       /\ walk'[v].pc = "await" <=> walk[v].pc = "await"
  BY <1>0, <1>1 DEF WalkStates
<1>4. TodoUndecided'
  <2>1. \A v \in Walks : \A s \in walk'[v].todo : sniper'[s].status = "pending" /\ fires'[s] = 0
    BY <1>1, <1>2, <1>3, SegmentInputs DEF TodoUndecided
  <2>2. \A v \in Walks : walk'[v].pc = "await" =>
       /\ sniper'[walk'[v].firing].status = "pending"
       /\ sniper'[walk'[v].firing].zone \in walk'[v].drop
       /\ walk'[v].firing \notin walk'[v].todo
    BY <1>1, <1>2, <1>3, SegmentInputs DEF TodoUndecided
  <2> QED
    BY <2>1, <2>2 DEF TodoUndecided
<1>5. PoolUndecided'
  <2> SUFFICES ASSUME NEW s \in pending'
               PROVE  \/ sniper'[s].status = "pending" /\ (warm' => fires'[s] = 0)
                      \/ \E v \in Walks : walk'[v].pc = "await" /\ sniper'[s].zone \in walk'[v].drop
    BY DEF PoolUndecided
  <2>1. CASE s \in pending
    <3>1. s \in Snipers /\ sniper'[s] = sniper[s]
      BY <2>1, <1>2, SegmentInputs
    <3> QED
      BY <2>1, <3>1, <1>1, <1>3 DEF PoolUndecided
  <2>2. CASE s \notin pending
    BY <2>2, <1>1, <1>2
  <2> QED
    BY <2>1, <2>2
<1>6. FiredExist' /\ FiresOnce'
  <2>1. nextSniper' \in Nat
    BY <1>0, <1>1 DEF NoNewSniper, NewSniper
  <2>2. \A s \in Snipers : fires'[s] > 0 => s < nextSniper'
    BY <1>0, <1>1, <1>2, <2>1 DEF FiredExist
  <2> QED
    BY <1>1, <2>2 DEF FiredExist, FiresOnce
<1> QED
  BY <1>2, <1>4, <1>5, <1>6

\* So does a segment of the only walk, from rows in which what it has to look at
\* is undecided.
LEMMA ProceedSerial ==
  ASSUME OneWalk, Serial, NEW w \in Walks, NEW todo \in SUBSET Snipers,
         NEW drop \in SUBSET ZoneIds, NEW old \in SUBSET Snipers,
         NEW rows \in [Snipers -> SniperRows],
         \A s \in todo : s < nextSniper /\ rows[s].status = "pending" /\ fires[s] = 0,
         \A s \in Snipers : rows[s].zone = sniper[s].zone,
         \A s \in pending : (rows[s].status = "pending" /\ fires[s] = 0) \/ rows[s].zone \in drop,
         \A s \in Snipers : sniper[s].status \notin {"none", "pending"} =>
                              rows[s].status = sniper[s].status,
         Proceed(w, todo, drop, old, rows), nextSniper' = nextSniper
  PROVE  TodoUndecided' /\ PoolUndecided' /\ FiredExist' /\ FiresOnce' /\ FateStep
<1> USE DEF Serial
<1>0. /\ TypeOK /\ walk \in [Walks -> WalkStates] /\ fires \in [Snipers -> 0..2]
      /\ \A s \in todo : rows[s].zone \in ZoneIds
      /\ \A s \in Snipers : s \in Nat
  BY ConstantsAssumption DEF Base, RowsExist, TypeOK, WalkStates, Snipers
<1>1. PICK passed, kept \in SUBSET Snipers :
           /\ RowsAfter(todo, rows, passed, kept)
           /\ \/ passed = todo /\ WalkEnds(w, todo, drop, rows, kept)
              \/ \E f \in todo : WalkFires(w, todo, drop, old, rows, passed, kept, f)
  BY <1>0, ProceedStep
<1>2. /\ passed \subseteq todo /\ kept \subseteq passed
      /\ \A s \in Snipers : sniper'[s].zone = rows[s].zone
      /\ \A s \in Snipers : s \notin passed \ kept => sniper'[s] = rows[s]
  BY <1>1 DEF RowsAfter
<1>3. FateStep
  <2> SUFFICES ASSUME NEW s \in Snipers, sniper[s].status \notin {"none", "pending"}
               PROVE  sniper'[s].status = sniper[s].status
    BY DEF FateStep
  <2>1. rows[s].status = sniper[s].status /\ s \notin todo
    OBVIOUS
  <2> QED
    BY <2>1, <1>2
<1>4. CASE passed = todo /\ WalkEnds(w, todo, drop, rows, kept)
  <2>1. /\ walk' = [walk EXCEPT ![w] = Free] /\ fires' = fires
        /\ pending' = {s \in pending \cup kept :
                         rows[s].zone \notin drop \cup {rows[t].zone : t \in passed \ kept}}
    BY <1>4 DEF WalkEnds
  <2>2. \A v \in Walks : walk'[v] = Free
    BY <1>0, <2>1 DEF OneWalk
  <2>3. TodoUndecided'
    BY <2>2 DEF TodoUndecided, Free
  <2>4. \A s \in pending' : sniper'[s].status = "pending" /\ fires'[s] = 0
    <3> TAKE s \in pending'
    <3>1. s \in Snipers /\ s \notin passed \ kept /\ rows[s].zone \notin drop
      BY <1>0, <2>1 DEF TypeOK
    <3>2. rows[s].status = "pending" /\ fires[s] = 0
      BY <2>1, <3>1, <1>2
    <3> QED
      BY <3>1, <3>2, <2>1, <1>2
  <2>5. PoolUndecided'
    BY <2>4 DEF PoolUndecided
  <2>6. FiredExist' /\ FiresOnce'
    BY <2>1 DEF FiredExist, FiresOnce
  <2> QED
    BY <1>3, <2>3, <2>5, <2>6
<1>5. CASE \E f \in todo : WalkFires(w, todo, drop, old, rows, passed, kept, f)
  <2>1. PICK f \in todo : WalkFires(w, todo, drop, old, rows, passed, kept, f)
    BY <1>5
  <2>2. /\ pending' = pending \cup kept
        /\ walk'[w].todo = {r \in todo : r > f} /\ walk'[w].firing = f
        /\ walk'[w].pc = "await"
        /\ walk'[w].drop = (drop \cup {rows[t].zone : t \in passed \ kept}) \cup {rows[f].zone}
        /\ fires' = [fires EXCEPT ![f] = IF @ < 2 THEN @ + 1 ELSE @]
        /\ \A s \in passed : s < f
    BY <1>0, <2>1 DEF WalkFires
  <2>3. fires'[f] = 1 /\ \A s \in Snipers : s # f => fires'[s] = fires[s]
    BY <1>0, <2>2
  <2>4. f \notin passed /\ sniper'[f] = rows[f]
    BY <1>0, <1>2, <2>2
  <2>5. \A s \in walk'[w].todo : s \in todo /\ s \notin passed /\ s # f
    <3> TAKE s \in walk'[w].todo
    <3>1. s \in Snipers /\ s \in todo /\ s > f /\ s \in Nat /\ f \in Nat
      BY <1>0, <2>2
    <3> QED
      BY <2>2, <3>1
  <2>6. TodoUndecided'
    <3>1. \A s \in walk'[w].todo : sniper'[s].status = "pending" /\ fires'[s] = 0
      BY <1>2, <2>3, <2>5
    <3>2. sniper'[f].status = "pending" /\ sniper'[f].zone \in walk'[w].drop
          /\ f \notin walk'[w].todo
      BY <2>2, <2>4, <2>5
    <3> QED
      BY <2>2, <3>1, <3>2 DEF OneWalk, TodoUndecided
  <2>7. PoolUndecided'
    <3> SUFFICES ASSUME NEW s \in pending'
                 PROVE  \/ sniper'[s].status = "pending" /\ fires'[s] = 0
                        \/ sniper'[s].zone \in walk'[w].drop
      BY <2>2 DEF PoolUndecided
    <3>1. s \in Snipers /\ sniper'[s].zone = rows[s].zone
      BY <1>0, <1>2, <2>2 DEF TypeOK
    <3>2. CASE s = f \/ s \in passed \ kept
      BY <3>1, <3>2, <2>2
    <3>3. CASE s # f /\ s \notin passed \ kept
      <4>1. sniper'[s] = rows[s] /\ fires'[s] = fires[s]
        BY <3>1, <3>3, <1>2, <2>3
      <4>2. (rows[s].status = "pending" /\ fires[s] = 0) \/ rows[s].zone \in drop
        BY <2>2, <1>2
      <4> QED
        BY <3>1, <4>1, <4>2, <2>2
    <3> QED
      BY <3>2, <3>3
  <2>8. FiredExist' /\ FiresOnce'
    BY <2>3 DEF FiredExist, FiresOnce
  <2> QED
    BY <1>3, <2>6, <2>7, <2>8
<1> QED
  BY <1>1, <1>4, <1>5

LEMMA NextSerial == OneWalk /\ Serial /\ [Next]_vars => Serial' /\ FateStep
<1> SUFFICES ASSUME OneWalk, Serial, [Next]_vars PROVE Serial' /\ FateStep
  OBVIOUS
<1> USE DEF Serial
<1>0. Base' /\ Cold'
  BY NextBase, NextCold
<1> DEFINE Rest == TodoUndecided' /\ PoolUndecided' /\ FiredExist' /\ FiresOnce' /\ FateStep
<1>1. ASSUME NEW w \in Walks, OnBar(w) PROVE Rest
  BY <1>1, BarSerial
<1>2. ASSUME NEW w \in Walks, WalkStarts(w) PROVE Rest
  <2>1. nextSniper' = nextSniper /\ walk[w].pc = "ready" /\ \A v \in Walks : v = w
    BY <1>2 DEF WalkStarts, OneWalk
  <2>2. CASE ~warm
    <3>1. pending' = {} /\ walk' = [walk EXCEPT ![w] = Free] /\ fires' = fires /\ sniper' = sniper
      BY <1>2, <2>2, ColdWalk
    <3>2. \A v \in Walks : walk'[v] = Free
      BY <2>1, <3>1 DEF Base, TypeOK
    <3> QED
      BY <2>1, <3>1, <3>2 DEF TodoUndecided, PoolUndecided, FiredExist, FiresOnce, FateStep, Free
  <2>3. CASE warm
    <3>1. Proceed(w, pending, {}, aged, sniper)
      BY <1>2 DEF WalkStarts
    <3>2. \A s \in pending : s < nextSniper /\ sniper[s].status = "pending" /\ fires[s] = 0
      BY <2>1, <2>3, SegmentInputs DEF PoolUndecided
    <3> QED
      BY <2>1, <3>1, <3>2, SegmentInputs, ProceedSerial
  <2> QED
    BY <2>2, <2>3
<1>3. ASSUME NEW w \in Walks, HandlerReturned(w) PROVE Rest
  <2> DEFINE f == walk[w].firing
             rows == TriggeredRow(f)
  <2>1. /\ Proceed(w, walk[w].todo, walk[w].drop, walk[w].old, rows)
        /\ nextSniper' = nextSniper /\ walk[w].pc = "await" /\ \A v \in Walks : v = w
    BY <1>3 DEF HandlerReturned, OneWalk
  <2>2. f \in Snipers /\ f < nextSniper /\ warm
    BY <2>1, SegmentInputs DEF Cold
  <2>3. /\ rows \in [Snipers -> SniperRows]
        /\ \A s \in Snipers : rows[s].zone = sniper[s].zone /\ (s # f => rows[s] = sniper[s])
    BY <2>2, SegmentInputs, TriggeredRows
  <2> HIDE DEF rows
  <2>4. \A s \in walk[w].todo : s < nextSniper /\ rows[s].status = "pending" /\ fires[s] = 0
    BY <2>1, <2>3, SegmentInputs DEF TodoUndecided
  <2>5. \A s \in pending : (rows[s].status = "pending" /\ fires[s] = 0) \/ rows[s].zone \in walk[w].drop
    <3> TAKE s \in pending
    <3>1. s \in Snipers
      BY SegmentInputs
    <3>2. (sniper[s].status = "pending" /\ fires[s] = 0) \/ rows[s].zone \in walk[w].drop
      BY <2>1, <2>2, <2>3, <3>1 DEF PoolUndecided
    <3>3. CASE s = f
      BY <2>1, <2>3, <3>1, <3>3 DEF TodoUndecided
    <3> QED
      BY <2>3, <3>1, <3>2, <3>3
  <2>6. \A s \in Snipers : sniper[s].status \notin {"none", "pending"} =>
                              rows[s].status = sniper[s].status
    BY <2>1, <2>3 DEF TodoUndecided
  <2> QED
    BY <2>1, <2>3, <2>4, <2>5, <2>6, SegmentInputs, ProceedSerial
<1>4. ASSUME NEW s \in Snipers, AgeOut(s) PROVE Rest
  BY <1>4 DEF AgeOut, storeVars, TodoUndecided, PoolUndecided, FiredExist, FiresOnce, FateStep
<1>5. ASSUME Restart PROVE Rest
  <2>1. \A w \in Walks : walk'[w] = Free
    BY <1>5 DEF Restart
  <2>2. /\ pending' = {s \in Snipers : sniper[s].status = "pending"} /\ ~warm'
        /\ sniper' = sniper /\ nextSniper' = nextSniper /\ fires' = fires
    BY <1>5 DEF Restart, storeVars
  <2>3. TodoUndecided'
    BY <2>1 DEF Free, TodoUndecided
  <2>4. PoolUndecided'
    BY <2>2 DEF PoolUndecided
  <2>5. FiredExist' /\ FiresOnce' /\ FateStep
    BY <2>2 DEF FiredExist, FiresOnce, FateStep
  <2> QED
    BY <2>3, <2>4, <2>5
<1>6. ASSUME UNCHANGED vars PROVE Rest
  BY <1>6 DEF vars, storeVars, TodoUndecided, PoolUndecided, FiredExist, FiresOnce, FateStep
<1>7. Rest
  <2> HIDE DEF Rest, Serial
  <2> QED
    BY <1>1, <1>2, <1>3, <1>4, <1>5, <1>6 DEF Next
<1> QED
  BY <1>0, <1>7

\* With walks that do not overlap, a sniper is handed to the order manager at
\* most once, however often the process restarts.
THEOREM SniperFiresOnce ==
  ASSUME OneWalk
  PROVE  Spec => []FiresOnce
<1>1. Serial => FiresOnce
  BY DEF Serial
<1>2. Serial /\ [Next]_vars => Serial'
  BY NextSerial
<1> QED
  BY <1>1, <1>2, InitSerial, PTL DEF Spec

\* With walks that do not overlap, a stored fate is never overwritten.
THEOREM StoredFateIsFinal ==
  ASSUME OneWalk
  PROVE  Spec => FateIsFinal
<1>1. Serial /\ [Next]_vars => Serial' /\ [FateStep]_vars
  BY NextSerial
<1>2. [FateStep]_vars <=>
        [\A s \in Snipers :
           sniper[s].status \notin {"none", "pending"} => sniper'[s].status = sniper[s].status]_vars
  BY DEF FateStep
<1> QED
  BY <1>1, <1>2, InitSerial, PTL DEF Spec, FateIsFinal
=============================================================================
