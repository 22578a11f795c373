----------------------------- MODULE SniperPool -----------------------------
(***************************************************************************)
(* The live bar loop (src/live/live_backtest.py): fair-value-gap zones,    *)
(* the pending snipers that watch them, and the walks that fire snipers.   *)
(*                                                                         *)
(* on_bar runs to its end without awaiting and then creates a task for     *)
(* _walk_pending_snipers; nothing waits for that task, so the walk of one  *)
(* bar may still be awaiting the handler of a sniper when the walks of     *)
(* later bars run.  A step of a walk is what it does up to its next await. *)
(* Restart models a process that dies and resumes from the store.          *)
(***************************************************************************)
EXTENDS Naturals, FiniteSets, FiniteSetsExt

CONSTANTS
  Directions,   \* of a zone: bull (+1) and bear (-1)
  Walks,        \* walk tasks that may be alive together
  MaxZone,      \* bound: zone ids handed out
  MaxSniper,    \* bound: rows of pending_snipers
  MaxRestarts   \* bound: process restarts explored

ASSUME ConstantsAssumption ==
  /\ Directions # {}
  /\ MaxZone \in Nat
  /\ MaxSniper \in Nat
  /\ MaxRestarts \in Nat

ZoneIds == 1..MaxZone
Snipers == 1..MaxSniper
AnyDirection == CHOOSE d \in Directions : TRUE

\* What the walk reads of a zone object.  "dead" is superseded, played out or
\* expired, whether or not the zone inverted before.
Phases == {"active", "inverted", "dead"}

VARIABLES
  \* the store
  sniper,     \* pending_snipers: status, zone_id, direction
  zoneRow,    \* fvg_zones: whether there is a row, its direction, its live flag
  nextSniper, \* the next sniper_id (AUTOINCREMENT)
  \* the process
  zone,       \* _zones_by_id; "tracked" zones are also in _zones
  nextZone,   \* _next_zone_id, the last id handed out
  warm,       \* a walk has run, so the window can hold three detector candles
  pending,    \* the snipers in _pending, each under its zone id
  walk,       \* the walk tasks
  \* the environment, and history
  aged,       \* snipers older than sniper_max_age_secs
  fires,      \* how often a sniper was handed to on_sniper (counted to 2)
  restarts

storeVars   == <<sniper, zoneRow, nextSniper>>
zoneVars    == <<zone, nextZone>>
vars == <<storeVars, zoneVars, warm, pending, walk, aged, fires, restarts>>

\* "wide": not narrower than fvg_inv_trade_min_zone_usd.
ZoneObjects == [dir : Directions, wide : BOOLEAN, phase : {"none"} \cup Phases, tracked : BOOLEAN]

NoZone    == [dir |-> AnyDirection, wide |-> TRUE, phase |-> "none", tracked |-> FALSE]
NoZoneRow == [stored |-> FALSE, dir |-> AnyDirection, live |-> FALSE]
NoSniper  == [status |-> "none", zone |-> 0, dir |-> AnyDirection]

\* A walk: the snipers of its snapshot it has still to look at, the zones it
\* will drop at its end, the sniper whose handler it awaits, and the snipers
\* that were too old when it read the clock.
Free == [pc |-> "free", todo |-> {}, drop |-> {}, firing |-> 0, old |-> {}]

TypeOK ==
  /\ sniper \in [Snipers -> [status : {"none", "pending", "triggered", "cancelled", "expired"},
                             zone : {0} \cup ZoneIds, dir : Directions]]
  /\ zoneRow \in [ZoneIds -> [stored : BOOLEAN, dir : Directions, live : BOOLEAN]]
  /\ nextSniper \in 1..(MaxSniper + 1)
  /\ zone \in [ZoneIds -> ZoneObjects]
  /\ nextZone \in 0..MaxZone
  /\ warm \in BOOLEAN
  /\ pending \subseteq Snipers
  /\ walk \in [Walks -> [pc : {"free", "ready", "await"}, todo : SUBSET Snipers,
                         drop : SUBSET ZoneIds, firing : {0} \cup Snipers, old : SUBSET Snipers]]
  /\ aged \subseteq Snipers
  /\ fires \in [Snipers -> 0..2]
  /\ restarts \in 0..MaxRestarts

Init ==
  /\ sniper = [s \in Snipers |-> NoSniper]
  /\ zoneRow = [z \in ZoneIds |-> NoZoneRow]
  /\ nextSniper = 1
  /\ zone = [z \in ZoneIds |-> NoZone]
  /\ nextZone = 0
  /\ warm = FALSE
  /\ pending = {}
  /\ walk = [w \in Walks |-> Free]
  /\ aged = {}
  /\ fires = [s \in Snipers |-> 0]
  /\ restarts = 0

-----------------------------------------------------------------------------
(* on_bar: _refresh_zones, _intercept_new_signals, and a new walk task.    *)
(*                                                                         *)
(* Every bar re-detects all zones over the window, and a zone keeps its id *)
(* when its key (bar index, direction, bounds) is unchanged.  Keys do      *)
(* change: the last, unfinished candle moves with every bar, and so does   *)
(* the whole window once the ring buffer is full.  So any zone may be lost *)
(* on a bar, and one that is matched takes whatever lifecycle fields the   *)
(* detector now computes for it (a supersession can be taken back).        *)

Tracked == {z \in ZoneIds : zone[z].tracked}

\* Mutant: the object of a zone the detector no longer reports is deleted.
DeleteZone(obj) == IF obj.tracked THEN NoZone ELSE obj

\* A zone the detector no longer reports: its object stays in _zones_by_id.
LoseZone(obj) == [obj EXCEPT !.tracked = FALSE]

\* Mutant: ids are counted from one on every bar.
RecountedZoneIds(n) == IF n > 0 THEN 1..n ELSE {}

\* The ids given to the n zones whose key is new on this bar.
FreshZoneIds(n) == (nextZone + 1)..(nextZone + n)

NewZones == [dir : Directions, wide : BOOLEAN, phase : Phases, tracked : {TRUE}]

\* The zone objects after a bar that reports the known zones of DOMAIN seen with
\* the phases seen, and the new zones found.
Refreshed(seen, found) ==
  [z \in ZoneIds |->
     IF z \in DOMAIN found THEN found[z]
     ELSE IF z \in DOMAIN seen THEN [zone[z] EXCEPT !.phase = seen[z]]
     ELSE LoseZone(zone[z])]

\* upsert_zone: an existing row keeps its direction (and its bounds).
UpsertedRow(row, obj, live) ==
  [stored |-> TRUE, dir |-> IF row.stored THEN row.dir ELSE obj.dir, live |-> live]

\* All of _zones is upserted.  An inversion by price leaves the zone live, one
\* by a structure event does not.
PersistZones(objs) ==
  \E kept \in SUBSET {z \in ZoneIds : objs[z].tracked /\ objs[z].phase = "inverted"} :
    zoneRow' = [z \in ZoneIds |->
      IF objs[z].tracked
      THEN UpsertedRow(zoneRow[z], objs[z], objs[z].phase = "active" \/ z \in kept)
      ELSE zoneRow[z]]

\* A new zone may be born on this very bar; it is the last of the new ones, and
\* nothing has happened to it yet.  A sniper is put in the pool of its id,
\* unless that pool holds one already.
InterceptNewSignals(found) ==
  LET z == Max({0} \cup DOMAIN found) IN
  \/ UNCHANGED <<sniper, nextSniper, pending>>  \* born on an earlier bar, or none
  \/ /\ z # 0
     /\ found[z].phase = "active"
     /\ \A s \in pending : sniper[s].zone # z
     /\ nextSniper <= MaxSniper
     /\ sniper' = [sniper EXCEPT ![nextSniper] =
          [status |-> "pending", zone |-> z, dir |-> found[z].dir]]
     /\ pending' = pending \cup {nextSniper}
     /\ nextSniper' = nextSniper + 1

\* The walk task of a bar: created, and not awaited.
CreateWalk(w) ==
  /\ walk[w].pc = "free"
  /\ walk' = [walk EXCEPT ![w].pc = "ready"]

\* A bar.  Walks run from the fiftieth bar on, while a zone needs three detector
\* candles of sixty bars: the first walk of a process comes before any zone.
OnBar(w) ==
  /\ CreateWalk(w)
  /\ \E n \in 0..(MaxZone - nextZone), lost \in SUBSET Tracked :
     \E seen \in [Tracked \ lost -> Phases], found \in [FreshZoneIds(n) -> NewZones] :
       /\ n > 0 => warm
       /\ zone' = Refreshed(seen, found)
       /\ PersistZones(zone')
       /\ nextZone' = nextZone + n
       /\ InterceptNewSignals(found)
  /\ UNCHANGED <<warm, aged, fires, restarts>>

-----------------------------------------------------------------------------
(* _walk_pending_snipers.                                                  *)

\* Mutant: the age cap is not applied.
VerdictAgeless(obj, tooOld) ==
  IF obj.phase = "active" THEN "pending"
  ELSE IF obj.phase = "inverted" /\ obj.wide THEN "triggered" ELSE "cancelled"

\* What the walk decides about a sniper, in the order of its tests.
Verdict(obj, tooOld) ==
  IF obj.phase = "dead" THEN "cancelled"
  ELSE IF tooOld THEN "expired"
  ELSE IF obj.phase = "active" THEN "pending"
  ELSE IF obj.wide THEN "triggered" ELSE "cancelled"

\* Mutant: a walk that fired leaves the pool as it is.
UndroppedZones(zs) == {}

\* The keys of _pending popped at the end of a walk.
DroppedZones(zs) == zs

\* The walk goes on from a state of its snapshot: it writes the verdicts and
\* puts back the undecided snipers, until one fires or it is done.  A zone
\* without an object is dropped with no verdict on its sniper.  Ids of snipers
\* grow with the ids of their zones, so the order of the snapshot is theirs.
Proceed(w, todo, drop, old, rows) ==
  LET known    == {s \in todo : zone[rows[s].zone].phase # "none"}
      verdict  == [s \in known |-> Verdict(zone[rows[s].zone], s \in old)]
      firing   == {s \in known : verdict[s] = "triggered"}
      passed   == {s \in todo : \A f \in firing : s < f}
      kept     == {s \in passed \cap known : verdict[s] = "pending"}
      dropping == drop \cup {rows[s].zone : s \in passed \ kept}
  IN /\ sniper' = [s \in Snipers |->
          IF s \in (passed \cap known) \ kept
          THEN [rows[s] EXCEPT !.status = verdict[s]] ELSE rows[s]]
     /\ \/ /\ firing = {}
           /\ pending' = {s \in pending \cup kept : rows[s].zone \notin DroppedZones(dropping)}
           /\ walk' = [walk EXCEPT ![w] = Free]
           /\ UNCHANGED fires
        \/ /\ firing # {}
           /\ pending' = pending \cup kept
           /\ LET s == Min(firing) IN
              /\ walk' = [walk EXCEPT ![w] =
                   [pc |-> "await", todo |-> {r \in todo : r > s},
                    drop |-> dropping \cup {rows[s].zone}, firing |-> s, old |-> old]]
              /\ fires' = [fires EXCEPT ![s] = IF @ < 2 THEN @ + 1 ELSE @]

\* The task starts: it reads the clock and takes its snapshot of _pending.
WalkStarts(w) ==
  /\ walk[w].pc = "ready"
  /\ Proceed(w, pending, {}, aged, sniper)
  /\ warm' = TRUE
  /\ UNCHANGED <<zoneRow, nextSniper, zoneVars, aged, restarts>>

\* Mutant: a status no other code knows.
FiredRow(s) == [sniper EXCEPT ![s].status = "fired"]

\* The row of a sniper whose handler returned or raised.
TriggeredRow(s) == [sniper EXCEPT ![s].status = "triggered"]

\* The handler has returned or raised: the sniper is 'triggered' either way,
\* and the walk goes on with the rest of its snapshot.
HandlerReturned(w) ==
  /\ walk[w].pc = "await"
  /\ Proceed(w, walk[w].todo, walk[w].drop, walk[w].old, TriggeredRow(walk[w].firing))
  /\ UNCHANGED <<zoneRow, nextSniper, zoneVars, warm, aged, restarts>>

-----------------------------------------------------------------------------
\* A pending sniper passes sniper_max_age_secs.
AgeOut(s) ==
  /\ sniper[s].status = "pending"
  /\ s \notin aged
  /\ aged' = aged \cup {s}
  /\ UNCHANGED <<storeVars, zoneVars, warm, pending, walk, fires, restarts>>

\* Where _load_persisted_state seeds the id counter from.
SeedZoneIds == {0} \cup {z \in ZoneIds : zoneRow[z].live}

\* The process dies and _load_persisted_state runs: pending rows come back
\* under their zone ids, the zone objects and the bars do not.
Restart ==
  /\ restarts < MaxRestarts
  /\ restarts' = restarts + 1
  /\ zone' = [z \in ZoneIds |-> NoZone]
  /\ nextZone' = Max(SeedZoneIds)
  /\ warm' = FALSE
  /\ pending' = {s \in Snipers : sniper[s].status = "pending"}
  /\ walk' = [w \in Walks |-> Free]
  /\ UNCHANGED <<storeVars, aged, fires>>

Next ==
  \/ \E w \in Walks : OnBar(w) \/ WalkStarts(w) \/ HandlerReturned(w)
  \/ \E s \in Snipers : AgeOut(s)
  \/ Restart

Spec == Init /\ [][Next]_vars

\* Bars keep closing (a step that creates a walk is a bar), the event loop runs
\* every task that is ready, the handler returns (OrderManager!HandlerReturns),
\* and time passes.
Fairness ==
  /\ WF_walk(\E w \in Walks : CreateWalk(w))
  /\ \A w \in Walks : WF_walk(WalkStarts(w) \/ HandlerReturned(w))
  /\ WF_aged(\E s \in Snipers : AgeOut(s))

FairSpec == Spec /\ Fairness

-----------------------------------------------------------------------------
(* Properties.                                                             *)

\* Every row that says 'pending' is watched by the process ("a process restart
\* mid-bar must not lose any open state").
NoLostSniper ==
  \A s \in Snipers : sniper[s].status = "pending" => s \in pending

\* A sniper that fires watches a zone of its own direction, so the trade goes
\* against the zone that inverted, also after zone ids have been reused.
FiresAgainstItsZone ==
  \A w \in Walks :
    LET s == walk[w].firing IN
    walk[w].pc = "await" => zone[sniper[s].zone].dir = sniper[s].dir

\* A sniper is handed to the order manager at most once ("not kept - fired").
FiresOnce == \A s \in Snipers : fires[s] <= 1

\* A sniper whose fate is stored keeps it.
FateIsFinal ==
  [][\A s \in Snipers :
       sniper[s].status \notin {"none", "pending"} => sniper'[s].status = sniper[s].status]_vars

\* Every pending sniper is settled: it fires, is cancelled, or expires.
Settled(s) == sniper[s].status = "pending" ~> sniper[s].status # "pending"
AllSettled == \A s \in Snipers : Settled(s)
=============================================================================
