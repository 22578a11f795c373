---------------------------- MODULE OrderManager ----------------------------
(***************************************************************************)
(* The live engine's order manager (src/live/order_manager.py) together    *)
(* with the handler that drives it (main._on_sniper).                      *)
(*                                                                         *)
(* Every walk of the bar loop that fires a sniper invokes the handler; a   *)
(* CALL is one such invocation.  The engine is one asyncio thread, so what *)
(* a call does between two awaits is one step here, and calls interleave   *)
(* only at the broker round trips.  A round trip is two steps: the broker  *)
(* answers (it may execute the order and still have its answer lost), and  *)
(* the call resumes with the answer.  The tables of the SQLite store       *)
(* survive Restart; the manager's dictionaries and its calls do not.       *)
(***************************************************************************)
EXTENDS Naturals, FiniteSets

CONSTANTS
  Calls,          \* handler invocations, concurrent or one after the other
  Snipers,        \* sniper ids (pending_snipers.sniper_id)
  SniperOf,       \* the sniper a call was invoked for
  MaxOpenTrades,  \* cfg.max_open_trades
  Attempts,       \* the retry budget of _submit_with_retry
  Faults,         \* answers that hide whether the broker executed the order
  Concurrency,    \* how many calls may be in flight together
  MaxRestarts     \* bound: process restarts explored

\* What a call can resume with: an acknowledgement, an API error with a permanent
\* code, any other API error, an exception of the HTTP layer ("none": it waits).
Answers == {"none", "ack", "permanent", "transient", "network"}

ASSUME ConstantsAssumption ==
  /\ SniperOf \in [Calls -> Snipers]
  /\ MaxOpenTrades \in Nat
  /\ Attempts \in Nat \ {0}
  /\ Faults \subseteq {"transient", "network"}
  /\ Concurrency \in Nat
  /\ MaxRestarts \in Nat

LegTypes == {"STOP_MARKET", "TAKE_PROFIT_MARKET"}

\* A stop-loss or take-profit order is named by the call that attached it: its
\* client order id is a fresh uuid, so two calls never share one.
Legs == Calls \X LegTypes

EntryStatus == {"none", "new", "filled", "rejected", "error"}
LegStatus   == {"none", "new", "NEW", "rejected"}
Phases == {"todo", "entry_send", "entry_reply", "leg_send", "leg_reply",
           "done"}

VARIABLES
  \* the store: survives a restart
  entryRow,     \* orders row of a sniper's MARKET order, by its client id
  legRow,       \* orders row of a stop-loss or take-profit order
  frozen,       \* failsafe broker_reject_freeze is active
  \* the process: lost by a restart
  openEntries,  \* entry orders among the keys of OrderManager._open
  openLegs,     \* leg orders among the keys of OrderManager._open
  call,         \* where each call is, with its locals
  restarts,     \* restarts so far
  \* the broker: outside the program
  seen,         \* client ids of the market orders it executed
  fills,        \* market orders executed for a sniper
  positions,    \* snipers whose position is open
  resting       \* legs working at the broker

storeVars   == <<entryRow, legRow, frozen>>
openVars    == <<openEntries, openLegs>>
brokerVars  == <<seen, fills, positions, resting>>
vars == <<storeVars, openVars, call, brokerVars, restarts>>

\* The states of a call.  Locals that no longer matter have a fixed value.
CallStates == [pc : Phases, attempt : 1..Attempts, leg : LegTypes, answer : Answers]

CallAt(phase, n, type, a) == [pc |-> phase, attempt |-> n, leg |-> type, answer |-> a]

NotCalled        == CallAt("todo", 1, "STOP_MARKET", "none")
EntrySent(n)     == CallAt("entry_send", n, "STOP_MARKET", "none")
EntryReply(n, a) == CallAt("entry_reply", n, "STOP_MARKET", a)
LegSent(type)    == CallAt("leg_send", 1, type, "none")
LegReply(type, a) == CallAt("leg_reply", 1, type, a)
Returned         == CallAt("done", 1, "STOP_MARKET", "none")

TypeOK ==
  /\ entryRow \in [Snipers -> EntryStatus]
  /\ legRow \in [Legs -> LegStatus]
  /\ frozen \in BOOLEAN
  /\ openEntries \subseteq Snipers
  /\ openLegs \subseteq Legs
  /\ call \in [Calls -> CallStates]
  /\ restarts \in 0..MaxRestarts
  /\ seen \subseteq Snipers
  /\ fills \in [Snipers -> Nat]
  /\ positions \subseteq Snipers
  /\ resting \subseteq Legs

Init ==
  /\ entryRow = [s \in Snipers |-> "none"]
  /\ legRow = [l \in Legs |-> "none"]
  /\ frozen = FALSE
  /\ openEntries = {}
  /\ openLegs = {}
  /\ call = [c \in Calls |-> NotCalled]
  /\ restarts = 0
  /\ seen = {}
  /\ fills = [s \in Snipers |-> 0]
  /\ positions = {}
  /\ resting = {}

-----------------------------------------------------------------------------
InFlight(c) == call[c].pc \notin {"todo", "done"}

\* Calls whose market order is not settled.
Entering == {c \in Calls : call[c].pc \in {"entry_send", "entry_reply"}}

\* A call can enter the handler while fewer than Concurrency are inside.
MayEnter(c) ==
  /\ call[c] = NotCalled
  /\ Cardinality({d \in Calls : InFlight(d)}) < Concurrency

\* The two guards at the head of submit_sniper_market.  len(_open) counts the
\* entries and the legs attached to them alike.
OpenCount == Cardinality(openEntries) + Cardinality(openLegs)
Admits == OpenCount < MaxOpenTrades /\ ~frozen

\* Mutant: a failed submission counts as submitted.
SubmittedOrFailed(s) == entryRow[s] \in {"new", "filled", "error"}

\* Mutant: a filled order does not stop a second submission.
SubmittedUnlessFilled(s) == entryRow[s] = "new"

\* Order rows that stop a second submission of the same sniper.  The statuses
\* 'submitted' and 'partially_filled' are never given to a MARKET order.
Submitted(s) == entryRow[s] \in {"new", "filled"}

\* Mutant: the attempt number becomes part of the client order id.
EntryIdPerAttempt(c) == <<SniperOf[c], call[c].attempt>>

\* The deterministic client order id of a call's MARKET order.
EntryId(c) == SniperOf[c]

\* Mutant: the row is written only when the answer is there.
PersistNothing(s) == s \in Snipers /\ UNCHANGED entryRow

\* The row a submission goes out under: a new one, or the row of an earlier
\* rejected or failed submission, which keeps its status until the answer.
PersistIntent(s) ==
  entryRow' = [entryRow EXCEPT ![s] = IF entryRow[s] = "none" THEN "new" ELSE @]

\* _submit_close_position_trigger up to its await: the row is inserted as 'new'
\* under a fresh id, then the request goes out.
StartLeg(c, type, rows) ==
  /\ legRow' = [rows EXCEPT ![<<c, type>>] = "new"]
  /\ call' = [call EXCEPT ![c] = LegSent(type)]

\* The handler or a guard turns the sniper down: a stale feed, the daily loss
\* limit, max_open_trades or the reject freeze.  Nothing is submitted.
RefuseSniper(c) ==
  /\ MayEnter(c)
  /\ call' = [call EXCEPT ![c] = Returned]
  /\ UNCHANGED <<storeVars, openVars, brokerVars, restarts>>

\* An order of this sniper is on record as in flight or filled: the call takes
\* it for its own and goes straight on to attach a stop loss.
AdoptOrder(c) ==
  /\ MayEnter(c)
  /\ Admits
  /\ Submitted(SniperOf[c])
  /\ openEntries' = openEntries \cup {SniperOf[c]}
  /\ StartLeg(c, "STOP_MARKET", legRow)
  /\ UNCHANGED <<entryRow, frozen, openLegs, brokerVars, restarts>>

SubmitSniperMarket(c) ==
  /\ MayEnter(c)
  /\ Admits
  /\ ~Submitted(SniperOf[c])
  /\ PersistIntent(SniperOf[c])
  /\ call' = [call EXCEPT ![c] = EntrySent(1)]
  /\ UNCHANGED <<legRow, frozen, openVars, brokerVars, restarts>>

-----------------------------------------------------------------------------
(* The broker, as the code relies on it: it remembers client order ids.    *)

\* A market order under a new client id executes.  The call may still see a
\* server error or a dead connection instead of the acknowledgement.
BrokerExecutesEntry(c) ==
  /\ call[c].pc = "entry_send"
  /\ EntryId(c) \notin seen
  /\ seen' = seen \cup {EntryId(c)}
  /\ fills' = [fills EXCEPT ![SniperOf[c]] = @ + 1]
  /\ positions' = positions \cup {SniperOf[c]}
  /\ \E a \in {"ack"} \cup Faults :
       call' = [call EXCEPT ![c] = EntryReply(call[c].attempt, a)]
  /\ UNCHANGED <<storeVars, openVars, resting, restarts>>

\* Nothing executes: a business reject, a server error, a lost request, or the
\* duplicate-id error, whose code is not among PERMANENT_REJECT_CODES.
BrokerRefusesEntry(c) ==
  /\ call[c].pc = "entry_send"
  /\ \E a \in {"transient", "permanent"} \cup Faults :
       /\ a = "permanent" => EntryId(c) \notin seen
       /\ call' = [call EXCEPT ![c] = EntryReply(call[c].attempt, a)]
  /\ UNCHANGED <<storeVars, openVars, brokerVars, restarts>>

BrokerAcceptsLeg(c) ==
  /\ call[c].pc = "leg_send"
  /\ resting' = resting \cup {<<c, call[c].leg>>}
  /\ \E a \in {"ack"} \cup Faults :
       call' = [call EXCEPT ![c] = LegReply(call[c].leg, a)]
  /\ UNCHANGED <<storeVars, openVars, seen, fills, positions, restarts>>

BrokerRefusesLeg(c) ==
  /\ call[c].pc = "leg_send"
  /\ \E a \in {"permanent"} \cup Faults :
       call' = [call EXCEPT ![c] = LegReply(call[c].leg, a)]
  /\ UNCHANGED <<storeVars, openVars, brokerVars, restarts>>

\* The mark price crosses a leg's trigger: closePosition=true flattens the
\* symbol.  The broker may or may not drop the legs that are left.
LegTriggers(l) ==
  /\ l \in resting
  /\ positions # {}
  /\ positions' = {}
  /\ resting' \in {resting \ {l}, {}}
  /\ UNCHANGED <<storeVars, openVars, call, seen, fills, restarts>>

-----------------------------------------------------------------------------
(* A call resumes with the broker's answer to its market order.            *)

EntryAnswered(c, answers) ==
  /\ call[c].pc = "entry_reply"
  /\ call[c].answer \in answers

\* Mutant: a fill is not added to the open orders.
EntryAckedUntracked(c) ==
  /\ EntryAnswered(c, {"ack"})
  /\ entryRow' = [entryRow EXCEPT ![SniperOf[c]] = "filled"]
  /\ StartLeg(c, "STOP_MARKET", legRow)
  /\ UNCHANGED <<frozen, openVars, brokerVars, restarts>>

EntryAcked(c) ==
  /\ EntryAnswered(c, {"ack"})
  /\ entryRow' = [entryRow EXCEPT ![SniperOf[c]] = "filled"]
  /\ openEntries' = openEntries \cup {SniperOf[c]}
  /\ StartLeg(c, "STOP_MARKET", legRow)
  /\ UNCHANGED <<frozen, openLegs, brokerVars, restarts>>

\* Mutant: one attempt too many.
EntryRetriedOnceMore(c) ==
  /\ EntryAnswered(c, {"transient"})
  /\ call[c].attempt <= Attempts
  /\ call' = [call EXCEPT ![c] = EntrySent(call[c].attempt + 1)]
  /\ UNCHANGED <<storeVars, openVars, brokerVars, restarts>>

\* Mutant: the attempts are not counted.
EntryRetriedForever(c) ==
  /\ EntryAnswered(c, {"transient"})
  /\ call' = [call EXCEPT ![c] = EntrySent(call[c].attempt)]
  /\ UNCHANGED <<storeVars, openVars, brokerVars, restarts>>

EntryRetried(c) ==
  /\ EntryAnswered(c, {"transient"})
  /\ call[c].attempt < Attempts
  /\ call' = [call EXCEPT ![c] = EntrySent(call[c].attempt + 1)]
  /\ UNCHANGED <<storeVars, openVars, brokerVars, restarts>>

\* Mutant: when the attempts are used up the order is taken for a duplicate of
\* one that filled.
EntryRejectedAsFilled(c) ==
  /\ EntryAnswered(c, {"permanent", "transient"})
  /\ call[c].answer = "permanent" \/ call[c].attempt = Attempts
  /\ entryRow' = [entryRow EXCEPT ![SniperOf[c]] =
                    IF call[c].answer = "transient" THEN "filled" ELSE "rejected"]
  /\ frozen' = TRUE
  /\ call' = [call EXCEPT ![c] = Returned]
  /\ UNCHANGED <<legRow, openVars, brokerVars, restarts>>

\* A permanent code, or the last attempt failed: OrderRejected.
EntryRejected(c) ==
  /\ EntryAnswered(c, {"permanent", "transient"})
  /\ call[c].answer = "permanent" \/ call[c].attempt = Attempts
  /\ entryRow' = [entryRow EXCEPT ![SniperOf[c]] = "rejected"]
  /\ frozen' = TRUE
  /\ call' = [call EXCEPT ![c] = Returned]
  /\ UNCHANGED <<legRow, openVars, brokerVars, restarts>>

\* Mutant: an order whose fate is unknown is counted as open.
EntryErroredCounted(c) ==
  /\ EntryAnswered(c, {"network"})
  /\ entryRow' = [entryRow EXCEPT ![SniperOf[c]] = "error"]
  /\ openEntries' = openEntries \cup {SniperOf[c]}
  /\ call' = [call EXCEPT ![c] = Returned]
  /\ UNCHANGED <<legRow, frozen, openLegs, brokerVars, restarts>>

\* An exception of the HTTP layer is no BinanceAPIError: it is not retried and
\* raises no freeze.
EntryErrored(c) ==
  /\ EntryAnswered(c, {"network"})
  /\ entryRow' = [entryRow EXCEPT ![SniperOf[c]] = "error"]
  /\ call' = [call EXCEPT ![c] = Returned]
  /\ UNCHANGED <<legRow, frozen, openVars, brokerVars, restarts>>

-----------------------------------------------------------------------------
(* A call resumes with the broker's answer to a leg.                       *)

LegAnswered(c, answers) ==
  /\ call[c].pc = "leg_reply"
  /\ call[c].answer \in answers

\* The leg's row takes its outcome.  After the stop loss the take profit is
\* submitted, whether or not the broker took the stop loss; after the take
\* profit the handler returns.
SettleLeg(c, status) ==
  LET rows == [legRow EXCEPT ![<<c, call[c].leg>>] = status] IN
  \/ /\ call[c].leg = "STOP_MARKET"
     /\ StartLeg(c, "TAKE_PROFIT_MARKET", rows)
  \/ /\ call[c].leg = "TAKE_PROFIT_MARKET"
     /\ legRow' = rows
     /\ call' = [call EXCEPT ![c] = Returned]

LegAcked(c) ==
  /\ LegAnswered(c, {"ack"})
  /\ openLegs' = openLegs \cup {<<c, call[c].leg>>}
  /\ SettleLeg(c, "NEW")
  /\ UNCHANGED <<entryRow, frozen, openEntries, brokerVars, restarts>>

\* Mutant: a refused leg goes on record as placed.
LegRejectedAsPlaced(c) ==
  /\ LegAnswered(c, {"permanent", "transient"})
  /\ SettleLeg(c, "NEW")
  /\ UNCHANGED <<entryRow, frozen, openVars, brokerVars, restarts>>

LegRejected(c) ==
  /\ LegAnswered(c, {"permanent", "transient"})
  /\ SettleLeg(c, "rejected")
  /\ UNCHANGED <<entryRow, frozen, openVars, brokerVars, restarts>>

\* The exception leaves the handler: the row stays 'new' and a take profit that
\* was still to come is never submitted.
LegErrored(c) ==
  /\ LegAnswered(c, {"network"})
  /\ call' = [call EXCEPT ![c] = Returned]
  /\ UNCHANGED <<storeVars, openVars, brokerVars, restarts>>

-----------------------------------------------------------------------------
\* The sixty seconds of broker_reject_freeze run out.
FreezeExpires ==
  /\ frozen
  /\ frozen' = FALSE
  /\ UNCHANGED <<entryRow, legRow, openVars, call, brokerVars, restarts>>

\* The process dies and comes back with an empty manager: __init__ loads no
\* order from the store.
ProcessLost ==
  /\ restarts < MaxRestarts
  /\ restarts' = restarts + 1
  /\ openEntries' = {}
  /\ openLegs' = {}
  /\ call' = [c \in Calls |-> IF InFlight(c) THEN Returned ELSE call[c]]
  /\ UNCHANGED brokerVars

\* It dies while its calls wait.
Restart == ProcessLost /\ UNCHANGED storeVars

\* Every write of the store commits by itself.  A resumption that makes two of them
\* (the outcome, then the row of the next leg or the freeze) can die in between: the
\* outcome of the entry or of the stop loss is on record, and nothing that follows.
DiesBetweenWrites(c) ==
  /\ \/ /\ EntryAnswered(c, {"ack"})
        /\ entryRow' = [entryRow EXCEPT ![SniperOf[c]] = "filled"]
        /\ UNCHANGED legRow
     \/ /\ EntryAnswered(c, {"permanent", "transient"})
        /\ call[c].answer = "permanent" \/ call[c].attempt = Attempts
        /\ entryRow' = [entryRow EXCEPT ![SniperOf[c]] = "rejected"]
        /\ UNCHANGED legRow
     \/ /\ LegAnswered(c, {"ack", "permanent", "transient"})
        /\ call[c].leg = "STOP_MARKET"
        /\ legRow' = [legRow EXCEPT ![<<c, "STOP_MARKET">>] =
                        IF call[c].answer = "ack" THEN "NEW" ELSE "rejected"]
        /\ UNCHANGED entryRow
  /\ ProcessLost
  /\ UNCHANGED frozen

Enter(c) == RefuseSniper(c) \/ AdoptOrder(c) \/ SubmitSniperMarket(c)

BrokerAnswers(c) ==
  \/ BrokerExecutesEntry(c) \/ BrokerRefusesEntry(c)
  \/ BrokerAcceptsLeg(c) \/ BrokerRefusesLeg(c)

Resume(c) ==
  \/ EntryAcked(c) \/ EntryRetried(c) \/ EntryRejected(c) \/ EntryErrored(c)
  \/ LegAcked(c) \/ LegRejected(c) \/ LegErrored(c)

Next ==
  \/ \E c \in Calls : Enter(c) \/ BrokerAnswers(c) \/ Resume(c)
  \/ \E l \in Legs : LegTriggers(l)
  \/ FreezeExpires
  \/ Restart
  \/ \E c \in Calls : DiesBetweenWrites(c)

Spec == Init /\ [][Next]_vars

\* The HTTP client bounds every round trip (a total timeout of 30 seconds) and
\* the event loop resumes every call whose answer is there.
Fairness == \A c \in Calls : WF_vars(BrokerAnswers(c)) /\ WF_vars(Resume(c))

FairSpec == Spec /\ Fairness

-----------------------------------------------------------------------------
(* Properties.                                                             *)

\* A crash at any await leaves a record: whatever the broker executed or keeps
\* working has a row in the store ("Persist as 'new' BEFORE broker call").
RecordedBeforeBroker ==
  /\ \A s \in Snipers : fills[s] > 0 => entryRow[s] # "none"
  /\ \A l \in resting : legRow[l] # "none"

\* A row says 'filled' only when the broker executed that sniper's order.
FilledIsReal == \A s \in Snipers : entryRow[s] = "filled" => fills[s] = 1

\* An open position the manager does not count is explained: a call is still
\* settling it, its row records a failure, or the process has been restarted.
UntrackedIsExplained ==
  \A s \in positions \ openEntries :
    \/ \E c \in Entering : SniperOf[c] = s
    \/ entryRow[s] \in {"rejected", "error"}
    \/ restarts > 0

\* The store tells that a stop loss of an open position has to be looked after: the
\* entry is not on record as filled, or a stop loss for it is working at the broker or
\* has a row that is not settled or is rejected.
ToldByStore(s) ==
  entryRow[s] = "filled" =>
    \E c \in Calls :
      /\ SniperOf[c] = s
      /\ \/ <<c, "STOP_MARKET">> \in resting
         \/ legRow[<<c, "STOP_MARKET">>] \in {"new", "rejected"}

\* A position whose stop loss is not working at the broker can be told from the store,
\* whatever failed; each death of the process costs that of at most one position (the
\* one whose fill it had just written, with the row of the stop loss still to come).
UnprotectedIsOnRecord ==
  Cardinality({s \in positions : ~ToldByStore(s)}) <= restarts

\* However answers get lost, a call leaves the handler.
HandlerReturns == \A c \in Calls : InFlight(c) ~> ~InFlight(c)

\* The order manager keeps the promise of OrderLedger.
Ledger == INSTANCE OrderLedger WITH
  recorded   <- {s \in Snipers : entryRow[s] # "none"},
  executions <- fills

LedgerImplemented == Ledger!LedgerSpec

\* The keys of OrderManager._open ("Open positions: client_order_id ->
\* order_row") stand for orders the broker executed.
OpenMeansPosition == \A s \in openEntries : fills[s] = 1

\* A stop loss or take profit is submitted only after its entry has filled
\* ("both are attached after the entry fills").
LegsFollowFill ==
  \A l \in Legs : legRow[l] # "none" => entryRow[SniperOf[l[1]]] = "filled"

\* Positions open at the broker never exceed max_open_trades ("Max concurrent
\* open positions").
PositionsWithinCap == Cardinality(positions) <= MaxOpenTrades

\* No later call for the same sniper takes a fill back.
FilledIsFinal ==
  [][\A s \in Snipers : entryRow[s] = "filled" => entryRow'[s] = "filled"]_vars
=============================================================================
