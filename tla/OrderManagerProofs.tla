------------------------- MODULE OrderManagerProofs -------------------------
(***************************************************************************)
(* Theorems about OrderManager for any calls, snipers, caps, retry budgets *)
(* and faults. The inductive invariant relates the store, the calls and    *)
(* the broker: a call that is sending has its row, a client id the broker  *)
(* has seen is a sniper with one fill, an acknowledgement under way is for *)
(* an order that did execute. The last theorem bounds by how much          *)
(* overlapping calls exceed the limit on open positions.                   *)
(***************************************************************************)
EXTENDS OrderManager, FiniteSetTheorems, TLAPS

\* The broker has seen exactly the snipers whose order it executed, once.
SeenMeansFilled ==
  \A s \in Snipers : fills[s] = IF s \in seen THEN 1 ELSE 0

\* Whatever the broker executed, and whatever a call is sending, has a row.
EntriesRecorded ==
  /\ \A s \in seen : entryRow[s] # "none"
  /\ \A c \in Calls : call[c].pc \in {"entry_send", "entry_reply"}
                        => entryRow[SniperOf[c]] # "none"

LegsRecorded ==
  /\ \A l \in resting : legRow[l] # "none"
  /\ \A c \in Calls : call[c].pc \in {"leg_send", "leg_reply"}
                        => legRow[<<c, call[c].leg>>] # "none"

\* Acknowledgements are of executed orders, before and after the row says so.
AcksAreReal ==
  /\ \A c \in Calls : call[c].pc = "entry_reply" /\ call[c].answer = "ack"
                        => SniperOf[c] \in seen
  /\ \A s \in Snipers : entryRow[s] = "filled" => s \in seen

IInv ==
  /\ TypeOK
  /\ SeenMeansFilled
  /\ EntriesRecorded
  /\ LegsRecorded
  /\ AcksAreReal
  /\ UntrackedIsExplained

-----------------------------------------------------------------------------
\* The call states the actions build are call states.
LEMMA CallStatesTyped ==
  /\ NotCalled \in CallStates
  /\ Returned \in CallStates
  /\ \A n \in 1..Attempts : EntrySent(n) \in CallStates
  /\ \A n \in 1..Attempts, a \in Answers : EntryReply(n, a) \in CallStates
  /\ \A type \in LegTypes : LegSent(type) \in CallStates
  /\ \A type \in LegTypes, a \in Answers : LegReply(type, a) \in CallStates
BY ConstantsAssumption DEF NotCalled, Returned, EntrySent, EntryReply, LegSent,
   LegReply, CallAt, CallStates, Phases, LegTypes, Answers

\* The initial state satisfies the inductive invariant.
LEMMA InitIInv == Init => IInv
<1> SUFFICES ASSUME Init PROVE IInv
  OBVIOUS
<1> USE ConstantsAssumption DEF Init
<1>1. TypeOK
  <2>1. /\ entryRow \in [Snipers -> EntryStatus]
        /\ legRow \in [Legs -> LegStatus]
        /\ call \in [Calls -> CallStates]
        /\ fills \in [Snipers -> Nat]
    BY CallStatesTyped DEF EntryStatus, LegStatus
  <2>2. /\ openEntries \subseteq Snipers /\ openLegs \subseteq Legs
        /\ seen \subseteq Snipers /\ positions \subseteq Snipers
        /\ resting \subseteq Legs
    OBVIOUS
  <2>3. restarts \in 0..MaxRestarts
    OBVIOUS
  <2>4. frozen \in BOOLEAN
    OBVIOUS
  <2> QED
    BY <2>1, <2>2, <2>3, <2>4 DEF TypeOK
<1>2. SeenMeansFilled /\ EntriesRecorded /\ LegsRecorded
  BY DEF SeenMeansFilled, EntriesRecorded, LegsRecorded, NotCalled, CallAt
<1>3. AcksAreReal /\ UntrackedIsExplained
  BY DEF AcksAreReal, UntrackedIsExplained, NotCalled, CallAt
<1> QED
  BY <1>1, <1>2, <1>3 DEF IInv

\* Type correctness is preserved by every step.
LEMMA NextTypeOK == TypeOK /\ [Next]_vars => TypeOK'
<1> SUFFICES ASSUME TypeOK, [Next]_vars PROVE TypeOK'
  OBVIOUS
<1> USE ConstantsAssumption, CallStatesTyped DEF TypeOK
<1>1. ASSUME NEW c \in Calls, Enter(c) PROVE TypeOK'
  <2>1. CASE RefuseSniper(c)
    BY <2>1 DEF RefuseSniper, storeVars, openVars, brokerVars
  <2>2. CASE AdoptOrder(c)
    BY <2>2 DEF AdoptOrder, StartLeg, brokerVars, Legs, LegTypes, LegStatus
  <2>3. CASE SubmitSniperMarket(c)
    BY <2>3 DEF SubmitSniperMarket, PersistIntent, openVars, brokerVars, EntryStatus
  <2> QED
    BY <1>1, <2>1, <2>2, <2>3 DEF Enter
<1>2. ASSUME NEW c \in Calls, BrokerAnswers(c) PROVE TypeOK'
  <2> SUFFICES call' \in [Calls -> CallStates] /\ fills' \in [Snipers -> Nat]
               /\ seen' \subseteq Snipers /\ positions' \subseteq Snipers
               /\ resting' \subseteq Legs
               /\ UNCHANGED <<storeVars, openVars, restarts>>
    BY DEF storeVars, openVars
  <2>0. call[c] \in CallStates /\ call[c].attempt \in 1..Attempts /\ call[c].leg \in LegTypes
    BY DEF CallStates
  <2>00. {"ack", "transient", "permanent"} \cup Faults \subseteq Answers
    BY DEF Answers
  <2>1. CASE BrokerExecutesEntry(c)
    BY <2>0, <2>00, <2>1 DEF BrokerExecutesEntry, EntryId
  <2>2. CASE BrokerRefusesEntry(c)
    BY <2>0, <2>00, <2>2 DEF BrokerRefusesEntry, brokerVars
  <2>3. CASE BrokerAcceptsLeg(c)
    BY <2>0, <2>00, <2>3 DEF BrokerAcceptsLeg, Legs
  <2>4. CASE BrokerRefusesLeg(c)
    BY <2>0, <2>00, <2>4 DEF BrokerRefusesLeg, brokerVars
  <2> QED
    BY <1>2, <2>1, <2>2, <2>3, <2>4 DEF BrokerAnswers
<1>3. ASSUME NEW c \in Calls, Resume(c) PROVE TypeOK'
  <2>0. call[c].attempt \in 1..Attempts /\ call[c].leg \in LegTypes
    BY DEF CallStates
  <2>1. CASE EntryAcked(c)
    BY <2>1 DEF EntryAcked, StartLeg, brokerVars, EntryStatus, Legs, LegTypes, LegStatus
  <2>2. CASE EntryRetried(c)
    BY <2>0, <2>2 DEF EntryRetried, storeVars, openVars, brokerVars
  <2>3. CASE EntryRejected(c)
    BY <2>3 DEF EntryRejected, openVars, brokerVars, EntryStatus
  <2>4. CASE EntryErrored(c)
    BY <2>4 DEF EntryErrored, openVars, brokerVars, EntryStatus
  <2>5. ASSUME NEW status \in LegStatus, SettleLeg(c, status)
        PROVE legRow' \in [Legs -> LegStatus] /\ call' \in [Calls -> CallStates]
    <3> DEFINE rows == [legRow EXCEPT ![<<c, call[c].leg>>] = status]
               tp == <<c, "TAKE_PROFIT_MARKET">>
    <3>1. rows \in [Legs -> LegStatus]
      BY <2>0, <2>5 DEF Legs
    <3>2. "new" \in LegStatus /\ "TAKE_PROFIT_MARKET" \in LegTypes
      BY DEF LegStatus, LegTypes
    <3>3. \/ legRow' = [rows EXCEPT ![tp] = "new"] /\ call' = [call EXCEPT ![c] = LegSent("TAKE_PROFIT_MARKET")]
          \/ legRow' = rows /\ call' = [call EXCEPT ![c] = Returned]
      BY <2>5 DEF SettleLeg, StartLeg
    <3> HIDE DEF rows, tp
    <3> QED
      BY <3>1, <3>2, <3>3
  <2>6. CASE LegAcked(c)
    BY <2>0, <2>5, <2>6 DEF LegAcked, brokerVars, Legs, LegStatus
  <2>7. CASE LegRejected(c)
    BY <2>5, <2>7 DEF LegRejected, openVars, brokerVars, LegStatus
  <2>8. CASE LegErrored(c)
    BY <2>8 DEF LegErrored, storeVars, openVars, brokerVars
  <2> QED
    BY <1>3, <2>1, <2>2, <2>3, <2>4, <2>6, <2>7, <2>8 DEF Resume
<1>4. ASSUME NEW l \in Legs, LegTriggers(l) PROVE TypeOK'
  BY <1>4 DEF LegTriggers, storeVars, openVars
<1>5. CASE FreezeExpires
  BY <1>5 DEF FreezeExpires, openVars, brokerVars
<1>6. CASE Restart
  BY <1>6 DEF Restart, ProcessLost, storeVars, brokerVars
<1>7. ASSUME NEW c \in Calls, DiesBetweenWrites(c) PROVE TypeOK'
  <2>1. entryRow' \in [Snipers -> EntryStatus] /\ legRow' \in [Legs -> LegStatus]
    BY <1>7 DEF DiesBetweenWrites, EntryStatus, LegStatus
  <2> QED
    BY <1>7, <2>1 DEF DiesBetweenWrites, ProcessLost, brokerVars
<1>8. CASE UNCHANGED vars
  BY <1>8 DEF vars, storeVars, openVars, brokerVars
<1> QED
  BY <1>1, <1>2, <1>3, <1>4, <1>5, <1>6, <1>7, <1>8 DEF Next

\* Type correctness: every variable keeps its type in every behaviour.
THEOREM TypeCorrect == Spec => []TypeOK
<1>1. Init => TypeOK
  BY InitIInv DEF IInv
<1> QED
  BY <1>1, NextTypeOK, PTL DEF Spec

-----------------------------------------------------------------------------
\* The parts of the inductive invariant, one lemma for each way a step moves.

\* A call that enters touches no executed order and records what it sends.
LEMMA EnterIInv ==
  ASSUME IInv, NEW c \in Calls, Enter(c)
  PROVE  IInv'
<1> USE ConstantsAssumption DEF IInv
<1>0. TypeOK'
  BY NextTypeOK DEF Next
<1>1. CASE RefuseSniper(c)
  <2> USE <1>1 DEF RefuseSniper, storeVars, openVars, brokerVars, TypeOK, Returned, CallAt,
          MayEnter, NotCalled
  <2>1. SeenMeansFilled' /\ EntriesRecorded' /\ LegsRecorded'
    BY DEF SeenMeansFilled, EntriesRecorded, LegsRecorded
  <2>2. AcksAreReal'
    BY DEF AcksAreReal
  <2>3. UntrackedIsExplained'
    BY DEF UntrackedIsExplained, Entering
  <2> QED
    BY <1>0, <2>1, <2>2, <2>3
<1>2. CASE AdoptOrder(c)
  <2> USE <1>2 DEF AdoptOrder, StartLeg, brokerVars, TypeOK, LegSent, CallAt,
          MayEnter, NotCalled
  <2>1. SeenMeansFilled' /\ EntriesRecorded'
    BY DEF SeenMeansFilled, EntriesRecorded
  <2>2. LegsRecorded'
    BY DEF LegsRecorded, Legs, LegTypes, CallStates
  <2>3. AcksAreReal'
    BY DEF AcksAreReal
  <2>4. UntrackedIsExplained'
    BY DEF UntrackedIsExplained, Entering
  <2> QED
    BY <1>0, <2>1, <2>2, <2>3, <2>4
<1>3. CASE SubmitSniperMarket(c)
  <2> USE <1>3 DEF SubmitSniperMarket, PersistIntent, openVars, brokerVars, TypeOK,
          EntrySent, CallAt, MayEnter, NotCalled
  <2>1. SeenMeansFilled' /\ EntriesRecorded' /\ LegsRecorded'
    BY DEF SeenMeansFilled, EntriesRecorded, LegsRecorded
  <2>2. AcksAreReal'
    BY DEF AcksAreReal
  <2>3. UntrackedIsExplained'
    BY DEF UntrackedIsExplained, Entering
  <2> QED
    BY <1>0, <2>1, <2>2, <2>3
<1> QED
  BY <1>1, <1>2, <1>3 DEF Enter

\* The broker executes a sniper's order only while a call with a row is sending
\* it, and under a client id it has not seen.
LEMMA BrokerAnswersIInv ==
  ASSUME IInv, NEW c \in Calls, BrokerAnswers(c)
  PROVE  IInv'
<1> USE ConstantsAssumption DEF IInv
<1>0. TypeOK'
  BY NextTypeOK DEF Next
<1>1. CASE BrokerExecutesEntry(c)
  <2> USE <1>1 DEF BrokerExecutesEntry, EntryId, storeVars, openVars, TypeOK,
          EntryReply, CallAt
  <2>1. SeenMeansFilled'
    BY DEF SeenMeansFilled
  <2>2. EntriesRecorded' /\ LegsRecorded'
    BY DEF EntriesRecorded, LegsRecorded
  <2>3. AcksAreReal'
    BY DEF AcksAreReal
  <2>4. UntrackedIsExplained'
    BY DEF UntrackedIsExplained, Entering
  <2> QED
    BY <1>0, <2>1, <2>2, <2>3, <2>4
<1>2. CASE BrokerRefusesEntry(c)
  <2> USE <1>2 DEF BrokerRefusesEntry, storeVars, openVars, brokerVars, TypeOK,
          EntryReply, CallAt
  <2>1. SeenMeansFilled' /\ EntriesRecorded' /\ LegsRecorded'
    BY DEF SeenMeansFilled, EntriesRecorded, LegsRecorded
  <2>2. AcksAreReal'
    BY DEF AcksAreReal
  <2>3. UntrackedIsExplained'
    BY DEF UntrackedIsExplained, Entering
  <2> QED
    BY <1>0, <2>1, <2>2, <2>3
<1>3. CASE BrokerAcceptsLeg(c) \/ BrokerRefusesLeg(c)
  <2> USE <1>3 DEF BrokerAcceptsLeg, BrokerRefusesLeg, storeVars, openVars, brokerVars,
          TypeOK, LegReply, CallAt
  <2>1. SeenMeansFilled'
    BY DEF SeenMeansFilled
  <2>2. EntriesRecorded'
    BY DEF EntriesRecorded
  <2>3. LegsRecorded'
    BY DEF LegsRecorded
  <2>4. AcksAreReal'
    BY DEF AcksAreReal
  <2>5. UntrackedIsExplained'
    BY DEF UntrackedIsExplained, Entering
  <2> QED
    BY <1>0, <2>1, <2>2, <2>3, <2>4, <2>5
<1> QED
  BY <1>1, <1>2, <1>3 DEF BrokerAnswers

\* A resuming call settles its own row.
LEMMA ResumeEntryIInv ==
  ASSUME IInv, NEW c \in Calls,
         EntryAcked(c) \/ EntryRetried(c) \/ EntryRejected(c) \/ EntryErrored(c)
  PROVE  IInv'
<1> USE ConstantsAssumption DEF IInv
<1>0. TypeOK'
  BY NextTypeOK DEF Next, Resume
<1>1. CASE EntryAcked(c)
  <2> USE <1>1 DEF EntryAcked, EntryAnswered, StartLeg, brokerVars, TypeOK, LegSent, CallAt
  <2>1. SeenMeansFilled' /\ EntriesRecorded'
    BY DEF SeenMeansFilled, EntriesRecorded
  <2>2. LegsRecorded'
    BY DEF LegsRecorded, Legs, LegTypes, CallStates
  <2>3. AcksAreReal'
    BY DEF AcksAreReal
  <2>4. UntrackedIsExplained'
    BY DEF UntrackedIsExplained, Entering
  <2> QED
    BY <1>0, <2>1, <2>2, <2>3, <2>4
<1>2. CASE EntryRetried(c)
  <2> USE <1>2 DEF EntryRetried, EntryAnswered, storeVars, openVars, brokerVars, TypeOK,
          EntrySent, CallAt
  <2>1. SeenMeansFilled' /\ EntriesRecorded' /\ LegsRecorded'
    BY DEF SeenMeansFilled, EntriesRecorded, LegsRecorded
  <2>2. AcksAreReal'
    BY DEF AcksAreReal
  <2>3. UntrackedIsExplained'
    BY DEF UntrackedIsExplained, Entering
  <2> QED
    BY <1>0, <2>1, <2>2, <2>3
<1>3. CASE EntryRejected(c) \/ EntryErrored(c)
  <2> USE <1>3 DEF EntryRejected, EntryErrored, EntryAnswered, openVars, brokerVars, TypeOK,
          Returned, CallAt
  <2>1. SeenMeansFilled' /\ EntriesRecorded' /\ LegsRecorded'
    BY DEF SeenMeansFilled, EntriesRecorded, LegsRecorded
  <2>2. AcksAreReal'
    BY DEF AcksAreReal
  <2>3. UntrackedIsExplained'
    BY DEF UntrackedIsExplained, Entering
  <2> QED
    BY <1>0, <2>1, <2>2, <2>3
<1> QED
  BY <1>1, <1>2, <1>3

\* A call that settles a leg keeps every row a row.
LEMMA ResumeLegIInv ==
  ASSUME IInv, NEW c \in Calls, LegAcked(c) \/ LegRejected(c) \/ LegErrored(c)
  PROVE  IInv'
<1> USE ConstantsAssumption DEF IInv
<1>0. TypeOK'
  BY NextTypeOK DEF Next, Resume
<1> DEFINE l == <<c, call[c].leg>>
           tp == <<c, "TAKE_PROFIT_MARKET">>
<1>1. /\ UNCHANGED <<entryRow, openEntries, brokerVars, restarts>>
      /\ call[c].pc = "leg_reply"
      /\ \E status \in {"NEW", "rejected"} :
           \/ /\ legRow' = [[legRow EXCEPT ![l] = status] EXCEPT ![tp] = "new"]
              /\ call' = [call EXCEPT ![c] = LegSent("TAKE_PROFIT_MARKET")]
           \/ /\ legRow' = [legRow EXCEPT ![l] = status] \/ legRow' = legRow
              /\ call' = [call EXCEPT ![c] = Returned]
  <2>1. CASE LegAcked(c)
    BY <2>1 DEF LegAcked, LegAnswered, SettleLeg, StartLeg
  <2>2. CASE LegRejected(c)
    BY <2>2 DEF LegRejected, LegAnswered, SettleLeg, StartLeg, openVars
  <2>3. CASE LegErrored(c)
    BY <2>3 DEF LegErrored, LegAnswered, storeVars, openVars
  <2> QED
    BY <2>1, <2>2, <2>3
<1>2. /\ \A m \in Legs : legRow[m] # "none" => legRow'[m] # "none"
      /\ call'[c].pc = "leg_send" => legRow'[<<c, call'[c].leg>>] # "none"
  <2>1. tp \in Legs /\ l \in Legs
    BY DEF Legs, LegTypes, TypeOK, CallStates
  <2>2. legRow \in [Legs -> LegStatus] /\ call \in [Calls -> CallStates]
    BY DEF TypeOK
  <2> HIDE DEF l, tp
  <2>3. \A m \in Legs : legRow[m] # "none" => legRow'[m] # "none"
    BY <1>1, <2>1, <2>2
  <2>4. CASE call' = [call EXCEPT ![c] = Returned]
    BY <2>2, <2>3, <2>4 DEF Returned, CallAt
  <2>5. CASE legRow'[tp] = "new" /\ call' = [call EXCEPT ![c] = LegSent("TAKE_PROFIT_MARKET")]
    BY <2>2, <2>3, <2>5 DEF LegSent, CallAt, tp
  <2> QED
    BY <1>1, <2>1, <2>2, <2>3, <2>4, <2>5
<1> HIDE DEF l, tp
<1>3. SeenMeansFilled' /\ EntriesRecorded'
  BY <1>1 DEF SeenMeansFilled, EntriesRecorded, brokerVars, TypeOK, LegSent, Returned, CallAt
<1>4. LegsRecorded'
  <2>1. \A m \in resting' : legRow'[m] # "none"
    BY <1>1, <1>2 DEF LegsRecorded, brokerVars, TypeOK
  <2>2. ASSUME NEW d \in Calls, call'[d].pc \in {"leg_send", "leg_reply"}
        PROVE  legRow'[<<d, call'[d].leg>>] # "none"
    <3>1. CASE d = c
      BY <1>1, <1>2, <2>2, <3>1 DEF TypeOK, LegSent, Returned, CallAt
    <3>2. CASE d # c
      <4>1. call'[d] = call[d] /\ <<d, call[d].leg>> \in Legs
        BY <1>1, <3>2 DEF TypeOK, CallStates, Legs
      <4> QED
        BY <1>2, <2>2, <4>1 DEF LegsRecorded
    <3> QED
      BY <3>1, <3>2
  <2> QED
    BY <2>1, <2>2 DEF LegsRecorded
<1>5. AcksAreReal'
  BY <1>1 DEF AcksAreReal, brokerVars, TypeOK, LegSent, Returned, CallAt
<1>6. UntrackedIsExplained'
  BY <1>1 DEF UntrackedIsExplained, Entering, brokerVars, TypeOK, LegSent, Returned, CallAt
<1> QED
  BY <1>0, <1>3, <1>4, <1>5, <1>6

\* The invariant is inductive.
LEMMA NextIInv == IInv /\ [Next]_vars => IInv'
<1> SUFFICES ASSUME IInv, [Next]_vars PROVE IInv'
  OBVIOUS
<1>0. TypeOK'
  BY NextTypeOK DEF IInv
<1>1. ASSUME NEW c \in Calls, Enter(c) \/ BrokerAnswers(c) \/ Resume(c) PROVE IInv'
  BY <1>1, EnterIInv, BrokerAnswersIInv, ResumeEntryIInv, ResumeLegIInv DEF Resume
<1>2. ASSUME NEW l \in Legs, LegTriggers(l) PROVE IInv'
  BY <1>0, <1>2 DEF IInv, LegTriggers, storeVars, openVars, SeenMeansFilled,
     EntriesRecorded, LegsRecorded, AcksAreReal, UntrackedIsExplained
<1>3. CASE FreezeExpires
  BY <1>0, <1>3 DEF IInv, FreezeExpires, openVars, brokerVars, SeenMeansFilled,
     EntriesRecorded, LegsRecorded, AcksAreReal, UntrackedIsExplained, Entering
<1>4. ASSUME \/ Restart
             \/ \E c \in Calls : DiesBetweenWrites(c)
      PROVE  IInv'
  <2>0. ProcessLost
    BY <1>4 DEF Restart, DiesBetweenWrites
  <2>1. restarts' > 0 /\ UNCHANGED <<seen, fills, positions, resting>>
    BY <2>0 DEF ProcessLost, brokerVars, IInv, TypeOK
  <2>2. \A c \in Calls : call'[c].pc \in {"todo", "done"}
    BY <2>0 DEF ProcessLost, Returned, CallAt, InFlight
  <2>3. /\ \A s \in Snipers : entryRow[s] # "none" => entryRow'[s] # "none"
        /\ \A s \in Snipers : entryRow'[s] = "filled" => s \in seen
        /\ \A l \in Legs : legRow[l] # "none" => legRow'[l] # "none"
    <3>1. CASE Restart
      BY <3>1 DEF Restart, storeVars, IInv, AcksAreReal
    <3>2. CASE \E c \in Calls : DiesBetweenWrites(c)
      BY <3>2 DEF DiesBetweenWrites, EntryAnswered, IInv, TypeOK, AcksAreReal
    <3> QED
      BY <1>4, <3>1, <3>2
  <2> QED
    BY <1>0, <2>1, <2>2, <2>3 DEF IInv, TypeOK, SeenMeansFilled, EntriesRecorded,
       LegsRecorded, AcksAreReal, UntrackedIsExplained
<1>5. CASE UNCHANGED vars
  BY <1>0, <1>5 DEF IInv, vars, storeVars, openVars, brokerVars, SeenMeansFilled,
     EntriesRecorded, LegsRecorded, AcksAreReal, UntrackedIsExplained, Entering
<1> QED
  BY <1>1, <1>2, <1>3, <1>4, <1>5 DEF Next

\* The inductive invariant holds in every behaviour.
LEMMA Invariance == Spec => []IInv
BY InitIInv, NextIInv, PTL DEF Spec

\* A crash at any await leaves a record of whatever the broker holds.
THEOREM RecordedFirst == Spec => []RecordedBeforeBroker
<1>1. IInv => RecordedBeforeBroker
  BY DEF IInv, TypeOK, SeenMeansFilled, EntriesRecorded, LegsRecorded, RecordedBeforeBroker
<1> QED
  BY <1>1, Invariance, PTL

\* A row says 'filled' only of an order the broker executed, once.
THEOREM FilledOnlyIfExecuted == Spec => []FilledIsReal
<1>1. IInv => FilledIsReal
  BY DEF IInv, SeenMeansFilled, AcksAreReal, FilledIsReal
<1> QED
  BY <1>1, Invariance, PTL

\* An open position the manager does not count is explained by a call still in
\* flight, a row that records a failure, or a restart.
THEOREM UntrackedExplained == Spec => []UntrackedIsExplained
<1>1. IInv => UntrackedIsExplained
  BY DEF IInv
<1> QED
  BY <1>1, Invariance, PTL

-----------------------------------------------------------------------------
\* A step of the manager is a step of the ledger or leaves the ledger alone:
\* only a submission records, only the broker executes.
LEMMA StepRefines ==
  IInv /\ [Next]_vars => [Ledger!LedgerNext]_(Ledger!ledgerVars)
<1> SUFFICES ASSUME IInv, [Next]_vars
             PROVE  Ledger!LedgerNext \/ UNCHANGED Ledger!ledgerVars
  OBVIOUS
<1> USE ConstantsAssumption DEF IInv, TypeOK
<1>1. ASSUME NEW c \in Calls, SubmitSniperMarket(c)
      PROVE  Ledger!Record(SniperOf[c])
  BY <1>1 DEF SubmitSniperMarket, PersistIntent, brokerVars, Ledger!Record
<1>2. ASSUME NEW c \in Calls, BrokerExecutesEntry(c)
      PROVE  Ledger!Execute(SniperOf[c])
  <2>1. SniperOf[c] \in Snipers /\ entryRow[SniperOf[c]] # "none"
    BY <1>2 DEF BrokerExecutesEntry, EntriesRecorded
  <2>2. fills[SniperOf[c]] = 0
    BY <1>2, <2>1 DEF BrokerExecutesEntry, EntryId, SeenMeansFilled
  <2>3. fills' = [fills EXCEPT ![SniperOf[c]] = 1]
    BY <1>2, <2>2 DEF BrokerExecutesEntry
  <2>4. entryRow' = entryRow
    BY <1>2 DEF BrokerExecutesEntry, storeVars
  <2> QED
    BY <2>1, <2>2, <2>3, <2>4 DEF Ledger!Execute
<1>3. ASSUME /\ UNCHANGED fills
             /\ \A s \in Snipers : entryRow'[s] # "none" <=> entryRow[s] # "none"
      PROVE  UNCHANGED Ledger!ledgerVars
  BY <1>3 DEF Ledger!ledgerVars
<1>4. ASSUME NEW c \in Calls,
             EntryAcked(c) \/ EntryRejected(c) \/ EntryErrored(c) \/ DiesBetweenWrites(c)
      PROVE  UNCHANGED Ledger!ledgerVars
  <2>1. UNCHANGED fills
    BY <1>4 DEF EntryAcked, EntryRejected, EntryErrored, DiesBetweenWrites, ProcessLost, brokerVars
  <2>2. \A s \in Snipers : entryRow'[s] # "none" <=> entryRow[s] # "none"
    BY <1>4 DEF EntryAcked, EntryRejected, EntryErrored, EntryAnswered, DiesBetweenWrites,
       EntriesRecorded
  <2> QED
    BY <1>3, <2>1, <2>2
<1>5. ASSUME UNCHANGED <<entryRow, fills>>
      PROVE  UNCHANGED Ledger!ledgerVars
  BY <1>3, <1>5
<1>6. ASSUME NEW c \in Calls,
             \/ RefuseSniper(c) \/ AdoptOrder(c)
             \/ BrokerRefusesEntry(c) \/ BrokerAcceptsLeg(c) \/ BrokerRefusesLeg(c)
             \/ EntryRetried(c) \/ LegAcked(c) \/ LegRejected(c) \/ LegErrored(c)
      PROVE  UNCHANGED Ledger!ledgerVars
  BY <1>5, <1>6 DEF RefuseSniper, AdoptOrder, BrokerRefusesEntry, BrokerAcceptsLeg,
     BrokerRefusesLeg, EntryRetried, LegAcked, LegRejected, LegErrored, storeVars, brokerVars
<1>7. ASSUME \/ \E l \in Legs : LegTriggers(l)
             \/ FreezeExpires \/ Restart \/ UNCHANGED vars
      PROVE  UNCHANGED Ledger!ledgerVars
  BY <1>5, <1>7 DEF LegTriggers, FreezeExpires, Restart, ProcessLost, vars, storeVars, brokerVars
<1>8. ASSUME NEW c \in Calls, SubmitSniperMarket(c) \/ BrokerExecutesEntry(c)
      PROVE  Ledger!LedgerNext
  BY <1>1, <1>2, <1>8 DEF Ledger!LedgerNext
<1> QED
  BY <1>4, <1>6, <1>7, <1>8 DEF Next, Enter, BrokerAnswers, Resume

\* The order manager implements the ledger: rows before executions, rows for
\* ever, and at most one execution for a sniper.
THEOREM ImplementsLedger == Spec => LedgerImplemented
<1>1. Init => Ledger!LedgerInit
  BY DEF Init, Ledger!LedgerInit
<1> QED
  BY <1>1, StepRefines, Invariance, PTL DEF Spec, LedgerImplemented, Ledger!LedgerSpec
-----------------------------------------------------------------------------
(* One call at a time and no restart: what the bar loop drives when the    *)
(* handler is faster than a bar.                                           *)

Serial == Concurrency = 1 /\ MaxRestarts = 0

\* Nobody else is between two awaits, so a row still 'new' belongs to the call
\* that is settling it, and that call's sniper has not filled yet.
Alone ==
  /\ \A c, d \in Calls : InFlight(c) /\ InFlight(d) => c = d
  /\ \A c \in Entering : entryRow[SniperOf[c]] # "filled"
  /\ \A s \in Snipers : entryRow[s] = "new" => \E c \in Entering : SniperOf[c] = s

\* What is counted as open and what legs are attached to has filled.
FillsFirst ==
  /\ \A c \in Calls : call[c].pc \in {"leg_send", "leg_reply"}
                        => entryRow[SniperOf[c]] = "filled"
  /\ \A s \in openEntries : entryRow[s] = "filled"
  /\ LegsFollowFill

SerialInv == IInv /\ Alone /\ FillsFirst

\* A call that may enter finds nobody inside and no row left 'new'.
LEMMA EntersAlone ==
  ASSUME Serial, IInv, Alone, NEW c \in Calls, MayEnter(c)
  PROVE  /\ \A d \in Calls : ~InFlight(d)
         /\ Submitted(SniperOf[c]) => entryRow[SniperOf[c]] = "filled"
<1>1. ASSUME NEW d \in Calls, InFlight(d) PROVE FALSE
  <2>1. {e \in Calls : InFlight(e)} = {d}
    BY <1>1 DEF Alone
  <2>2. Cardinality({d}) = 1
    BY FS_Singleton
  <2> QED
    BY <2>1, <2>2 DEF MayEnter, Serial
<1>2. Entering = {}
  BY <1>1 DEF Entering, InFlight
<1>3. SniperOf[c] \in Snipers
  BY ConstantsAssumption
<1> QED
  BY <1>1, <1>2, <1>3 DEF Alone, Submitted

\* Entering alone, a call adopts only a fill, and its own row is the only 'new' one.
LEMMA EnterSerial ==
  ASSUME Serial, SerialInv, NEW c \in Calls, Enter(c)
  PROVE  Alone' /\ FillsFirst'
<1> USE ConstantsAssumption DEF SerialInv, IInv
<1>0. /\ \A d \in Calls : ~InFlight(d)
      /\ Submitted(SniperOf[c]) => entryRow[SniperOf[c]] = "filled"
      /\ call[c] = NotCalled /\ SniperOf[c] \in Snipers
  BY EntersAlone DEF Enter, RefuseSniper, AdoptOrder, SubmitSniperMarket, MayEnter
<1>1. CASE RefuseSniper(c)
  <2> USE <1>1 DEF RefuseSniper, storeVars, openVars, brokerVars, TypeOK, Returned, CallAt,
          NotCalled
  <2>1. Alone'
    BY <1>0 DEF Alone, Entering, InFlight
  <2>2. FillsFirst'
    BY <1>0 DEF FillsFirst, LegsFollowFill
  <2> QED
    BY <2>1, <2>2
<1>2. CASE AdoptOrder(c)
  <2> USE <1>2 DEF AdoptOrder, StartLeg, brokerVars, TypeOK, LegSent, CallAt, NotCalled
  <2>1. Alone'
    BY <1>0 DEF Alone, Entering, InFlight
  <2>2. \A l \in Legs : legRow'[l] # "none" => legRow[l] # "none" \/ l = <<c, "STOP_MARKET">>
    OBVIOUS
  <2>3. LegsFollowFill'
    BY <1>0, <2>2 DEF FillsFirst, LegsFollowFill
  <2>4. FillsFirst'
    BY <1>0, <2>3 DEF FillsFirst
  <2> QED
    BY <2>1, <2>4
<1>3. CASE SubmitSniperMarket(c)
  <2> USE <1>3 DEF SubmitSniperMarket, PersistIntent, openVars, brokerVars, TypeOK,
          EntrySent, CallAt, NotCalled
  <2>1. Alone'
    BY <1>0 DEF Alone, Entering, InFlight, Submitted
  <2>2. \A s \in Snipers : entryRow[s] = "filled" => entryRow'[s] = "filled"
    OBVIOUS
  <2>3. LegsFollowFill'
    BY <2>2 DEF FillsFirst, LegsFollowFill, Legs
  <2>4. FillsFirst'
    BY <1>0, <2>2, <2>3 DEF FillsFirst
  <2> QED
    BY <2>1, <2>4
<1> QED
  BY <1>1, <1>2, <1>3 DEF Enter

\* The broker's answer moves no row and no call out of the handler.
LEMMA BrokerAnswersSerial ==
  ASSUME SerialInv, NEW c \in Calls, BrokerAnswers(c)
  PROVE  Alone' /\ FillsFirst'
<1> USE DEF SerialInv, IInv
<1>1. /\ UNCHANGED <<entryRow, legRow, openEntries>>
      /\ \A d \in Calls : \/ call'[d].pc = call[d].pc
                          \/ call[d].pc = "entry_send" /\ call'[d].pc = "entry_reply"
                          \/ call[d].pc = "leg_send" /\ call'[d].pc = "leg_reply"
  <2> USE DEF TypeOK, storeVars, openVars, EntryReply, LegReply, CallAt
  <2>1. CASE BrokerExecutesEntry(c)
    BY <2>1 DEF BrokerExecutesEntry
  <2>2. CASE BrokerRefusesEntry(c)
    BY <2>2 DEF BrokerRefusesEntry
  <2>3. CASE BrokerAcceptsLeg(c)
    BY <2>3 DEF BrokerAcceptsLeg
  <2>4. CASE BrokerRefusesLeg(c)
    BY <2>4 DEF BrokerRefusesLeg
  <2> QED
    BY <2>1, <2>2, <2>3, <2>4 DEF BrokerAnswers
<1>2. Entering' = Entering /\ \A d \in Calls : InFlight(d)' <=> InFlight(d)
  BY <1>1 DEF Entering, InFlight
<1>3. Alone'
  BY <1>1, <1>2 DEF Alone
<1>4. FillsFirst'
  BY <1>1 DEF FillsFirst, LegsFollowFill
<1> QED
  BY <1>3, <1>4

\* The answer to its market order settles the row of the one call inside.
LEMMA ResumeEntrySerial ==
  ASSUME SerialInv, NEW c \in Calls,
         EntryAcked(c) \/ EntryRetried(c) \/ EntryRejected(c) \/ EntryErrored(c)
  PROVE  Alone' /\ FillsFirst'
<1> USE ConstantsAssumption DEF SerialInv, IInv
<1>0. /\ call[c].pc = "entry_reply" /\ c \in Entering /\ SniperOf[c] \in Snipers
      /\ entryRow[SniperOf[c]] # "filled"
      /\ \A d \in Calls : InFlight(d) => d = c
  BY DEF EntryAcked, EntryRetried, EntryRejected, EntryErrored, EntryAnswered, Entering,
     InFlight, Alone
<1>1. CASE EntryAcked(c)
  <2> USE <1>1 DEF EntryAcked, StartLeg, brokerVars, TypeOK, LegSent, CallAt
  <2>1. Alone'
    BY <1>0 DEF Alone, Entering, InFlight
  <2>2. \A l \in Legs : legRow'[l] # "none" => legRow[l] # "none" \/ l = <<c, "STOP_MARKET">>
    OBVIOUS
  <2>3. LegsFollowFill'
    BY <1>0, <2>2 DEF FillsFirst, LegsFollowFill, Legs
  <2>4. FillsFirst'
    BY <1>0, <2>3 DEF FillsFirst, InFlight
  <2> QED
    BY <2>1, <2>4
<1>2. CASE EntryRetried(c)
  <2> USE <1>2 DEF EntryRetried, storeVars, openVars, brokerVars, TypeOK, EntrySent, CallAt
  <2>1. Alone'
    BY <1>0 DEF Alone, Entering, InFlight
  <2>2. FillsFirst'
    BY <1>0 DEF FillsFirst, LegsFollowFill
  <2> QED
    BY <2>1, <2>2
<1>3. CASE EntryRejected(c) \/ EntryErrored(c)
  <2> USE <1>3 DEF EntryRejected, EntryErrored, openVars, brokerVars, TypeOK, Returned, CallAt
  <2>1. Alone'
    BY <1>0 DEF Alone, Entering, InFlight
  <2>2. \A s \in Snipers : entryRow[s] = "filled" => entryRow'[s] = "filled"
    BY <1>0
  <2>3. LegsFollowFill'
    BY <2>2 DEF FillsFirst, LegsFollowFill, Legs
  <2>4. FillsFirst'
    BY <1>0, <2>2, <2>3 DEF FillsFirst, InFlight
  <2> QED
    BY <2>1, <2>4
<1> QED
  BY <1>1, <1>2, <1>3

\* Settling a leg writes rows of legs of that call only, whose entry has filled.
LEMMA ResumeLegSerial ==
  ASSUME SerialInv, NEW c \in Calls, LegAcked(c) \/ LegRejected(c) \/ LegErrored(c)
  PROVE  Alone' /\ FillsFirst'
<1> USE DEF SerialInv, IInv
<1>1. /\ UNCHANGED <<entryRow, openEntries>>
      /\ call[c].pc = "leg_reply"
      /\ call' \in {[call EXCEPT ![c] = Returned],
                    [call EXCEPT ![c] = LegSent("TAKE_PROFIT_MARKET")]}
      /\ \A l \in Legs : l[1] # c => legRow'[l] = legRow[l]
  <2> USE DEF LegAnswered, SettleLeg, StartLeg, storeVars, openVars, TypeOK
  <2>1. CASE LegAcked(c)
    BY <2>1 DEF LegAcked
  <2>2. CASE LegRejected(c)
    BY <2>2 DEF LegRejected
  <2>3. CASE LegErrored(c)
    BY <2>3 DEF LegErrored
  <2> QED
    BY <2>1, <2>2, <2>3
<1>2. entryRow[SniperOf[c]] = "filled"
  BY <1>1 DEF FillsFirst
<1>3. \A d \in Calls : \/ call'[d] = call[d]
                       \/ d = c /\ call'[d].pc \in {"done", "leg_send"}
  BY <1>1 DEF TypeOK, Returned, LegSent, CallAt
<1>4. Entering' = Entering /\ \A d \in Calls : InFlight(d)' => InFlight(d)
  BY <1>1, <1>3 DEF Entering, InFlight
<1>5. Alone'
  BY <1>1, <1>4 DEF Alone
<1>6. LegsFollowFill'
  BY <1>1, <1>2 DEF FillsFirst, LegsFollowFill, Legs
<1>7. FillsFirst'
  BY <1>1, <1>2, <1>3, <1>6 DEF FillsFirst
<1> QED
  BY <1>5, <1>7

\* The serial invariant holds in every behaviour of the serial regime.
LEMMA SerialInvariance == Serial => (Spec => []SerialInv)
<1> SUFFICES ASSUME Serial PROVE Spec => []SerialInv
  OBVIOUS
<1>1. Init => SerialInv
  <2> SUFFICES ASSUME Init PROVE Alone /\ FillsFirst
    BY InitIInv DEF SerialInv
  <2> QED
    BY ConstantsAssumption DEF Init, Alone, FillsFirst, LegsFollowFill, Entering, InFlight,
       NotCalled, CallAt
<1>2. SerialInv /\ [Next]_vars => SerialInv'
  <2> SUFFICES ASSUME SerialInv, [Next]_vars PROVE Alone' /\ FillsFirst'
    BY NextIInv DEF SerialInv
  <2>1. ASSUME NEW c \in Calls, Enter(c) \/ BrokerAnswers(c) \/ Resume(c)
        PROVE  Alone' /\ FillsFirst'
    BY <2>1, EnterSerial, BrokerAnswersSerial, ResumeEntrySerial, ResumeLegSerial DEF Resume
  <2>2. ASSUME UNCHANGED <<entryRow, legRow, openEntries, call>>
        PROVE  Alone' /\ FillsFirst'
    BY <2>2 DEF SerialInv, Alone, FillsFirst, LegsFollowFill, Entering, InFlight
  <2>3. ~Restart /\ ~\E c \in Calls : DiesBetweenWrites(c)
    BY DEF Restart, DiesBetweenWrites, ProcessLost, Serial, SerialInv, IInv, TypeOK
  <2> QED
    BY <2>1, <2>2, <2>3 DEF Next, LegTriggers, FreezeExpires, vars, storeVars, openVars
<1> QED
  BY <1>1, <1>2, PTL DEF Spec

\* One call at a time, no restart: the keys of _open are executed orders.
THEOREM SerialOpenMeansPosition == Serial => (Spec => []OpenMeansPosition)
<1> SUFFICES ASSUME Serial PROVE Spec => []OpenMeansPosition
  OBVIOUS
<1>1. SerialInv => OpenMeansPosition
  BY DEF SerialInv, IInv, TypeOK, FillsFirst, AcksAreReal, SeenMeansFilled, OpenMeansPosition
<1> QED
  BY <1>1, SerialInvariance, PTL

\* One call at a time, no restart: legs are submitted only after the entry filled.
THEOREM SerialLegsFollowFill == Serial => (Spec => []LegsFollowFill)
<1> SUFFICES ASSUME Serial PROVE Spec => []LegsFollowFill
  OBVIOUS
<1>1. SerialInv => LegsFollowFill
  BY DEF SerialInv, FillsFirst
<1> QED
  BY <1>1, SerialInvariance, PTL

\* One call at a time, no restart: no step takes a fill back.
THEOREM SerialFilledIsFinal == Serial => (Spec => FilledIsFinal)
<1> SUFFICES ASSUME Serial PROVE Spec => FilledIsFinal
  OBVIOUS
<1>1. SerialInv /\ [Next]_vars
        => [\A s \in Snipers : entryRow[s] = "filled" => entryRow'[s] = "filled"]_vars
  <2> SUFFICES ASSUME SerialInv, Next, NEW s \in Snipers, entryRow[s] = "filled"
               PROVE  entryRow'[s] = "filled"
    OBVIOUS
  <2> USE DEF SerialInv, IInv, TypeOK
  <2>1. ASSUME NEW c \in Calls, SubmitSniperMarket(c) PROVE entryRow'[s] = "filled"
    BY <2>1 DEF SubmitSniperMarket, PersistIntent
  <2>2. ASSUME NEW c \in Calls, EntryAcked(c) \/ EntryRejected(c) \/ EntryErrored(c)
        PROVE  entryRow'[s] = "filled"
    <3>1. SniperOf[c] # s
      BY <2>2 DEF EntryAcked, EntryRejected, EntryErrored, EntryAnswered, Alone, Entering
    <3> QED
      BY <2>2, <3>1 DEF EntryAcked, EntryRejected, EntryErrored
  <2>3. ~Restart /\ ~\E c \in Calls : DiesBetweenWrites(c)
    BY DEF Restart, DiesBetweenWrites, ProcessLost, Serial
  <2> QED
    BY <2>1, <2>2, <2>3 DEF Next, Enter, BrokerAnswers, Resume, RefuseSniper, AdoptOrder,
       BrokerExecutesEntry, BrokerRefusesEntry, BrokerAcceptsLeg, BrokerRefusesLeg,
       EntryRetried, LegAcked, LegRejected, LegErrored, LegTriggers, FreezeExpires,
       storeVars, brokerVars
<1> QED
  BY <1>1, SerialInvariance, PTL DEF Spec, FilledIsFinal

-----------------------------------------------------------------------------
\* Positions without a stop loss.  Of the calls for a filled entry, one has set up a
\* stop loss since the fill: it works, or its row tells, or the position is closed.
Stop(c) == <<c, "STOP_MARKET">>

Works(c) == Stop(c) \in resting \/ SniperOf[c] \notin positions

StopTells(c) ==
  /\ legRow[Stop(c)] \in {"new", "rejected"} \/ (legRow[Stop(c)] = "NEW" /\ Works(c))
  /\ call[c].pc = "leg_reply" /\ call[c].leg = "STOP_MARKET" /\ call[c].answer = "ack" => Works(c)

\* Entries on record as filled with no such call: a process died between the two writes.
Untold ==
  {s \in Snipers :
     entryRow[s] = "filled" /\ ~\E c \in Calls : SniperOf[c] = s /\ StopTells(c)}

DeathsExplain == IsFiniteSet(Untold) /\ Cardinality(Untold) <= restarts

\* A step that changes neither a call nor its stop loss leaves what its row tells,
\* since a position that was filled is not opened again.
LEMMA StopStays ==
  ASSUME NEW c \in Calls, StopTells(c), call'[c] = call[c], legRow'[Stop(c)] = legRow[Stop(c)],
         Works(c) => Works(c)'
  PROVE  StopTells(c)'
BY DEF StopTells, Stop

\* What a step does to positions and resting stop losses of filled entries.
LEMMA WorksOn ==
  ASSUME IInv, [Next]_vars, NEW c \in Calls, entryRow[SniperOf[c]] = "filled", Works(c)
  PROVE  Works(c)'
<1> USE DEF Works, Stop
<1>1. SniperOf[c] \in Snipers /\ SniperOf[c] \in seen
  BY ConstantsAssumption DEF IInv, AcksAreReal
<1>2. ASSUME NEW d \in Calls, Enter(d) \/ Resume(d) PROVE Works(c)'
  <2>1. UNCHANGED <<positions, resting>>
    BY <1>2 DEF Enter, Resume, RefuseSniper, AdoptOrder, SubmitSniperMarket, EntryAcked,
         EntryRetried, EntryRejected, EntryErrored, LegAcked, LegRejected, LegErrored, brokerVars
  <2> QED BY <2>1
<1>3. ASSUME NEW d \in Calls, BrokerAnswers(d) PROVE Works(c)'
  <2>1. CASE BrokerExecutesEntry(d)
    BY <1>1, <2>1 DEF BrokerExecutesEntry, EntryId
  <2>2. CASE BrokerAcceptsLeg(d)
    BY <2>2 DEF BrokerAcceptsLeg
  <2>3. CASE BrokerRefusesEntry(d) \/ BrokerRefusesLeg(d)
    BY <2>3 DEF BrokerRefusesEntry, BrokerRefusesLeg, brokerVars
  <2> QED BY <1>3, <2>1, <2>2, <2>3 DEF BrokerAnswers
<1>4. ASSUME NEW l \in Legs, LegTriggers(l) PROVE Works(c)'
  BY <1>4 DEF LegTriggers
<1>5. CASE FreezeExpires \/ Restart \/ (\E d \in Calls : DiesBetweenWrites(d)) \/ UNCHANGED vars
  <2>1. UNCHANGED <<positions, resting>>
    BY <1>5 DEF FreezeExpires, Restart, DiesBetweenWrites, ProcessLost, brokerVars, vars
  <2> QED BY <2>1
<1> QED BY <1>2, <1>3, <1>4, <1>5 DEF Next

\* A call whose stop loss tells keeps telling, whatever the step.
LEMMA StopTellsOn ==
  ASSUME IInv, [Next]_vars, NEW c \in Calls, entryRow[SniperOf[c]] = "filled", StopTells(c)
  PROVE  StopTells(c)'
<1>1. Works(c) => Works(c)' BY WorksOn
<1>2. /\ legRow \in [Legs -> LegStatus] /\ call \in [Calls -> CallStates]
      /\ \A d \in Calls, type \in LegTypes : <<d, type>> \in Legs
  BY DEF IInv, TypeOK, Legs
<1>3. Stop(c) \in Legs BY <1>2 DEF Stop, LegTypes
<1>4. \A d \in Calls, type \in LegTypes : <<d, type>> = Stop(c) <=> d = c /\ type = "STOP_MARKET"
  BY DEF Stop
<1>5. ASSUME NEW d \in Calls, Enter(d) PROVE StopTells(c)'
  <2>1. CASE AdoptOrder(d) /\ d = c
    BY <1>2, <1>3, <2>1 DEF AdoptOrder, StartLeg, StopTells, Stop, LegSent, CallAt
  <2>2. CASE AdoptOrder(d) /\ d # c
    <3>1. call'[c] = call[c] /\ legRow'[Stop(c)] = legRow[Stop(c)]
      BY <1>2, <1>3, <1>4, <2>2 DEF AdoptOrder, StartLeg, LegTypes
    <3> QED BY <1>1, <3>1, StopStays
  <2>3. CASE RefuseSniper(d) \/ SubmitSniperMarket(d)
    <3>1. legRow' = legRow /\ (call'[c].pc # "leg_reply" \/ call'[c] = call[c])
      BY <1>2, <2>3 DEF RefuseSniper, SubmitSniperMarket, storeVars, Returned, EntrySent, CallAt
    <3> QED BY <1>1, <3>1 DEF StopTells, Stop
  <2> QED BY <1>5, <2>1, <2>2, <2>3 DEF Enter
<1>6. ASSUME NEW d \in Calls, BrokerAnswers(d) PROVE StopTells(c)'
  <2>1. legRow' = legRow
    BY <1>6 DEF BrokerAnswers, BrokerExecutesEntry, BrokerRefusesEntry, BrokerAcceptsLeg,
         BrokerRefusesLeg, storeVars
  <2>2. CASE d # c
    <3>1. call'[c] = call[c]
      BY <1>2, <1>6, <2>2 DEF BrokerAnswers, BrokerExecutesEntry, BrokerRefusesEntry,
           BrokerAcceptsLeg, BrokerRefusesLeg
    <3> QED BY <1>1, <2>1, <3>1, StopStays
  <2>3. CASE d = c
    <3>1. CASE BrokerExecutesEntry(c) \/ BrokerRefusesEntry(c)
      <4>1. call'[c].pc = "entry_reply"
        BY <1>2, <3>1 DEF BrokerExecutesEntry, BrokerRefusesEntry, EntryReply, CallAt
      <4> QED BY <1>1, <2>1, <4>1 DEF StopTells, Stop
    <3>2. CASE BrokerAcceptsLeg(c)
      <4>1. call'[c].leg = call[c].leg /\ resting' = resting \cup {<<c, call[c].leg>>}
        BY <1>2, <3>2 DEF BrokerAcceptsLeg, LegReply, CallAt
      <4> QED BY <1>1, <2>1, <4>1 DEF StopTells, Stop, Works
    <3>3. CASE BrokerRefusesLeg(c)
      <4>1. call'[c].leg = call[c].leg /\ call[c].pc = "leg_send"
        BY <1>2, <3>3 DEF BrokerRefusesLeg, LegReply, CallAt
      <4>2. ASSUME call'[c].answer = "ack" PROVE FALSE
        <5>1. PICK a \in {"permanent"} \cup Faults : call' = [call EXCEPT ![c] = LegReply(call[c].leg, a)]
          BY <3>3 DEF BrokerRefusesLeg
        <5>2. call'[c].answer = a BY <1>2, <5>1 DEF LegReply, CallAt
        <5> QED BY <4>2, <5>1, <5>2, ConstantsAssumption
      <4> QED BY <1>1, <2>1, <4>1, <4>2 DEF StopTells, Stop
    <3> QED BY <1>6, <2>3, <3>1, <3>2, <3>3 DEF BrokerAnswers
  <2> QED BY <2>2, <2>3
<1>7. ASSUME NEW d \in Calls,
             EntryAcked(d) \/ EntryRetried(d) \/ EntryRejected(d) \/ EntryErrored(d)
      PROVE  StopTells(c)'
  <2>1. CASE d = c
    <3>1. call'[c].pc # "leg_reply" /\ (legRow'[Stop(c)] = legRow[Stop(c)] \/ legRow'[Stop(c)] = "new")
      BY <1>2, <1>3, <1>7, <2>1 DEF EntryAcked, EntryRetried, EntryRejected, EntryErrored, StartLeg,
           storeVars, Stop, LegSent, EntrySent, Returned, CallAt
    <3> QED BY <1>1, <3>1 DEF StopTells, Stop
  <2>2. CASE d # c
    <3>1. call'[c] = call[c] /\ legRow'[Stop(c)] = legRow[Stop(c)]
      BY <1>2, <1>3, <1>4, <1>7, <2>2 DEF EntryAcked, EntryRetried, EntryRejected, EntryErrored,
           StartLeg, storeVars, LegTypes
    <3> QED BY <1>1, <3>1, StopStays
  <2> QED BY <2>1, <2>2
<1>8. ASSUME NEW d \in Calls, LegAcked(d) \/ LegRejected(d) \/ LegErrored(d)
      PROVE  StopTells(c)'
  <2>1. CASE d # c
    <3>1. call'[c] = call[c] /\ legRow'[Stop(c)] = legRow[Stop(c)]
      BY <1>2, <1>3, <1>4, <1>8, <2>1 DEF LegAcked, LegRejected, LegErrored, SettleLeg, StartLeg,
           storeVars, LegTypes, CallStates
    <3> QED BY <1>1, <3>1, StopStays
  <2>2. CASE d = c /\ LegErrored(c)
    <3>1. call'[c].pc # "leg_reply" /\ legRow' = legRow
      BY <1>2, <2>2 DEF LegErrored, storeVars, Returned, CallAt
    <3> QED BY <1>1, <3>1 DEF StopTells, Stop
  <2>3. ASSUME NEW status \in {"NEW", "rejected"}, SettleLeg(c, status),
               call[c].pc = "leg_reply",
               status = "NEW" => call[c].answer = "ack"
        PROVE  StopTells(c)'
    <3>1. call'[c].pc # "leg_reply"
      BY <1>2, <2>3 DEF SettleLeg, StartLeg, LegSent, Returned, CallAt
    <3>2. CASE call[c].leg = "STOP_MARKET"
      <4>1. legRow'[Stop(c)] = status
        BY <1>2, <1>3, <1>4, <2>3, <3>2 DEF SettleLeg, StartLeg, Stop
      <4>2. status = "NEW" => Works(c)' BY <1>1, <2>3, <3>2 DEF StopTells
      <4> QED BY <2>3, <3>1, <4>1, <4>2 DEF StopTells, Stop
    <3>3. CASE call[c].leg # "STOP_MARKET"
      <4>1. legRow'[Stop(c)] = legRow[Stop(c)]
        BY <1>2, <1>3, <1>4, <2>3, <3>3 DEF SettleLeg, StartLeg, Stop
      <4> QED BY <1>1, <3>1, <4>1 DEF StopTells, Stop
    <3> QED BY <3>2, <3>3
  <2>4. CASE d = c /\ LegAcked(c) BY <2>3, <2>4 DEF LegAcked, LegAnswered
  <2>5. CASE d = c /\ LegRejected(c) BY <2>3, <2>5 DEF LegRejected, LegAnswered
  <2> QED BY <1>8, <2>1, <2>2, <2>4, <2>5
<1>9. ASSUME NEW l \in Legs, LegTriggers(l) PROVE StopTells(c)'
  BY <1>1, <1>9, StopStays DEF LegTriggers, storeVars
<1>10. ASSUME Restart \/ \E d \in Calls : DiesBetweenWrites(d)
       PROVE  StopTells(c)'
  <2>0. ProcessLost BY <1>10 DEF Restart, DiesBetweenWrites
  <2>1. call'[c] = call[c] \/ call'[c].pc = "done"
    BY <2>0 DEF ProcessLost, Returned, CallAt
  <2>2. \/ legRow'[Stop(c)] = legRow[Stop(c)]
        \/ legRow'[Stop(c)] = "rejected"
        \/ /\ legRow'[Stop(c)] = "NEW"
           /\ call[c].pc = "leg_reply" /\ call[c].leg = "STOP_MARKET" /\ call[c].answer = "ack"
    <3>1. CASE Restart
      BY <3>1 DEF Restart, storeVars
    <3>2. CASE \E d \in Calls : DiesBetweenWrites(d)
      <4>0. PICK d \in Calls : DiesBetweenWrites(d) BY <3>2
      <4>1. CASE legRow' = legRow
        BY <4>1
      <4>2. CASE /\ LegAnswered(d, {"ack", "permanent", "transient"})
                 /\ call[d].leg = "STOP_MARKET"
                 /\ legRow' = [legRow EXCEPT ![<<d, "STOP_MARKET">>] =
                                 IF call[d].answer = "ack" THEN "NEW" ELSE "rejected"]
        <5>1. CASE d = c
          BY <1>2, <1>3, <4>2, <5>1 DEF LegAnswered, Stop
        <5>2. CASE d # c
          BY <1>2, <1>3, <4>2, <5>2 DEF Stop
        <5> QED BY <5>1, <5>2
      <4> QED BY <4>0, <4>1, <4>2 DEF DiesBetweenWrites
    <3> QED BY <1>10, <3>1, <3>2
  <2> QED BY <1>1, <2>1, <2>2 DEF StopTells, Stop
<1>11. CASE FreezeExpires \/ UNCHANGED vars
  BY <1>1, <1>11, StopStays DEF FreezeExpires, vars, storeVars
<1> QED
  BY <1>5, <1>6, <1>7, <1>8, <1>9, <1>10, <1>11 DEF Next, Resume

\* A row turns 'filled' only by an acknowledgement, which the call may not survive.
LEMMA FillsOnAck ==
  ASSUME IInv, [Next]_vars, NEW s \in Snipers, entryRow[s] # "filled", entryRow'[s] = "filled"
  PROVE  \E c \in Calls : (EntryAcked(c) \/ DiesBetweenWrites(c)) /\ SniperOf[c] = s
<1>0. entryRow \in [Snipers -> EntryStatus] BY DEF IInv, TypeOK
<1>1. ASSUME NEW c \in Calls, Enter(c) PROVE FALSE
  BY <1>0, <1>1 DEF Enter, RefuseSniper, AdoptOrder, SubmitSniperMarket, PersistIntent, storeVars
<1>2. ASSUME NEW c \in Calls, BrokerAnswers(c) PROVE FALSE
  BY <1>2 DEF BrokerAnswers, BrokerExecutesEntry, BrokerRefusesEntry, BrokerAcceptsLeg,
       BrokerRefusesLeg, storeVars
<1>3. ASSUME NEW c \in Calls, Resume(c), ~(EntryAcked(c) /\ SniperOf[c] = s) PROVE FALSE
  BY <1>0, <1>3 DEF Resume, EntryAcked, EntryRetried, EntryRejected, EntryErrored, LegAcked,
       LegRejected, LegErrored, storeVars
<1>4. ASSUME NEW l \in Legs, LegTriggers(l) PROVE FALSE
  BY <1>4 DEF LegTriggers, storeVars
<1>5. ASSUME NEW c \in Calls, DiesBetweenWrites(c), SniperOf[c] # s PROVE FALSE
  BY <1>0, <1>5 DEF DiesBetweenWrites
<1>6. CASE FreezeExpires \/ Restart \/ UNCHANGED vars
  BY <1>6 DEF FreezeExpires, Restart, vars, storeVars
<1> QED BY <1>1, <1>2, <1>3, <1>4, <1>5, <1>6 DEF Next

\* A sniper whose entry turns filled gets the row of a stop loss in the same step,
\* unless the process dies; then it is the one sniper the death leaves untold.
LEMMA UntoldStep ==
  ASSUME IInv, [Next]_vars
  PROVE  \/ Untold' \subseteq Untold /\ restarts' >= restarts
         \/ \E s \in Snipers : Untold' \subseteq Untold \cup {s} /\ restarts' = restarts + 1
<1>0. restarts \in Nat BY ConstantsAssumption DEF IInv, TypeOK
<1>1. ASSUME NEW s \in Snipers, s \in Untold', s \notin Untold
      PROVE  \E c \in Calls : DiesBetweenWrites(c) /\ SniperOf[c] = s
  <2>1. entryRow'[s] = "filled" /\ ~\E c \in Calls : SniperOf[c] = s /\ StopTells(c)'
    BY <1>1 DEF Untold
  <2>2. entryRow[s] # "filled"
    <3>1. SUFFICES ASSUME entryRow[s] = "filled" PROVE FALSE OBVIOUS
    <3>2. PICK c \in Calls : SniperOf[c] = s /\ StopTells(c) BY <1>1, <3>1 DEF Untold
    <3>3. StopTells(c)' BY <3>1, <3>2, StopTellsOn
    <3> QED BY <2>1, <3>2, <3>3
  <2>3. PICK c \in Calls : (EntryAcked(c) \/ DiesBetweenWrites(c)) /\ SniperOf[c] = s
    BY <2>1, <2>2, FillsOnAck
  <2>4. ~EntryAcked(c)
    <3>1. SUFFICES ASSUME EntryAcked(c) PROVE FALSE OBVIOUS
    <3>2. legRow'[Stop(c)] = "new" /\ call'[c].pc # "leg_reply"
      BY <3>1 DEF EntryAcked, StartLeg, IInv, TypeOK, Legs, LegTypes, Stop, LegSent, CallAt
    <3>3. StopTells(c)' BY <3>2 DEF StopTells, Stop
    <3> QED BY <2>1, <2>3, <3>3
  <2> QED BY <2>3, <2>4
<1>2. Untold' \subseteq Snipers BY DEF Untold
<1>3. CASE \E c \in Calls : DiesBetweenWrites(c)
  <2>1. PICK c \in Calls : DiesBetweenWrites(c) BY <1>3
  <2>2. restarts' = restarts + 1 BY <2>1 DEF DiesBetweenWrites, ProcessLost
  <2>3. SniperOf[c] \in Snipers BY ConstantsAssumption
  <2>4. ASSUME NEW s \in Snipers, s \in Untold', s \notin Untold PROVE s = SniperOf[c]
    <3>1. SUFFICES ASSUME s # SniperOf[c] PROVE FALSE OBVIOUS
    <3>2. entryRow'[s] = entryRow[s]
      BY <2>1, <3>1 DEF DiesBetweenWrites, IInv, TypeOK
    <3>3. entryRow'[s] = "filled" BY <2>4 DEF Untold
    <3>4. PICK d \in Calls : SniperOf[d] = s /\ StopTells(d) BY <2>4, <3>2, <3>3 DEF Untold
    <3>5. StopTells(d)' BY <3>2, <3>3, <3>4, StopTellsOn
    <3> QED BY <2>4, <3>4, <3>5 DEF Untold
  <2>5. Untold' \subseteq Untold \cup {SniperOf[c]} BY <1>2, <2>4
  <2> QED BY <2>2, <2>3, <2>5
<1>4. CASE ~\E c \in Calls : DiesBetweenWrites(c)
  <2>1. Untold' \subseteq Untold BY <1>1, <1>2, <1>4
  <2>2. restarts' = restarts \/ restarts' = restarts + 1
    BY <1>4 DEF Next, Enter, BrokerAnswers, Resume, RefuseSniper, AdoptOrder, SubmitSniperMarket,
         BrokerExecutesEntry, BrokerRefusesEntry, BrokerAcceptsLeg, BrokerRefusesLeg, EntryAcked,
         EntryRetried, EntryRejected, EntryErrored, LegAcked, LegRejected, LegErrored,
         LegTriggers, FreezeExpires, Restart, ProcessLost, vars
  <2> QED BY <1>0, <2>1, <2>2
<1> QED BY <1>3, <1>4

LEMMA NextDeathsExplain ==
  ASSUME IInv, DeathsExplain, [Next]_vars
  PROVE  DeathsExplain'
<1>0. restarts \in Nat /\ restarts' \in Nat
  <2>1. IInv' BY NextIInv
  <2> QED BY <2>1, ConstantsAssumption DEF IInv, TypeOK
<1>1. IsFiniteSet(Untold) /\ Cardinality(Untold) \in Nat /\ Cardinality(Untold) <= restarts
  BY FS_CardinalityType DEF DeathsExplain
<1>2. CASE Untold' \subseteq Untold /\ restarts' >= restarts
  <2>1. IsFiniteSet(Untold') /\ Cardinality(Untold') <= Cardinality(Untold)
    BY <1>1, <1>2, FS_Subset
  <2>2. Cardinality(Untold') \in Nat BY <2>1, FS_CardinalityType
  <2>3. Cardinality(Untold') <= restarts' BY <1>0, <1>1, <1>2, <2>1, <2>2
  <2> QED BY <2>1, <2>3 DEF DeathsExplain
<1>3. ASSUME NEW s \in Snipers, Untold' \subseteq Untold \cup {s}, restarts' = restarts + 1
      PROVE  DeathsExplain'
  <2> DEFINE grown == Untold \cup {s}
  <2>1. /\ IsFiniteSet(grown)
        /\ Cardinality(grown) = IF s \in Untold THEN Cardinality(Untold) ELSE Cardinality(Untold) + 1
    BY <1>1, FS_AddElement
  <2>2. Untold' \subseteq grown BY <1>3
  <2> HIDE DEF grown
  <2>3. IsFiniteSet(Untold') /\ Cardinality(Untold') <= Cardinality(grown) BY <2>1, <2>2, FS_Subset
  <2>4. Cardinality(grown) \in Nat /\ Cardinality(Untold') \in Nat
    BY <2>1, <2>3, FS_CardinalityType
  <2>5. Cardinality(grown) <= Cardinality(Untold) + 1 BY <1>1, <2>1
  <2>6. Cardinality(Untold') <= restarts' BY <1>0, <1>1, <1>3, <2>3, <2>4, <2>5
  <2> QED BY <2>3, <2>6 DEF DeathsExplain
<1> QED BY <1>2, <1>3, UntoldStep

\* The open positions whose missing stop loss the store does not tell are no more than
\* the deaths of the process, wherever it died (UnprotectedIsOnRecord).
THEOREM UnprotectedRecorded == Spec => []UnprotectedIsOnRecord
<1>1. Init => DeathsExplain
  <2> SUFFICES ASSUME Init PROVE DeathsExplain OBVIOUS
  <2>1. Untold = {} BY DEF Init, Untold
  <2> QED BY <2>1, FS_EmptySet DEF Init, DeathsExplain
<1>2. Init => IInv BY InitIInv
<1>3. IInv /\ [Next]_vars => IInv' BY NextIInv
<1>4. IInv /\ DeathsExplain /\ [Next]_vars => DeathsExplain' BY NextDeathsExplain
<1>5. IInv /\ DeathsExplain => UnprotectedIsOnRecord
  <2> SUFFICES ASSUME IInv, DeathsExplain
               PROVE  Cardinality({s \in positions : ~ToldByStore(s)}) <= restarts
    BY DEF UnprotectedIsOnRecord
  <2> DEFINE unprotected == {s \in positions : ~ToldByStore(s)}
  <2>1. ASSUME NEW s \in unprotected PROVE s \in Untold
    <3>1. s \in Snipers /\ s \in positions BY DEF IInv, TypeOK
    <3>2. ~ToldByStore(s) OBVIOUS
    <3>3. ASSUME NEW c \in Calls, SniperOf[c] = s, StopTells(c) PROVE FALSE
      BY <3>1, <3>2, <3>3 DEF ToldByStore, StopTells, Works, Stop
    <3> QED BY <3>1, <3>2, <3>3 DEF Untold, ToldByStore
  <2>2. unprotected \subseteq Untold BY <2>1
  <2> HIDE DEF unprotected
  <2>3. IsFiniteSet(unprotected) /\ Cardinality(unprotected) <= Cardinality(Untold)
    BY <2>2, FS_Subset DEF DeathsExplain
  <2>4. Cardinality(unprotected) \in Nat /\ Cardinality(Untold) \in Nat
    BY <2>3, FS_CardinalityType DEF DeathsExplain
  <2>5. restarts \in Nat BY ConstantsAssumption DEF IInv, TypeOK
  <2> QED BY <2>3, <2>4, <2>5 DEF DeathsExplain, unprotected
<1> QED BY <1>1, <1>2, <1>3, <1>4, <1>5, PTL DEF Spec

-----------------------------------------------------------------------------
\* What overlapping calls can do to the limit.  The two guards are read before the
\* first await, so a call is admitted although others, admitted before, have still
\* to be counted.

\* Snipers with an entry that is counted in _open, or that a call is settling.
Tracked == openEntries \cup {SniperOf[c] : c \in Entering}

TrackedWithinReach == IsFiniteSet(Tracked) /\ Cardinality(Tracked) < MaxOpenTrades + Concurrency

\* While a process lives, the positions whose entries did not fail on record are
\* fewer than the limit and the calls that may overlap together: every overlapping
\* call but the one may add one position to the limit, and no more.
PositionsWithinReach ==
  restarts = 0 =>
    Cardinality({s \in positions : entryRow[s] \notin {"rejected", "error"}})
      < MaxOpenTrades + Concurrency

\* A subset of what is tracked is within reach too.
LEMMA ReachShrinks ==
  ASSUME TrackedWithinReach, NEW S \in SUBSET Tracked
  PROVE  IsFiniteSet(S) /\ Cardinality(S) < MaxOpenTrades + Concurrency
<1>1. IsFiniteSet(Tracked) /\ Cardinality(Tracked) < MaxOpenTrades + Concurrency
  BY DEF TrackedWithinReach
<1>2. IsFiniteSet(S) /\ Cardinality(S) <= Cardinality(Tracked) BY <1>1, FS_Subset
<1>3. Cardinality(S) \in Nat /\ Cardinality(Tracked) \in Nat BY <1>1, <1>2, FS_CardinalityType
<1>4. MaxOpenTrades + Concurrency \in Nat BY ConstantsAssumption
<1> QED BY <1>1, <1>2, <1>3, <1>4

\* A call that is admitted adds its sniper to fewer counted entries than the limit
\* and fewer calls than may overlap.
LEMMA AdmissionWithinReach ==
  ASSUME TypeOK, IsFiniteSet(Calls), IsFiniteSet(openEntries),
         NEW c \in Calls, MayEnter(c), Admits
  PROVE  /\ IsFiniteSet(Tracked \cup {SniperOf[c]})
         /\ Cardinality(Tracked \cup {SniperOf[c]}) < MaxOpenTrades + Concurrency
<1> DEFINE inside == {d \in Calls : InFlight(d)}
           entering == {SniperOf[d] : d \in Entering}
<1>1. MaxOpenTrades \in Nat /\ Concurrency \in Nat BY ConstantsAssumption
<1>2. IsFiniteSet(inside) /\ Cardinality(inside) \in Nat /\ Cardinality(inside) < Concurrency
  <2>1. inside \in SUBSET Calls OBVIOUS
  <2>2. Cardinality(inside) < Concurrency BY DEF MayEnter
  <2> HIDE DEF inside
  <2> QED BY <2>1, <2>2, FS_Subset, FS_CardinalityType
<1>3. IsFiniteSet(Entering) /\ Cardinality(Entering) <= Cardinality(inside)
  <2>1. Entering \in SUBSET inside BY DEF Entering, InFlight
  <2> HIDE DEF inside
  <2> QED BY <1>2, <2>1, FS_Subset
<1>4. IsFiniteSet(entering) /\ Cardinality(entering) <= Cardinality(Entering)
  <2> DEFINE f == [d \in Entering |-> SniperOf[d]]
  <2>1. f \in Surjection(Entering, entering) BY DEF Surjection
  <2> HIDE DEF f, entering
  <2> QED BY <1>3, <2>1, FS_Surjection
<1>5. IsFiniteSet(openLegs) /\ Cardinality(openLegs) \in Nat
  <2>1. IsFiniteSet(LegTypes)
    <3>1. IsFiniteSet({"TAKE_PROFIT_MARKET"}) BY FS_Singleton
    <3>2. IsFiniteSet({"TAKE_PROFIT_MARKET"} \cup {"STOP_MARKET"}) BY <3>1, FS_AddElement
    <3>3. LegTypes = {"TAKE_PROFIT_MARKET"} \cup {"STOP_MARKET"} BY DEF LegTypes
    <3> QED BY <3>2, <3>3
  <2>2. IsFiniteSet(Legs) BY <2>1, FS_Product DEF Legs
  <2>3. openLegs \in SUBSET Legs BY DEF TypeOK
  <2> QED BY <2>2, <2>3, FS_Subset, FS_CardinalityType
<1>6. Cardinality(openEntries) \in Nat /\ Cardinality(openEntries) < MaxOpenTrades
  <2>1. Cardinality(openEntries) \in Nat BY FS_CardinalityType
  <2>2. Cardinality(openEntries) + Cardinality(openLegs) < MaxOpenTrades BY DEF Admits, OpenCount
  <2> QED BY <1>1, <1>5, <2>1, <2>2
<1>7. Cardinality(Entering) \in Nat /\ Cardinality(entering) \in Nat
  <2> HIDE DEF entering
  <2> QED BY <1>3, <1>4, FS_CardinalityType
<1>8. Tracked = openEntries \cup entering BY DEF Tracked
<1> HIDE DEF inside, entering
<1>9. /\ IsFiniteSet(Tracked)
      /\ Cardinality(Tracked) = Cardinality(openEntries) + Cardinality(entering)
                                  - Cardinality(openEntries \cap entering)
  BY <1>4, <1>8, FS_Union
<1>10. Cardinality(openEntries \cap entering) \in Nat
  <2>1. openEntries \cap entering \in SUBSET entering OBVIOUS
  <2> QED BY <1>4, <2>1, FS_Subset, FS_CardinalityType
<1>11. Cardinality(Tracked) \in Nat BY <1>9, FS_CardinalityType
<1>12. /\ IsFiniteSet(Tracked \cup {SniperOf[c]})
       /\ Cardinality(Tracked \cup {SniperOf[c]}) <= Cardinality(Tracked) + 1
  <2>1. /\ IsFiniteSet(Tracked \cup {SniperOf[c]})
        /\ Cardinality(Tracked \cup {SniperOf[c]}) =
             IF SniperOf[c] \in Tracked THEN Cardinality(Tracked) ELSE Cardinality(Tracked) + 1
    BY <1>9, FS_AddElement
  <2> QED BY <1>11, <2>1
<1>13. Cardinality(Tracked \cup {SniperOf[c]}) \in Nat BY <1>12, FS_CardinalityType
<1> QED BY <1>1, <1>2, <1>3, <1>4, <1>6, <1>7, <1>9, <1>10, <1>11, <1>12, <1>13

\* Only a call that is admitted lets what is tracked grow, and by its own sniper.
LEMMA TrackedStep ==
  ASSUME TypeOK, [Next]_vars
  PROVE  \/ Tracked' \subseteq Tracked
         \/ \E c \in Calls : /\ MayEnter(c) /\ Admits
                             /\ Tracked' \subseteq Tracked \cup {SniperOf[c]}
<1>0. call \in [Calls -> CallStates] BY DEF TypeOK
<1>1. ASSUME NEW c \in Calls, RefuseSniper(c) PROVE Tracked' \subseteq Tracked
  <2>1. \A d \in Calls : call'[d].pc \in {"entry_send", "entry_reply"} => call'[d] = call[d]
    BY <1>0, <1>1 DEF RefuseSniper, Returned, CallAt
  <2> QED BY <1>1, <2>1 DEF RefuseSniper, openVars, Tracked, Entering
<1>2. ASSUME NEW c \in Calls, AdoptOrder(c)
      PROVE  MayEnter(c) /\ Admits /\ Tracked' \subseteq Tracked \cup {SniperOf[c]}
  <2>1. \A d \in Calls : call'[d].pc \in {"entry_send", "entry_reply"} => call'[d] = call[d]
    BY <1>0, <1>2 DEF AdoptOrder, StartLeg, LegSent, CallAt
  <2> QED BY <1>2, <2>1 DEF AdoptOrder, Tracked, Entering
<1>3. ASSUME NEW c \in Calls, SubmitSniperMarket(c)
      PROVE  MayEnter(c) /\ Admits /\ Tracked' \subseteq Tracked \cup {SniperOf[c]}
  <2>1. \A d \in Calls : d = c \/ call'[d] = call[d] BY <1>0, <1>3 DEF SubmitSniperMarket
  <2> QED BY <1>3, <2>1 DEF SubmitSniperMarket, openVars, Tracked, Entering
<1>4. ASSUME NEW c \in Calls, BrokerAnswers(c) PROVE Tracked' \subseteq Tracked
  <2>1. \A d \in Calls : call'[d].pc \in {"entry_send", "entry_reply"}
                           => call[d].pc \in {"entry_send", "entry_reply"}
    BY <1>0, <1>4 DEF BrokerAnswers, BrokerExecutesEntry, BrokerRefusesEntry, BrokerAcceptsLeg,
         BrokerRefusesLeg, EntryReply, LegReply, CallAt
  <2>2. openEntries' = openEntries
    BY <1>4 DEF BrokerAnswers, BrokerExecutesEntry, BrokerRefusesEntry, BrokerAcceptsLeg,
         BrokerRefusesLeg, openVars
  <2> QED BY <2>1, <2>2 DEF Tracked, Entering
<1>5. ASSUME NEW c \in Calls, EntryAcked(c) PROVE Tracked' \subseteq Tracked
  <2>1. \A d \in Calls : call'[d].pc \in {"entry_send", "entry_reply"} => call'[d] = call[d]
    BY <1>0, <1>5 DEF EntryAcked, StartLeg, LegSent, CallAt
  <2>2. c \in Entering BY <1>5 DEF EntryAcked, EntryAnswered, Entering
  <2> QED BY <1>5, <2>1, <2>2 DEF EntryAcked, Tracked, Entering
<1>6. ASSUME NEW c \in Calls, EntryRetried(c) \/ EntryRejected(c) \/ EntryErrored(c)
      PROVE  Tracked' \subseteq Tracked
  <2>1. \A d \in Calls : call'[d].pc \in {"entry_send", "entry_reply"}
                           => call[d].pc \in {"entry_send", "entry_reply"}
    BY <1>0, <1>6 DEF EntryRetried, EntryRejected, EntryErrored, EntryAnswered, EntrySent,
         Returned, CallAt
  <2>2. openEntries' = openEntries BY <1>6 DEF EntryRetried, EntryRejected, EntryErrored, openVars
  <2> QED BY <2>1, <2>2 DEF Tracked, Entering
<1>7. ASSUME NEW c \in Calls, LegAcked(c) \/ LegRejected(c) \/ LegErrored(c)
      PROVE  Tracked' \subseteq Tracked
  <2>1. \A d \in Calls : call'[d].pc \in {"entry_send", "entry_reply"} => call'[d] = call[d]
    BY <1>0, <1>7 DEF LegAcked, LegRejected, LegErrored, SettleLeg, StartLeg, LegSent, Returned,
         CallAt
  <2>2. openEntries' = openEntries BY <1>7 DEF LegAcked, LegRejected, LegErrored, openVars
  <2> QED BY <2>1, <2>2 DEF Tracked, Entering
<1>8. ASSUME Restart \/ \E c \in Calls : DiesBetweenWrites(c)
      PROVE  Tracked' \subseteq Tracked
  <2>0. ProcessLost BY <1>8 DEF Restart, DiesBetweenWrites
  <2>1. \A d \in Calls : call'[d].pc \in {"entry_send", "entry_reply"} => call'[d] = call[d]
    BY <1>0, <2>0 DEF ProcessLost, Returned, CallAt
  <2> QED BY <2>0, <2>1 DEF ProcessLost, Tracked, Entering
<1>9. CASE FreezeExpires \/ (\E l \in Legs : LegTriggers(l)) \/ UNCHANGED vars
  BY <1>9 DEF FreezeExpires, LegTriggers, vars, openVars, Tracked, Entering
<1> QED
  BY <1>1, <1>2, <1>3, <1>4, <1>5, <1>6, <1>7, <1>8, <1>9 DEF Next, Enter, Resume

LEMMA NextTracked ==
  ASSUME TypeOK, IsFiniteSet(Calls), TrackedWithinReach, [Next]_vars
  PROVE  TrackedWithinReach'
<1>1. CASE Tracked' \subseteq Tracked
  <2>1. IsFiniteSet(Tracked') /\ Cardinality(Tracked') < MaxOpenTrades + Concurrency
    BY <1>1, ReachShrinks
  <2> QED BY <2>1 DEF TrackedWithinReach
<1>2. ASSUME NEW c \in Calls, MayEnter(c), Admits, Tracked' \subseteq Tracked \cup {SniperOf[c]}
      PROVE  TrackedWithinReach'
  <2> DEFINE grown == Tracked \cup {SniperOf[c]}
  <2>1. IsFiniteSet(openEntries)
    <3>1. openEntries \in SUBSET Tracked BY DEF Tracked
    <3> QED BY <3>1, ReachShrinks
  <2>2. IsFiniteSet(grown) /\ Cardinality(grown) < MaxOpenTrades + Concurrency
    BY <1>2, <2>1, AdmissionWithinReach
  <2>3. Tracked' \in SUBSET grown BY <1>2
  <2> HIDE DEF grown
  <2>4. IsFiniteSet(Tracked') /\ Cardinality(Tracked') <= Cardinality(grown)
    BY <2>2, <2>3, FS_Subset
  <2>5. Cardinality(grown) \in Nat /\ Cardinality(Tracked') \in Nat
    BY <2>2, <2>4, FS_CardinalityType
  <2>6. MaxOpenTrades + Concurrency \in Nat BY ConstantsAssumption
  <2>7. Cardinality(Tracked') < MaxOpenTrades + Concurrency BY <2>2, <2>4, <2>5, <2>6
  <2> QED BY <2>4, <2>7 DEF TrackedWithinReach
<1> QED BY <1>1, <1>2, TrackedStep

\* Overlapping calls exceed max_open_trades by at most their number less one (the run
\* order_cap shows that two calls do exceed it by one).
THEOREM OvershootBounded ==
  ASSUME IsFiniteSet(Calls), Concurrency # 0
  PROVE  Spec => []PositionsWithinReach
<1>1. Init => TrackedWithinReach
  <2> SUFFICES ASSUME Init PROVE TrackedWithinReach OBVIOUS
  <2>1. Entering = {} BY DEF Init, Entering, NotCalled, CallAt
  <2>2. Tracked = {} BY <2>1 DEF Init, Tracked
  <2>3. 0 < MaxOpenTrades + Concurrency BY ConstantsAssumption
  <2> QED BY <2>2, <2>3, FS_EmptySet DEF TrackedWithinReach
<1>2. Init => IInv BY InitIInv
<1>3. IInv /\ [Next]_vars => IInv' BY NextIInv
<1>4. IInv /\ TrackedWithinReach /\ [Next]_vars => TrackedWithinReach'
  BY NextTracked DEF IInv
<1>5. IInv /\ TrackedWithinReach => PositionsWithinReach
  <2> SUFFICES ASSUME IInv, TrackedWithinReach, restarts = 0
               PROVE  Cardinality({s \in positions : entryRow[s] \notin {"rejected", "error"}})
                        < MaxOpenTrades + Concurrency
    BY DEF PositionsWithinReach
  <2> DEFINE held == {s \in positions : entryRow[s] \notin {"rejected", "error"}}
  <2>1. ~(restarts > 0) OBVIOUS
  <2>2. held \in SUBSET Tracked BY <2>1 DEF IInv, UntrackedIsExplained, Tracked
  <2> HIDE DEF held
  <2>3. Cardinality(held) < MaxOpenTrades + Concurrency BY <2>2, ReachShrinks
  <2> QED BY <2>3 DEF held
<1> QED BY <1>1, <1>2, <1>3, <1>4, <1>5, PTL DEF Spec
=============================================================================
