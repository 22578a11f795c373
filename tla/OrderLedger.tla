---------------------------- MODULE OrderLedger ----------------------------
(***************************************************************************)
(* What the order manager promises about entry orders, whatever walks      *)
(* overlap, replies get lost or processes die: an order is written down    *)
(* before the broker may execute it, what is written down is never         *)
(* forgotten, and no sniper's order executes twice.                        *)
(***************************************************************************)
EXTENDS Naturals

CONSTANT Snipers

VARIABLES
  recorded,     \* snipers whose entry order has a row in the store
  executions    \* how many entry orders of a sniper the broker executed

ledgerVars == <<recorded, executions>>

LedgerInit ==
  /\ recorded = {}
  /\ executions = [s \in Snipers |-> 0]

Record(s) ==
  /\ recorded' = recorded \cup {s}
  /\ UNCHANGED executions

Execute(s) ==
  /\ s \in recorded
  /\ executions[s] = 0
  /\ executions' = [executions EXCEPT ![s] = 1]
  /\ UNCHANGED recorded

LedgerNext == \E s \in Snipers : Record(s) \/ Execute(s)

LedgerSpec == LedgerInit /\ [][LedgerNext]_ledgerVars
=============================================================================
