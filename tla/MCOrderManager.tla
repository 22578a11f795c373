--------------------------- MODULE MCOrderManager ---------------------------
(***************************************************************************)
(* Small instances of OrderManager: two of the calls are for the same      *)
(* sniper (overlapping walks, or a walk after a restart).                  *)
(***************************************************************************)
EXTENDS OrderManager

CONSTANTS c1, c2, c3, s1, s2

MCSniperOf == [c \in Calls |-> IF c = c3 THEN s2 ELSE s1]
=============================================================================
