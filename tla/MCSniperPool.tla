---------------------------- MODULE MCSniperPool ----------------------------
(* Small instances of SniperPool: one or two walks alive together.         *)
EXTENDS SniperPool

CONSTANTS bull, bear, w1, w2
=============================================================================
