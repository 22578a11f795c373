----------------------------- MODULE MCBacktest -----------------------------
EXTENDS Backtest
\* A bar around the middle, one below all zones, and one at their upper edge.
MCBars ==
  {[open |-> 2, high |-> 3, low |-> 1, close |-> 2],
   [open |-> 0, high |-> 1, low |-> 0, close |-> 0],
   [open |-> 3, high |-> 4, low |-> 3, close |-> 4]}
\* A zone that is never inverted, one that is, and a narrow one of the other side.
MCZones ==
  {[low |-> 1, high |-> 3, dir |-> 1, inverted |-> FALSE],
   [low |-> 1, high |-> 3, dir |-> 1, inverted |-> TRUE],
   [low |-> 2, high |-> 3, dir |-> -1, inverted |-> TRUE]}
MCSizes == {[stop |-> 2, target |-> 3]}
\* Half the stop after a bar, none after two.
MCDecay == <<<<2, 0>>, <<1, 50>>>>
=============================================================================
