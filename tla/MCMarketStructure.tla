-------------------------- MODULE MCMarketStructure --------------------------
EXTENDS MarketStructure
Flat(p) == [high |-> p, low |-> p, close |-> p]

\* Two bars without a wick and one that closes at each end of its own: seven of these
\* make three breaks in a row, breaks that are committed out of order, and sweeps.
MCBars == {Flat(1), Flat(2), [high |-> 3, low |-> 0, close |-> 0], [high |-> 4, low |-> 1, close |-> 4]}
=============================================================================
