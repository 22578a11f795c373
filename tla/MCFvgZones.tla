----------------------------- MODULE MCFvgZones -----------------------------
EXTENDS Signals
Flat(p) == [high |-> p, low |-> p, close |-> p]

\* Every bar that prices 0..4 can make.
MCBars == {bar \in [high : 0..4, low : 0..4, close : 0..4] : bar.low <= bar.close /\ bar.close <= bar.high}

\* The first seconds set the scene, the later ones choose among more.
Quiet == {Flat(1), Flat(3)}
Lively == {Flat(1), Flat(3), [high |-> 4, low |-> 0, close |-> 0], [high |-> 4, low |-> 2, close |-> 4]}
MCTicks == <<{Flat(1)}, {Flat(1)}, Quiet, Quiet, Quiet, {Flat(3)},
             Lively, Lively, Lively, Lively, Lively, Lively>>
=============================================================================
