----------------------------- MODULE BarWindow -----------------------------
(***************************************************************************)
(* What the detectors are promised: the newest bars, at most Size of them, *)
(* in the order in which they closed.                                      *)
(***************************************************************************)
EXTENDS Naturals, Sequences

CONSTANT Size

VARIABLE window

Init == window = <<>>

With(bar) == IF Len(window) < Size THEN Append(window, bar) ELSE Append(Tail(window), bar)

\* Some bar has closed, and is the last one now.
Push ==
  /\ window' # <<>>
  /\ window' = With(window'[Len(window')])

\* A new process starts with nothing.
Reset == window' = <<>>

Next == Push \/ Reset

WindowSpec == Init /\ [][Next]_window
=============================================================================
