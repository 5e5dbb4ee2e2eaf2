---------------------------- MODULE MCPseudoTcp ----------------------------
(* The instances of PseudoTcp that TLC checks: data goes from a to b.      *)
EXTENDS PseudoTcp, TLC

CONSTANTS a, b

Both(x, y) == a :> x @@ b :> y

\* One packet each way at a time, and no other bound: both ends may open, any
\* write may fail, packets arrive again and timers run out at any time.
Unbounded ==
  [mss |-> 1, cwnds |-> {1, 2}, data |-> Both(2, 0), packets |-> Both(1, 1),
   openers |-> {a, b}, failures |-> -1, repeats |-> -1, expiries |-> -1]

\* More data than the receive buffer holds, and packets that overtake each
\* other; n timers run out, m packets arrive again.
Reordered(n, m) ==
  [mss |-> 1, cwnds |-> {3}, data |-> Both(4, 0), packets |-> Both(2, 2),
   openers |-> {a}, failures |-> 0, repeats |-> m, expiries |-> n]

\* Segments of two bytes that are cut where the window ends, or wait for more.
Cut ==
  [mss |-> 2, cwnds |-> {4}, data |-> Both(5, 0), packets |-> Both(2, 2),
   openers |-> {a}, failures |-> 0, repeats |-> 0, expiries |-> 2]

AllScenarios == {Unbounded, Reordered(2, 0), Reordered(1, 1), Cut}
=============================================================================
