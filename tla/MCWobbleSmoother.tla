--------------------------- MODULE MCWobbleSmoother ---------------------------
(***************************************************************************)
(* Small instances of WobbleSmoother.                                      *)
(***************************************************************************)
EXTENDS WobbleSmoother

\* A window of one or two inputs, a window of many with a step from floor to
\* ceiling, and no smoothing.
MCParams == {
  [enabled |-> TRUE, timeout |-> 1, speedFloor |-> 1, speedCeiling |-> 4],
  [enabled |-> TRUE, timeout |-> 3, speedFloor |-> 2, speedCeiling |-> 2],
  [enabled |-> TRUE, timeout |-> 0, speedFloor |-> 0, speedCeiling |-> 9],
  [enabled |-> FALSE, timeout |-> 0, speedFloor |-> 0, speedCeiling |-> 0] }

\* Near and far positions: speeds below, between and above the bounds.
MCPositions == {-1, 0, 6}
MCTimes == {0, 1, 2, 4}
=============================================================================
