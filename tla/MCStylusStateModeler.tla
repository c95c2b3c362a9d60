------------------------- MODULE MCStylusStateModeler -------------------------
(***************************************************************************)
(* A small instance of StylusStateModeler: inputs at several positions and *)
(* times, with and without all fields, and hits of a stroke normal on both *)
(* sides.                                                                  *)
(***************************************************************************)
EXTENDS StylusStateModeler

MCParam(normal, maxSamples, minSamples, minDuration) ==
  [normalProjection |-> normal, maxSamples |-> maxSamples,
   minSamples |-> minSamples, minDuration |-> minDuration]

\* Windows bounded by a count, by duration, and by samples and duration.
MCParams == {
  MCParam(FALSE, 2, 1, 1), MCParam(TRUE, 1, 1, 1), MCParam(TRUE, 1, 2, 1) }

\* At each position another orientation, with FullTurn = 12: two of them are
\* nearer across zero, and one is given with a turn too much.
MCOrientation(position) ==
  CASE position = 0 -> 1 [] position = 2 -> 11 [] position = 5 -> 17

MCInput(position, time, unknown) ==
  [position |-> position, time |-> time, unknown |-> unknown,
   orientation |-> MCOrientation(position)]

MCPositions == {0, 4}

\* Two inputs may be at one time, at one position, a minDuration apart, or more;
\* four of them may have two evicted at once.
MCInputs == {
  MCInput(0, 0, {}), MCInput(5, 1, {"pressure"}), MCInput(0, 1, Fields),
  MCInput(5, 2, {"tilt", "orientation"}), MCInput(2, 3, {}) }

\* Near and far on one side and far on the other, at the start of a segment and
\* within.
MCHits == {
  [side |-> "left", distance |-> 1, num |-> 0, den |-> 2],
  [side |-> "left", distance |-> 2, num |-> 1, den |-> 2],
  [side |-> "right", distance |-> 2, num |-> 1, den |-> 2] }
=============================================================================
