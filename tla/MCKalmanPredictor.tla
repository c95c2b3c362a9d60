--------------------------- MODULE MCKalmanPredictor ---------------------------
(***************************************************************************)
(* A small instance of KalmanPredictor.                                    *)
(***************************************************************************)
EXTENDS KalmanPredictor

\* Windows of one time, of some and of all; stable at once or later; the
\* desired number of samples reached and not.
MCParams == {
  [maxTimeSamples |-> 1, minStableIteration |-> 1, desiredNumberOfSamples |-> 1],
  [maxTimeSamples |-> 2, minStableIteration |-> 2, desiredNumberOfSamples |-> 2],
  [maxTimeSamples |-> 3, minStableIteration |-> 3, desiredNumberOfSamples |-> 4] }

MCIn(position, time) == [position |-> position, time |-> time]

\* Equal times, a short and a longer time between two inputs.
MCInputs == {MCIn(0, 0), MCIn(7, 0), MCIn(7, 2), MCIn(3, 5)}

MCTips == {[position |-> 0, velocity |-> 0], [position |-> 4, velocity |-> 2]}
=============================================================================
