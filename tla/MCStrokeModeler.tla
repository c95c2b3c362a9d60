--------------------------- MODULE MCStrokeModeler ---------------------------
(***************************************************************************)
(* Small instances of StrokeModeler: a handful of inputs on which every    *)
(* guard of Update can go either way, and parameter sets with and without  *)
(* each optional component.                                                *)
(***************************************************************************)
EXTENDS StrokeModeler

CONSTANTS a, b, far, nan   \* positions; far may overflow, nan is not finite

Known == [f \in Fields |-> "known"]

In(event, pos, time, stylusState) ==
  [event |-> event, position |-> pos, time |-> time, stylus |-> stylusState]

NoPressure == [Known EXCEPT !["pressure"] = "nan"]
NoneKnown == [f \in Fields |-> "negative"]

\* With outputInterval 2: time 1 to 2 takes one step, 1 to 4 two, 1 to 9 four.
MCInputs == {
  In("down", a, 1, Known),
  In("down", b, 2, NoneKnown),
  In("move", b, 1, NoPressure),     \* no time has passed since the first Down
  In("move", a, 2, Known),
  In("move", b, 4, NoneKnown),
  In("move", far, 4, Known),        \* may overflow
  In("move", a, 9, NoPressure),     \* too far apart
  In("up", b, 4, Known) }

\* The session runs also have an Up that fails and an invalid position.
MCSessionInputs == MCInputs \cup {
  In("up", a, 9, Known),
  In("move", nan, 4, Known) }

\* Fewer inputs for the client that calls anything at any time.
MCFewInputs == {
  In("down", a, 1, Known),
  In("down", b, 1, NoneKnown),
  In("move", a, 4, NoneKnown),
  In("move", a, 9, NoPressure),
  In("up", b, 4, Known) }

MCParam(prediction, wobbleOn, loopOn, normalOn, ok) ==
  [prediction |-> prediction, wobbleEnabled |-> wobbleOn,
   loopEnabled |-> loopOn, normalProjection |-> normalOn, inRange |-> ok,
   outputInterval |-> 2, maxOutputs |-> 2, angleSteps |-> 0,
   endIterations |-> 1, minStable |-> 2]

\* Two parameter sets with a predictor, and two that Reset must refuse.
MCParams == {
  MCParam("kalman", TRUE, TRUE, TRUE, TRUE),
  [MCParam("strokeEnd", FALSE, FALSE, FALSE, TRUE) EXCEPT !.angleSteps = 3],
  MCParam("kalman", TRUE, TRUE, FALSE, TRUE),
  MCParam("kalman", TRUE, FALSE, FALSE, FALSE) }

\* Prediction comes and goes; the last one Reset must refuse.
MCToggledParams == {
  MCParam("strokeEnd", TRUE, FALSE, FALSE, TRUE),
  MCParam("disabled", TRUE, TRUE, TRUE, TRUE),
  MCParam("strokeEnd", TRUE, TRUE, FALSE, TRUE) }

MCFarPositions == {far}
MCNonFinite == {nan}
=============================================================================
