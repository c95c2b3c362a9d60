---------------------------- MODULE KalmanPredictor ----------------------------
(***************************************************************************)
(* The Kalman predictor (kalman_predictor.cc) as the facade uses it: it is *)
(* given the corrected positions of a stroke and their times, estimates    *)
(* where the tip really is, and constructs a prediction: one cubic from    *)
(* the tip to the estimate, and one beyond it.                             *)
(*                                                                         *)
(* One axis is modelled; the other is alike, and they share only counts    *)
(* and times.  Positions and what is derived from them are in the field of *)
(* KalmanFilter, times are integers.  What depends on lengths is chosen:   *)
(* the number of points of the connector, and the part of the confidence   *)
(* that is not due to the number of samples.                               *)
(***************************************************************************)
EXTENDS KalmanFilter, SequencesExt

CONSTANTS
  Params,             \* the counts of KalmanPredictorParams
  AccelerationWeight, \* acceleration_weight
  JerkWeight,         \* jerk_weight
  Tick,               \* 1 / min_output_rate
  Interval,           \* prediction_interval
  Inputs,             \* corrected inputs of a stroke: position, time
  Tips,               \* tips a prediction may start from: position, velocity
  ConnectorSizes,     \* numbers of points of the connector
  NoStroke,           \* no stroke in progress
  NoSave,             \* Save has not been called
  NoOutput,           \* the last call was not Predict
  NotFinite,          \* a number that is infinite or NaN
  MaxInputs           \* bound: inputs of one stroke

ParamsType ==
  [maxTimeSamples : Nat \ {0}, minStableIteration : Nat \ {0},
   desiredNumberOfSamples : Nat \ {0}]

ASSUME ParamsAssumption ==
  /\ Params \subseteq ParamsType
  /\ {AccelerationWeight, JerkWeight} \subseteq Field
  /\ Tick \in 1 .. Prime - 1 /\ Interval \in Nat \ {0}
ASSUME InputsAssumption ==
  /\ Inputs \subseteq [position : Field, time : 0 .. Prime - 1]
  /\ Tips \subseteq [position : Field, velocity : Field]
  /\ ConnectorSizes \subseteq 1 .. Prime - 1
ASSUME NoStrokeAssumption == NoStroke \notin Nat
ASSUME BoundsAssumption == MaxInputs \in Nat

VARIABLES
  params,   \* predictor_params_
  filter,   \* x_predictor_
  times,    \* sample_times_
  saved,    \* saved_predictor_ and the time of saved_last_input_, or NoSave
  output,   \* what the last Predict constructed, or NoOutput
  lastTime, \* time of the facade's last_input_, or NoStroke
  history   \* auxiliary: all inputs of the stroke, with what Save kept of them

vars == <<params, filter, times, saved, output, lastTime, history>>

-----------------------------------------------------------------------------
(* The input *)

\* Mutant: one time more than max_time_samples is kept.
PushTimeLate(s, time) ==
  LET all == Append(s, time)
  IN  IF Len(all) > params.maxTimeSamples + 1 THEN Tail(all) ELSE all

\* Mutant: the latest time is dropped, not the oldest.
PushTimeAtEnd(s, time) ==
  LET all == Append(s, time)
  IN  IF Len(all) > params.maxTimeSamples THEN s ELSE all

PushTime(s, time) ==
  LET all == Append(s, time)
  IN  IF Len(all) > params.maxTimeSamples THEN Tail(all) ELSE all

-----------------------------------------------------------------------------
(* The prediction *)

\* Mutant: one iteration later.
StableLater == filter.iterations > params.minStableIteration

IsStable == filter.iterations >= params.minStableIteration

Span == Last(times) - Head(times)

\* GetEstimatedState: the filter takes the time between samples to be one.
EstimatedState ==
  LET dt == Over(Span, Len(times))
  IN  [position     |-> filter.estimate[1],
       velocity     |-> Over(filter.estimate[2], dt),
       acceleration |-> (Over(filter.estimate[3], (dt * dt) % Prime)
                           * AccelerationWeight) % Prime,
       jerk         |-> (Over(filter.estimate[4], (((dt * dt) % Prime) * dt) % Prime)
                           * JerkWeight) % Prime]

\* Mutant: no jerk in the velocity.
CubicWithoutJerk(s, dt) ==
  LET dt2 == (dt * dt) % Prime
      dt3 == (dt2 * dt) % Prime
  IN  [s EXCEPT
         !.position = (@ + s.velocity * dt + Over(s.acceleration * dt2, 2)
                         + Over(s.jerk * dt3, 6)) % Prime,
         !.velocity = (@ + s.acceleration * dt) % Prime,
         !.acceleration = (@ + s.jerk * dt) % Prime]

EvaluateCubic(s, dt) ==
  LET dt2 == (dt * dt) % Prime
      dt3 == (dt2 * dt) % Prime
  IN  [s EXCEPT
         !.position = (@ + s.velocity * dt + Over(s.acceleration * dt2, 2)
                         + Over(s.jerk * dt3, 6)) % Prime,
         !.velocity = (@ + s.acceleration * dt + Over(s.jerk * dt2, 2)) % Prime,
         !.acceleration = (@ + s.jerk * dt) % Prime]

Point(position, velocity, time) ==
  [position |-> position, velocity |-> velocity, time |-> time]

\* The time of the connector's i-th point of n: at i / n of the duration.
TimeAlong(duration, i, n) == lastTime + (duration * i) \div n

\* ConstructCubicConnector, with n points.  Without time between the samples
\* the estimated velocity is not finite, and neither is any point.
Connector(tip, estimate, n) ==
  LET duration == n * Tick
      a == 2 * tip.position - 2 * estimate.position
             + (tip.velocity + estimate.velocity) * duration
      b == -3 * tip.position + 3 * estimate.position
             - (2 * tip.velocity + estimate.velocity) * duration
      c == tip.velocity * duration
      At(i) ==
        LET t == Over(i, n)
            t2 == (t * t) % Prime
            t3 == (t2 * t) % Prime
        IN  Point(((a % Prime) * t3 + (b % Prime) * t2 + c * t + tip.position) % Prime,
                  Over(((3 * a) % Prime) * t2 + ((2 * b) % Prime) * t + c, duration),
                  TimeAlong(duration, i, n))
  IN  [i \in 1 .. n |->
         IF Span = 0 THEN Point(NotFinite, NotFinite, TimeAlong(duration, i, n))
         ELSE At(i)]

\* Mutant: the second cubic starts at the time of the tip, too.
StartAtTip(connector) == lastTime

\* The second cubic starts where the first one ended.
StartAfter(connector) == IF connector = <<>> THEN lastTime ELSE Last(connector).time

\* ConstructCubicPrediction: state and time go from point to point.
Beyond(estimate, start, count) ==
  LET current[k \in 0 .. count] ==
        IF k = 0 THEN [state |-> estimate, time |-> start]
        ELSE [state |-> EvaluateCubic(current[k - 1].state, Tick),
              time  |-> current[k - 1].time + Tick]
  IN  [k \in 1 .. count |-> Point(current[k].state.position,
                                  current[k].state.velocity, current[k].time)]

CeilDiv(a, b) == (a + b - 1) \div b

\* NumberOfPointsToPredict: any count up to what the number of samples allows;
\* the other three factors of the confidence are in the interval from 0 to 1.
\* One that is not a number makes it none.  It is rounded up, so that the points
\* may go beyond prediction_interval, which params.h:262-267 excludes.
PredictedCounts ==
  LET n == Min({filter.iterations, params.desiredNumberOfSamples})
  IN  IF Span = 0 THEN {0}
      ELSE 0 .. CeilDiv(Interval * n, Tick * params.desiredNumberOfSamples)

-----------------------------------------------------------------------------
(* The operations, as the facade calls them *)

Init ==
  /\ params \in Params
  /\ filter = NewFilter
  /\ times = <<>>
  /\ saved = NoSave
  /\ output = NoOutput
  /\ lastTime = NoStroke
  /\ history = [now |-> <<>>, saved |-> <<>>]

\* A Down: Reset, then Update.
ResetAndUpdate(in) ==
  /\ lastTime = NoStroke
  /\ filter' = FilterUpdate(FilterReset(filter), in.position)
  /\ times' = PushTime(<<>>, in.time)
  /\ lastTime' = in.time
  /\ output' = NoOutput
  /\ history' = [history EXCEPT !.now = <<in>>]
  /\ UNCHANGED <<params, saved>>

\* A Move that was accepted.
Update(in) ==
  /\ lastTime # NoStroke /\ in.time >= lastTime
  /\ Len(history.now) < MaxInputs
  /\ filter' = FilterUpdate(filter, in.position)
  /\ times' = PushTime(times, in.time)
  /\ lastTime' = in.time
  /\ output' = NoOutput
  /\ history' = [history EXCEPT !.now = Append(@, in)]
  /\ UNCHANGED <<params, saved>>

\* An Up does not reach the predictor.
EndStroke ==
  /\ lastTime # NoStroke
  /\ lastTime' = NoStroke
  /\ output' = NoOutput
  /\ UNCHANGED <<params, filter, times, saved, history>>

\* ConstructPrediction, from a tip at the time of the last input.  It is const:
\* a second one from the same tip would be the same.
ConstructPrediction(tip) ==
  /\ lastTime # NoStroke /\ output = NoOutput
  /\ IF IsStable
     THEN \E n \in ConnectorSizes, count \in PredictedCounts :
            LET estimate == IF Span = 0 THEN NotFinite ELSE EstimatedState
                connector == Connector(tip, estimate, n)
            IN  output' = [tip |-> tip, estimate |-> estimate, connector |-> n,
                           points |-> connector
                             \o Beyond(estimate, StartAfter(connector), count)]
     ELSE output' = [tip |-> tip, estimate |-> NotFinite, connector |-> 0, points |-> <<>>]
  /\ UNCHANGED <<params, filter, times, saved, lastTime, history>>

\* MakeCopy, both ways.
Save ==
  /\ saved' = [filter |-> filter, times |-> times, lastTime |-> lastTime]
  /\ history' = [history EXCEPT !.saved = history.now]
  /\ output' = NoOutput
  /\ UNCHANGED <<params, filter, times, lastTime>>

Restore ==
  /\ saved # NoSave
  /\ filter' = saved.filter
  /\ times' = saved.times
  /\ lastTime' = saved.lastTime
  /\ history' = [history EXCEPT !.now = history.saved]
  /\ output' = NoOutput
  /\ UNCHANGED <<params, saved>>

Next ==
  \/ \E in \in Inputs : ResetAndUpdate(in) \/ Update(in)
  \/ \E tip \in Tips : ConstructPrediction(tip)
  \/ EndStroke
  \/ Save
  \/ Restore

Spec == Init /\ [][Next]_vars

-----------------------------------------------------------------------------
(* Properties *)

FilterType ==
  [estimate : [1 .. 4 -> Field], covariance : [1 .. 4 -> [1 .. 4 -> Field]],
   iterations : Nat]

\* The types of kalman_filter.h:53-90 and kalman_predictor.h:95-103; the deque of
\* times is bounded (params.h:242-246) and empty only before the first stroke.
TypeOK ==
  /\ params \in Params
  /\ filter \in FilterType
  /\ times \in Seq(Nat) /\ Len(times) <= params.maxTimeSamples
  /\ lastTime \in Nat \cup {NoStroke}
  /\ lastTime # NoStroke => times # <<>> /\ filter.iterations > 0

\* sample_times_ (kalman_predictor.cc:53-67) holds the latest times of this
\* stroke, as many as allowed, after any Reset and Restore.
WindowIsLatestTimes ==
  LET n == Len(history.now)
      kept == Min({n, params.maxTimeSamples})
  IN  times = [i \in 1 .. kept |-> history.now[n - kept + i].time]

\* The filter after these inputs and no others.
Filtered(inputs, shift) ==
  LET after[n \in 0 .. Len(inputs)] ==
        IF n = 0 THEN NewFilter
        ELSE FilterUpdate(after[n - 1], (inputs[n].position + shift) % Prime)
  IN  after[Len(inputs)]

\* The filter (kalman_filter.cc:72-76, stroke_modeler.cc:214-217) knows this
\* stroke and nothing of an earlier one, also when a copy was restored.
FilterIsOfThisStroke ==
  output = NoOutput => filter = Filtered(history.now, 0)

\* Where the origin is does not matter to the estimate: the same stroke
\* elsewhere has its estimated position elsewhere, by as much, and the same
\* velocity, acceleration, jerk and covariance (kalman_filter.cc:44-69).
EstimateShifts ==
  output = NoOutput /\ history.now # <<>> =>
    Filtered(history.now, 5)
      = [filter EXCEPT !.estimate[1] = (@ + 5) % Prime]

\* The covariance stays symmetric, and the Joseph form of kalman_filter.cc:63-69
\* is what the gain of least variance gives: a position measured with variance
\* R changes estimate and covariance in proportion to the covariances with the
\* position, of what was predicted.
FilterIsOptimal ==
  output = NoOutput /\ Len(history.now) > 1 =>
    LET prior == FilterPredict(Filtered(Front(history.now), 0))
        P == prior.covariance
        S == (P[1][1] + MeasurementNoise) % Prime
        residual == (Last(history.now).position - prior.estimate[1]) % Prime
    IN  \A i \in 1 .. 4 :
          /\ filter.estimate[i]
               = (prior.estimate[i] + Over(P[i][1] * residual, S)) % Prime
          /\ \A j \in 1 .. 4 :
               /\ filter.covariance[i][j] = (P[i][j] - Over(P[i][1] * P[1][j], S)) % Prime
               /\ filter.covariance[i][j] = filter.covariance[j][i]

\* There is a prediction exactly from min_stable_iteration inputs of the stroke
\* on (params.h:238-240, kalman_predictor.cc:109-116); it has at least the point
\* that reaches the estimate.
PredictsFromStableOn ==
  output # NoOutput =>
    (output.points # <<>> <=> Len(history.now) >= params.minStableIteration)

\* The points are one step of the output rate apart from the tip on, also where
\* the one cubic, which divides its duration, is followed by the other, which
\* adds up steps (kalman_predictor.cc:118-136, 214-220).
PredictionAdvances ==
  output # NoOutput =>
    \A k \in DOMAIN output.points : output.points[k].time = lastTime + k * Tick

\* With time between the samples, the prediction is one smooth curve: from the
\* position and velocity of the tip to those of the estimate by the cubic
\* Hermite interpolation, and on along the estimate's own cubic
\* (kalman_predictor.cc:128-228), although the one is computed from solved
\* coefficients and the other from point to point.
PredictionIsSmooth ==
  output # NoOutput /\ output.estimate # NotFinite =>
    LET e == output.estimate
        n == output.connector
        duration == n * Tick
    IN  \A k \in DOMAIN output.points :
          LET t  == Over(k, n)
              t2 == (t * t) % Prime
              t3 == (t2 * t) % Prime
              hermite == output.tip.position * (1 - 3 * t2 + 2 * t3)
                           + e.position * (3 * t2 - 2 * t3)
                           + output.tip.velocity * duration * (t - 2 * t2 + t3)
                           + e.velocity * duration * (t3 - t2)
              later == (k - n) * Tick
          IN  IF k <= n
              THEN /\ output.points[k].position = hermite % Prime
                   /\ k = n => output.points[k].velocity = e.velocity
              ELSE output.points[k].position = EvaluateCubic(e, later).position
=============================================================================
