--------------------------- MODULE ParamsValidation ---------------------------
(***************************************************************************)
(* The validation of parameters (params.cc, validation.h) in front of      *)
(* StrokeModeler::Reset: a client fills in a StrokeModelParams field by    *)
(* field and calls Reset, which adopts the parameters or refuses them.     *)
(*                                                                         *)
(* A floating-point number is an integer, in halves, or NaN; comparisons   *)
(* with NaN are false, as IEEE 754 has it.  The parameters are flat: a set *)
(* of switches and a value for each field.                                 *)
(***************************************************************************)
EXTENDS Integers

CONSTANTS
  Infinity,    \* greater than all finite numbers
  NaN,         \* not a number
  FirstParams, \* what the client starts from
  Floats,      \* values it may give to a field of a floating-point type
  Ints,        \* values it may give to a field of type int
  Unset,       \* stroke_model_params_ is empty
  MaxEdits     \* bound: fields and switches the client changes

Half == 1
One == 2 * Half

\* numbers.h, to the next half above: nothing in between is represented.
kPi == 7 * Half

kMaxEndOfStrokeMaxIterations == 1000
kMaxDiscreteSamples == 10000
kMaxSamplingWindow == 10000 * One

\* Loop mitigation and smoothing enabled, stroke normal projection used, the
\* Kalman predictor chosen.
Switches == {"loop", "smoother", "normal", "kalman"}

LoopFloats == {"speed_lower_bound", "speed_upper_bound", "strength_at_lower",
               "strength_at_upper", "min_speed_sampling_window"}
SmootherFloats == {"timeout", "speed_floor", "speed_ceiling"}
KalmanFloats ==
  {"process_noise", "measurement_noise", "min_catchup_velocity",
   "acceleration_weight", "jerk_weight", "prediction_interval",
   "max_estimation_distance", "min_travel_speed", "max_travel_speed",
   "max_linear_deviation", "baseline_linearity_confidence"}
FloatFields ==
  LoopFloats \cup SmootherFloats \cup KalmanFloats
    \cup {"spring_mass_constant", "drag_constant", "min_output_rate",
          "end_of_stroke_stopping_distance", "max_estimated_angle",
          "min_sample_duration"}
KalmanInts ==
  {"min_stable_iteration", "max_time_samples", "desired_number_of_samples"}
IntFields ==
  KalmanInts
    \cup {"min_discrete_speed_samples", "end_of_stroke_max_iterations",
          "max_outputs_per_call", "max_input_samples", "min_input_samples"}

Float == -Infinity .. Infinity \cup {NaN}
ParamsType ==
  [uses : SUBSET Switches, floats : [FloatFields -> Float],
   ints : [IntFields -> Int]]

ASSUME NumbersAssumption ==
  Infinity \in Int /\ Infinity > kMaxSamplingWindow /\ NaN \notin Int
ASSUME ValuesAssumption == Floats \subseteq Float /\ Ints \subseteq Int
ASSUME ParamsAssumption == FirstParams \subseteq ParamsType
ASSUME UnsetAssumption == Unset \notin ParamsType
ASSUME BoundsAssumption == MaxEdits \in Nat

VARIABLES
  candidate, \* the StrokeModelParams the client is filling in
  edits,     \* how often it did so
  held,      \* stroke_model_params_
  status     \* what the last Reset returned

vars == <<candidate, edits, held, status>>

-----------------------------------------------------------------------------
(* Numbers *)

Less(x, y) == x # NaN /\ y # NaN /\ x < y
AtMost(x, y) == x # NaN /\ y # NaN /\ x <= y

ValidateIsFiniteNumber(x) == x \notin {NaN, Infinity, -Infinity}

ValidateGreaterThanZero(x) == ValidateIsFiniteNumber(x) /\ ~AtMost(x, 0)

ValidateGreaterThanOrEqualToZero(x) == ValidateIsFiniteNumber(x) /\ ~Less(x, 0)

-----------------------------------------------------------------------------
(* The validators *)

\* Mutant: is_enabled is not looked at.
SmootherAlwaysChecked(p) ==
  LET f == p.floats
  IN  /\ ValidateGreaterThanOrEqualToZero(f.timeout)
      /\ ValidateGreaterThanOrEqualToZero(f.speed_floor)
      /\ ValidateIsFiniteNumber(f.speed_ceiling)
      /\ ~Less(f.speed_ceiling, f.speed_floor)

ValidateWobbleSmootherParams(p) ==
  LET f == p.floats
  IN  "smoother" \in p.uses =>
        /\ ValidateGreaterThanOrEqualToZero(f.timeout)
        /\ ValidateGreaterThanOrEqualToZero(f.speed_floor)
        /\ ValidateIsFiniteNumber(f.speed_ceiling)
        /\ ~Less(f.speed_ceiling, f.speed_floor)

ValidateLoopContractionMitigationParameters(p) ==
  LET f == p.floats
      n == p.ints
  IN  "loop" \in p.uses =>
        /\ ~Less(f.speed_upper_bound, f.speed_lower_bound)
        /\ ~Less(f.speed_lower_bound, 0)
        /\ ~Less(f.strength_at_lower, f.strength_at_upper)
        /\ ~Less(One, f.strength_at_lower)
        /\ ~Less(f.strength_at_upper, 0)
        /\ n.min_discrete_speed_samples \in 1 .. kMaxDiscreteSamples
        /\ ~AtMost(f.min_speed_sampling_window, 0)
        /\ ~Less(kMaxSamplingWindow, f.min_speed_sampling_window)

ValidatePositionModelerParams(p) ==
  /\ ValidateLoopContractionMitigationParameters(p)
  /\ ValidateGreaterThanZero(p.floats.spring_mass_constant)
  /\ ValidateGreaterThanZero(p.floats.drag_constant)

\* Mutant: an angle of pi is allowed.
AngleUpToPi(p) ==
  LET angle == p.floats.max_estimated_angle
  IN  angle = -One \/ (ValidateGreaterThanZero(angle) /\ ~Less(kPi, angle))

ValidateAngle(p) ==
  LET angle == p.floats.max_estimated_angle
  IN  angle = -One \/ (ValidateGreaterThanZero(angle) /\ ~AtMost(kPi, angle))

ValidateSamplingParams(p) ==
  LET n == p.ints
  IN  /\ ValidateGreaterThanZero(p.floats.min_output_rate)
      /\ ValidateGreaterThanZero(p.floats.end_of_stroke_stopping_distance)
      /\ n.end_of_stroke_max_iterations \in 1 .. kMaxEndOfStrokeMaxIterations
      /\ n.max_outputs_per_call > 0
      /\ ValidateAngle(p)

ValidateStylusStateModelerParams(p) ==
  IF "normal" \in p.uses
  THEN /\ p.ints.min_input_samples > 0
       /\ ValidateGreaterThanZero(p.floats.min_sample_duration)
  ELSE p.ints.max_input_samples > 0

\* Mutant: the two speeds must differ, as if Normalize01 could not do with one.
SpeedsDiffer(f) ==
  /\ ValidateGreaterThanOrEqualToZero(f.min_travel_speed)
  /\ ValidateIsFiniteNumber(f.max_travel_speed)
  /\ Less(f.min_travel_speed, f.max_travel_speed)

ValidateTravelSpeeds(f) ==
  /\ ValidateGreaterThanOrEqualToZero(f.min_travel_speed)
  /\ ValidateIsFiniteNumber(f.max_travel_speed)
  /\ ~Less(f.max_travel_speed, f.min_travel_speed)

ValidateKalmanPredictorParams(p) ==
  LET f == p.floats
  IN  /\ \A field \in {"process_noise", "measurement_noise", "min_catchup_velocity",
                       "prediction_interval", "max_estimation_distance",
                       "max_linear_deviation"} : ValidateGreaterThanZero(f[field])
      /\ \A field \in KalmanInts : p.ints[field] > 0
      /\ ValidateIsFiniteNumber(f.acceleration_weight)
      /\ ValidateIsFiniteNumber(f.jerk_weight)
      /\ ValidateTravelSpeeds(f)
      /\ ~Less(f.baseline_linearity_confidence, 0)
      /\ ~Less(One, f.baseline_linearity_confidence)

ValidatePredictionParams(p) == "kalman" \in p.uses => ValidateKalmanPredictorParams(p)

ValidateStrokeModelParams(p) ==
  /\ "loop" \in p.uses => "normal" \in p.uses
  /\ ValidateWobbleSmootherParams(p)
  /\ ValidatePositionModelerParams(p)
  /\ ValidateSamplingParams(p)
  /\ ValidateStylusStateModelerParams(p)
  /\ ValidatePredictionParams(p)

-----------------------------------------------------------------------------
(* The client and Reset *)

Init ==
  /\ candidate \in FirstParams
  /\ edits = 0
  /\ held = Unset
  /\ status = "none"

Edit(p) ==
  /\ edits < MaxEdits
  /\ candidate' = p
  /\ edits' = edits + 1
  /\ status' = "none"
  /\ UNCHANGED held

EditFloat ==
  \E field \in FloatFields, x \in Floats :
    Edit([candidate EXCEPT !.floats[field] = x])

EditInt ==
  \E field \in IntFields, n \in Ints :
    Edit([candidate EXCEPT !.ints[field] = n])

Toggle ==
  \E switch \in Switches :
    Edit([candidate EXCEPT !.uses =
            IF switch \in @ THEN @ \ {switch} ELSE @ \cup {switch}])

\* StrokeModeler::Reset(params).
Reset ==
  /\ IF ValidateStrokeModelParams(candidate)
     THEN held' = candidate /\ status' = "ok"
     ELSE status' = "invalid" /\ UNCHANGED held
  /\ UNCHANGED <<candidate, edits>>

Next == EditFloat \/ EditInt \/ Toggle \/ Reset

Spec == Init /\ [][Next]_vars

-----------------------------------------------------------------------------
(* Properties *)

\* The types of the structs of params.h.
TypeOK ==
  /\ candidate \in ParamsType
  /\ edits \in 0 .. MaxEdits
  /\ held \in ParamsType \cup {Unset}
  /\ status \in {"none", "ok", "invalid"}

Finite == -Infinity + 1 .. Infinity - 1
Positive == 1 .. Infinity - 1
NotNegative == 0 .. Infinity - 1

\* The fields whose validators only compare (params.cc:51-65, 85, 226), which
\* a NaN passes.
ComparedOnly == LoopFloats \cup {"baseline_linearity_confidence"}

\* What Normalize01 needs in order to give the floor's strength of smoothing,
\* and the deque of wobble_smoother.cc:55-60 in order not to run empty.
SmootherUsable(p) ==
  /\ p.floats.timeout \in NotNegative
  /\ p.floats.speed_floor \in NotNegative
  /\ p.floats.speed_ceiling \in p.floats.speed_floor .. Infinity - 1

\* loop_contraction_mitigation_modeler.cc:28-46 interpolates between the two
\* strengths, which InterpResult uses as a ratio, and pops its deque as long as
\* there are more samples than the minimum; without a stroke normal an empty
\* stylus modeler's default would be blended in.
LoopUsable(p) ==
  LET f == p.floats
  IN  /\ "normal" \in p.uses
      /\ p.ints.min_discrete_speed_samples \in 1 .. kMaxDiscreteSamples
      /\ AtMost(0, f.speed_lower_bound)
      /\ AtMost(f.speed_lower_bound, f.speed_upper_bound)
      /\ AtMost(0, f.strength_at_upper)
      /\ AtMost(f.strength_at_upper, f.strength_at_lower)
      /\ AtMost(f.strength_at_lower, One)
      /\ f.min_speed_sampling_window \in 1 .. kMaxSamplingWindow

\* position_modeler.h:97-128 and position_modeler.cc:17-53 divide by the rate,
\* the spring constant and the angle, and reserve the iterations.
SamplingUsable(p) ==
  LET f == p.floats
  IN  /\ {f.spring_mass_constant, f.drag_constant, f.min_output_rate,
          f.end_of_stroke_stopping_distance} \subseteq Positive
      /\ p.ints.end_of_stroke_max_iterations \in 1 .. kMaxEndOfStrokeMaxIterations
      /\ p.ints.max_outputs_per_call > 0
      /\ f.max_estimated_angle \in {-One} \cup 1 .. kPi - 1

\* stylus_state_modeler.cc:37-48 indexes the second of more than the minimum.
StylusUsable(p) ==
  IF "normal" \in p.uses
  THEN p.ints.min_input_samples > 0 /\ p.floats.min_sample_duration \in Positive
  ELSE p.ints.max_input_samples > 0

\* kalman_filter.cc:53-58 divides by a variance that the measurement noise keeps
\* above zero, and kalman_predictor.cc:118-283 by the others.
KalmanUsable(p) ==
  LET f == p.floats
  IN  /\ {f.process_noise, f.measurement_noise, f.min_catchup_velocity,
          f.prediction_interval, f.max_estimation_distance,
          f.max_linear_deviation} \subseteq Positive
      /\ {f.acceleration_weight, f.jerk_weight} \subseteq Finite
      /\ \A field \in KalmanInts : p.ints[field] > 0
      /\ f.min_travel_speed \in NotNegative
      /\ f.max_travel_speed \in f.min_travel_speed .. Infinity - 1
      /\ f.baseline_linearity_confidence \in 0 .. One

Usable(p) ==
  /\ "smoother" \in p.uses => SmootherUsable(p)
  /\ "loop" \in p.uses => LoopUsable(p)
  /\ SamplingUsable(p)
  /\ StylusUsable(p)
  /\ "kalman" \in p.uses => KalmanUsable(p)

\* The parameters a stroke runs on are ones the modelers can work with: what
\* their modules assume of their parameters holds of whatever Reset adopted
\* (stroke_modeler.cc:79-90), however many were refused before.  Only where a
\* field that is just compared is NaN can it fail, and then only for the
\* modeler that reads the field.
AcceptedNumbersAreUsable ==
  held # Unset =>
    /\ SamplingUsable(held) /\ StylusUsable(held)
    /\ "smoother" \in held.uses => SmootherUsable(held)
    /\ "loop" \in held.uses =>
         LoopUsable(held) \/ \E field \in LoopFloats : held.floats[field] = NaN
    /\ "kalman" \in held.uses =>
         KalmanUsable(held) \/ held.floats.baseline_linearity_confidence = NaN

\* What params.h:62-106 says of the mitigation's parameters when it is enabled:
\* each "must be" within its bounds, "Both values must be > 0".
AcceptedBoundsHold ==
  held # Unset /\ "loop" \in held.uses =>
    LET f == held.floats
    IN  /\ AtMost(0, f.speed_lower_bound)
        /\ AtMost(f.speed_lower_bound, f.speed_upper_bound)
        /\ AtMost(0, f.strength_at_upper)
        /\ AtMost(f.strength_at_upper, f.strength_at_lower)
        /\ AtMost(f.strength_at_lower, One)
        /\ Less(0, f.min_speed_sampling_window)
        /\ held.ints.min_discrete_speed_samples > 0

\* Reset refuses nothing usable (params.cc:48-265): each bound that params.h
\* allows is allowed, and a field or switch not at fault is no reason.
RefusedIsUnusable == status = "invalid" => ~Usable(candidate)

\* What params.h says is ignored with these switches.
Ignored(p) ==
  (IF "loop" \in p.uses THEN {} ELSE LoopFloats \cup {"min_discrete_speed_samples"})
    \cup (IF "smoother" \in p.uses THEN {} ELSE SmootherFloats)
    \cup (IF "kalman" \in p.uses THEN {} ELSE KalmanFloats \cup KalmanInts)
    \cup (IF "normal" \in p.uses THEN {"max_input_samples"}
          ELSE {"min_input_samples", "min_sample_duration"})

\* A client that changes only fields that are ignored (params.h:61-62, 159-161,
\* 184-186, 194-196) changes nothing about what Reset will say.
IgnoredFieldsDoNotMatter ==
  [][candidate'.uses = candidate.uses
       /\ (\A field \in FloatFields \ Ignored(candidate) :
             candidate'.floats[field] = candidate.floats[field])
       /\ (\A field \in IntFields \ Ignored(candidate) :
             candidate'.ints[field] = candidate.ints[field])
       => (ValidateStrokeModelParams(candidate')
             <=> ValidateStrokeModelParams(candidate))]_vars
=============================================================================
