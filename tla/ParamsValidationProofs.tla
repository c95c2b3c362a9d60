------------------------ MODULE ParamsValidationProofs ------------------------
(***************************************************************************)
(* Theorems about ParamsValidation: for all parameters, what the           *)
(* validators accept is what the modelers can work with.                   *)
(***************************************************************************)
EXTENDS ParamsValidation, TLAPS

-----------------------------------------------------------------------------
(* Numbers *)

LEMMA FiniteNumbers ==
  ASSUME NEW x \in Float
  PROVE  ValidateIsFiniteNumber(x) <=> x \in Finite
BY NumbersAssumption DEF Float, Finite, ValidateIsFiniteNumber, kMaxSamplingWindow, One, Half

LEMMA PositiveNumbers ==
  ASSUME NEW x \in Float
  PROVE  ValidateGreaterThanZero(x) <=> x \in Positive
BY FiniteNumbers, NumbersAssumption
   DEF Float, Finite, Positive, ValidateGreaterThanZero, AtMost, kMaxSamplingWindow, One, Half

LEMMA NotNegativeNumbers ==
  ASSUME NEW x \in Float
  PROVE  ValidateGreaterThanOrEqualToZero(x) <=> x \in NotNegative
BY FiniteNumbers, NumbersAssumption
   DEF Float, Finite, NotNegative, ValidateGreaterThanOrEqualToZero, Less,
       kMaxSamplingWindow, One, Half

LEMMA FieldTypes ==
  ASSUME NEW p \in ParamsType
  PROVE  /\ \A field \in FloatFields : p.floats[field] \in Float
         /\ \A field \in IntFields : p.ints[field] \in Int
BY DEF ParamsType

\* What the numbers are that the proofs need.
LEMMA Limits ==
  /\ One = 2 /\ kPi = 7
  /\ kMaxSamplingWindow \in Nat /\ kMaxSamplingWindow > kPi
  /\ Infinity \in Int /\ Infinity > kMaxSamplingWindow /\ NaN \notin Int
BY NumbersAssumption DEF One, Half, kPi, kMaxSamplingWindow

-----------------------------------------------------------------------------
(* The validators, one by one *)

\* With smoothing on, what is valid is what the smoother can work with.
LEMMA SmootherValid ==
  ASSUME NEW p \in ParamsType, "smoother" \in p.uses
  PROVE  ValidateWobbleSmootherParams(p) <=> SmootherUsable(p)
<1> DEFINE f == p.floats
<1>1. f.timeout \in Float /\ f.speed_floor \in Float /\ f.speed_ceiling \in Float
  BY FieldTypes DEF FloatFields, SmootherFloats
<1>2. /\ ValidateGreaterThanOrEqualToZero(f.timeout) <=> f.timeout \in NotNegative
      /\ ValidateGreaterThanOrEqualToZero(f.speed_floor) <=> f.speed_floor \in NotNegative
      /\ ValidateIsFiniteNumber(f.speed_ceiling) <=> f.speed_ceiling \in Finite
  BY <1>1, NotNegativeNumbers, FiniteNumbers
<1>3. ASSUME f.speed_floor \in NotNegative
      PROVE  f.speed_ceiling \in Finite /\ ~Less(f.speed_ceiling, f.speed_floor)
               <=> f.speed_ceiling \in f.speed_floor .. Infinity - 1
  BY <1>1, <1>3, Limits DEF Float, Finite, NotNegative, Less
<1> QED BY <1>2, <1>3 DEF ValidateWobbleSmootherParams, SmootherUsable

\* With loop mitigation on: the other way around only if the fields, which are
\* just compared, are numbers.
LEMMA LoopValid ==
  ASSUME NEW p \in ParamsType, "loop" \in p.uses, "normal" \in p.uses
  PROVE  /\ LoopUsable(p) => ValidateLoopContractionMitigationParameters(p)
         /\ ValidateLoopContractionMitigationParameters(p)
              /\ (\A field \in LoopFloats : p.floats[field] # NaN) => LoopUsable(p)
<1> DEFINE f == p.floats
           n == p.ints.min_discrete_speed_samples
           speeds == /\ ~Less(f.speed_upper_bound, f.speed_lower_bound)
                     /\ ~Less(f.speed_lower_bound, 0)
           strengths == /\ ~Less(f.strength_at_lower, f.strength_at_upper)
                        /\ ~Less(One, f.strength_at_lower)
                        /\ ~Less(f.strength_at_upper, 0)
           window == /\ ~AtMost(f.min_speed_sampling_window, 0)
                     /\ ~Less(kMaxSamplingWindow, f.min_speed_sampling_window)
           speedsFit == /\ AtMost(0, f.speed_lower_bound)
                        /\ AtMost(f.speed_lower_bound, f.speed_upper_bound)
           strengthsFit == /\ AtMost(0, f.strength_at_upper)
                           /\ AtMost(f.strength_at_upper, f.strength_at_lower)
                           /\ AtMost(f.strength_at_lower, One)
           windowFits == f.min_speed_sampling_window \in 1 .. kMaxSamplingWindow
           numbers == \A field \in LoopFloats : f[field] # NaN
<1>1. /\ f.speed_lower_bound \in Float /\ f.speed_upper_bound \in Float
      /\ f.strength_at_lower \in Float /\ f.strength_at_upper \in Float
      /\ f.min_speed_sampling_window \in Float /\ n \in Int
  BY FieldTypes DEF FloatFields, LoopFloats, IntFields
<1>2. numbers => NaN \notin {f.speed_lower_bound, f.speed_upper_bound,
                             f.strength_at_lower, f.strength_at_upper,
                             f.min_speed_sampling_window}
  BY DEF LoopFloats
<1>3. (speedsFit => speeds) /\ (numbers /\ speeds => speedsFit)
  BY <1>1, <1>2, Limits DEF Float, Less, AtMost
<1>4. (strengthsFit => strengths) /\ (numbers /\ strengths => strengthsFit)
  BY <1>1, <1>2, Limits DEF Float, Less, AtMost
<1>5. (windowFits => window) /\ (numbers /\ window => windowFits)
  BY <1>1, <1>2, Limits DEF Float, Less, AtMost
<1>6. ValidateLoopContractionMitigationParameters(p)
        <=> speeds /\ strengths /\ window /\ n \in 1 .. kMaxDiscreteSamples
  BY DEF ValidateLoopContractionMitigationParameters
<1>7. LoopUsable(p)
        <=> speedsFit /\ strengthsFit /\ windowFits /\ n \in 1 .. kMaxDiscreteSamples
  BY DEF LoopUsable
<1> HIDE DEF speeds, strengths, window, speedsFit, strengthsFit, windowFits, n
<1> QED BY <1>3, <1>4, <1>5, <1>6, <1>7

LEMMA AngleValid ==
  ASSUME NEW p \in ParamsType
  PROVE  ValidateAngle(p)
           <=> p.floats.max_estimated_angle \in {-One} \cup 1 .. kPi - 1
<1> DEFINE angle == p.floats.max_estimated_angle
<1>1. angle \in Float
  BY FieldTypes DEF FloatFields
<1>2. ValidateGreaterThanZero(angle) <=> angle \in Positive
  BY <1>1, PositiveNumbers
<1>3. angle \in Positive /\ ~AtMost(kPi, angle) <=> angle \in 1 .. kPi - 1
  BY <1>1, Limits DEF Float, Positive, AtMost
<1> QED BY <1>2, <1>3 DEF ValidateAngle

\* The parameters that every stroke uses.
LEMMA SamplingValid ==
  ASSUME NEW p \in ParamsType
  PROVE  /\ ValidateGreaterThanZero(p.floats.spring_mass_constant)
         /\ ValidateGreaterThanZero(p.floats.drag_constant)
         /\ ValidateSamplingParams(p)
         <=> SamplingUsable(p)
<1> DEFINE f == p.floats
<1>1. /\ f.spring_mass_constant \in Float /\ f.drag_constant \in Float
      /\ f.min_output_rate \in Float /\ f.end_of_stroke_stopping_distance \in Float
  BY FieldTypes DEF FloatFields
<1>2. /\ ValidateGreaterThanZero(f.spring_mass_constant)
           <=> f.spring_mass_constant \in Positive
      /\ ValidateGreaterThanZero(f.drag_constant) <=> f.drag_constant \in Positive
      /\ ValidateGreaterThanZero(f.min_output_rate) <=> f.min_output_rate \in Positive
      /\ ValidateGreaterThanZero(f.end_of_stroke_stopping_distance)
           <=> f.end_of_stroke_stopping_distance \in Positive
  BY <1>1, PositiveNumbers
<1> QED BY <1>2, AngleValid, Limits DEF ValidateSamplingParams, SamplingUsable

LEMMA StylusValid ==
  ASSUME NEW p \in ParamsType
  PROVE  ValidateStylusStateModelerParams(p) <=> StylusUsable(p)
<1>1. p.floats.min_sample_duration \in Float
  BY FieldTypes DEF FloatFields
<1> QED BY <1>1, PositiveNumbers DEF ValidateStylusStateModelerParams, StylusUsable

LEMMA TravelSpeedsValid ==
  ASSUME NEW p \in ParamsType
  PROVE  ValidateTravelSpeeds(p.floats)
           <=> /\ p.floats.min_travel_speed \in NotNegative
               /\ p.floats.max_travel_speed
                    \in p.floats.min_travel_speed .. Infinity - 1
<1> DEFINE f == p.floats
<1>1. f.min_travel_speed \in Float /\ f.max_travel_speed \in Float
  BY FieldTypes DEF FloatFields, KalmanFloats
<1>2. /\ ValidateGreaterThanOrEqualToZero(f.min_travel_speed)
           <=> f.min_travel_speed \in NotNegative
      /\ ValidateIsFiniteNumber(f.max_travel_speed) <=> f.max_travel_speed \in Finite
  BY <1>1, NotNegativeNumbers, FiniteNumbers
<1>3. ASSUME f.min_travel_speed \in NotNegative
      PROVE  f.max_travel_speed \in Finite
               /\ ~Less(f.max_travel_speed, f.min_travel_speed)
               <=> f.max_travel_speed \in f.min_travel_speed .. Infinity - 1
  BY <1>1, <1>3, Limits DEF Float, Finite, NotNegative, Less
<1> QED BY <1>2, <1>3 DEF ValidateTravelSpeeds

\* One field is just compared.
LEMMA KalmanValid ==
  ASSUME NEW p \in ParamsType
  PROVE  /\ KalmanUsable(p) => ValidateKalmanPredictorParams(p)
         /\ ValidateKalmanPredictorParams(p)
              /\ p.floats.baseline_linearity_confidence # NaN => KalmanUsable(p)
<1> DEFINE f == p.floats
           positive == {"process_noise", "measurement_noise", "min_catchup_velocity",
                        "prediction_interval", "max_estimation_distance",
                        "max_linear_deviation"}
           baseline == f.baseline_linearity_confidence
<1>1. /\ \A field \in positive : f[field] \in Float
      /\ f.acceleration_weight \in Float /\ f.jerk_weight \in Float
      /\ baseline \in Float
  BY FieldTypes DEF FloatFields, KalmanFloats
<1>2. \A field \in positive :
        ValidateGreaterThanZero(f[field]) <=> f[field] \in Positive
  BY <1>1, PositiveNumbers
<1>3. /\ ValidateIsFiniteNumber(f.acceleration_weight) <=> f.acceleration_weight \in Finite
      /\ ValidateIsFiniteNumber(f.jerk_weight) <=> f.jerk_weight \in Finite
  BY <1>1, FiniteNumbers
<1>4. ~Less(baseline, 0) /\ ~Less(One, baseline)
        <=> baseline \in 0 .. One \/ baseline = NaN
  BY <1>1, Limits DEF Float, Less
<1>5. (\A field \in positive : f[field] \in Positive)
        <=> {f.process_noise, f.measurement_noise, f.min_catchup_velocity,
             f.prediction_interval, f.max_estimation_distance,
             f.max_linear_deviation} \subseteq Positive
  OBVIOUS
<1> QED BY <1>2, <1>3, <1>4, <1>5, TravelSpeedsValid
        DEF ValidateKalmanPredictorParams, KalmanUsable

-----------------------------------------------------------------------------
(* All of them *)

\* What ValidateStrokeModelParams accepts, each modeler can work with, if no
\* field that its validator only compares is NaN.
LEMMA ValidIsUsable ==
  ASSUME NEW p \in ParamsType, ValidateStrokeModelParams(p)
  PROVE  /\ SamplingUsable(p) /\ StylusUsable(p)
         /\ "smoother" \in p.uses => SmootherUsable(p)
         /\ "loop" \in p.uses =>
              LoopUsable(p) \/ \E field \in LoopFloats : p.floats[field] = NaN
         /\ "kalman" \in p.uses =>
              KalmanUsable(p) \/ p.floats.baseline_linearity_confidence = NaN
<1>1. "smoother" \in p.uses => SmootherUsable(p)
  BY SmootherValid DEF ValidateStrokeModelParams
<1>2. "loop" \in p.uses =>
        LoopUsable(p) \/ \E field \in LoopFloats : p.floats[field] = NaN
  BY LoopValid DEF ValidateStrokeModelParams, ValidatePositionModelerParams
<1>3. SamplingUsable(p)
  BY SamplingValid DEF ValidateStrokeModelParams, ValidatePositionModelerParams
<1>4. StylusUsable(p)
  BY StylusValid DEF ValidateStrokeModelParams
<1>5. "kalman" \in p.uses =>
        KalmanUsable(p) \/ p.floats.baseline_linearity_confidence = NaN
  BY KalmanValid DEF ValidateStrokeModelParams, ValidatePredictionParams
<1> QED BY <1>1, <1>2, <1>3, <1>4, <1>5

\* And what they can work with it accepts.
LEMMA UsableIsValid ==
  ASSUME NEW p \in ParamsType, Usable(p)
  PROVE  ValidateStrokeModelParams(p)
<1>1. "loop" \in p.uses => "normal" \in p.uses
  BY DEF Usable, LoopUsable
<1>2. ValidateWobbleSmootherParams(p)
  <2>1. CASE "smoother" \in p.uses
    BY <2>1, SmootherValid DEF Usable
  <2>2. CASE "smoother" \notin p.uses
    BY <2>2 DEF ValidateWobbleSmootherParams
  <2> QED BY <2>1, <2>2
<1>3. ValidatePositionModelerParams(p)
  <2>1. ValidateLoopContractionMitigationParameters(p)
    <3>1. CASE "loop" \in p.uses
      BY <3>1, <1>1, LoopValid DEF Usable
    <3>2. CASE "loop" \notin p.uses
      BY <3>2 DEF ValidateLoopContractionMitigationParameters
    <3> QED BY <3>1, <3>2
  <2> QED BY <2>1, SamplingValid DEF Usable, ValidatePositionModelerParams
<1>4. ValidateSamplingParams(p)
  BY SamplingValid DEF Usable
<1>5. ValidateStylusStateModelerParams(p)
  BY StylusValid DEF Usable
<1>6. ValidatePredictionParams(p)
  BY KalmanValid DEF Usable, ValidatePredictionParams
<1> QED BY <1>1, <1>2, <1>3, <1>4, <1>5, <1>6 DEF ValidateStrokeModelParams

\* p and q differ only in fields that p's switches make ignored.
SameWhereUsed(p, q) ==
  /\ q.uses = p.uses
  /\ \A field \in FloatFields \ Ignored(p) : q.floats[field] = p.floats[field]
  /\ \A field \in IntFields \ Ignored(p) : q.ints[field] = p.ints[field]

\* No validator reads a field that is ignored.
LEMMA SameVerdict ==
  ASSUME NEW p \in ParamsType, NEW q \in ParamsType, SameWhereUsed(p, q)
  PROVE  ValidateStrokeModelParams(p) <=> ValidateStrokeModelParams(q)
<1>1. q.uses = p.uses
  BY DEF SameWhereUsed
<1>2. ValidateWobbleSmootherParams(p) <=> ValidateWobbleSmootherParams(q)
  <2>1. CASE "smoother" \in p.uses
    <3>1. \A field \in SmootherFloats : q.floats[field] = p.floats[field]
      BY <2>1 DEF SameWhereUsed, Ignored, FloatFields, LoopFloats, SmootherFloats,
                  KalmanFloats, KalmanInts
    <3> QED BY <3>1, <1>1 DEF ValidateWobbleSmootherParams, SmootherFloats
  <2>2. CASE "smoother" \notin p.uses
    BY <2>2, <1>1 DEF ValidateWobbleSmootherParams
  <2> QED BY <2>1, <2>2
<1>3. ValidateLoopContractionMitigationParameters(p)
        <=> ValidateLoopContractionMitigationParameters(q)
  <2>1. CASE "loop" \in p.uses
    <3>1. /\ \A field \in LoopFloats : q.floats[field] = p.floats[field]
          /\ q.ints.min_discrete_speed_samples = p.ints.min_discrete_speed_samples
      BY <2>1 DEF SameWhereUsed, Ignored, FloatFields, IntFields, LoopFloats,
                  SmootherFloats, KalmanFloats, KalmanInts
    <3> QED BY <3>1, <1>1 DEF ValidateLoopContractionMitigationParameters, LoopFloats
  <2>2. CASE "loop" \notin p.uses
    BY <2>2, <1>1 DEF ValidateLoopContractionMitigationParameters
  <2> QED BY <2>1, <2>2
<1>4. ValidatePositionModelerParams(p) <=> ValidatePositionModelerParams(q)
  <2>1. /\ q.floats.spring_mass_constant = p.floats.spring_mass_constant
        /\ q.floats.drag_constant = p.floats.drag_constant
    BY DEF SameWhereUsed, Ignored, FloatFields, LoopFloats, SmootherFloats,
           KalmanFloats, KalmanInts
  <2> QED BY <2>1, <1>3 DEF ValidatePositionModelerParams
<1>5. ValidateSamplingParams(p) <=> ValidateSamplingParams(q)
  <2>1. /\ q.floats.min_output_rate = p.floats.min_output_rate
        /\ q.floats.end_of_stroke_stopping_distance
             = p.floats.end_of_stroke_stopping_distance
        /\ q.floats.max_estimated_angle = p.floats.max_estimated_angle
    BY DEF SameWhereUsed, Ignored, FloatFields, LoopFloats, SmootherFloats,
           KalmanFloats, KalmanInts
  <2>2. /\ q.ints.end_of_stroke_max_iterations = p.ints.end_of_stroke_max_iterations
        /\ q.ints.max_outputs_per_call = p.ints.max_outputs_per_call
    BY DEF SameWhereUsed, Ignored, IntFields, LoopFloats, SmootherFloats,
           KalmanFloats, KalmanInts
  <2> QED BY <2>1, <2>2 DEF ValidateSamplingParams, ValidateAngle
<1>6. ValidateStylusStateModelerParams(p) <=> ValidateStylusStateModelerParams(q)
  <2>1. CASE "normal" \in p.uses
    <3>1. /\ q.floats.min_sample_duration = p.floats.min_sample_duration
          /\ q.ints.min_input_samples = p.ints.min_input_samples
      BY <2>1 DEF SameWhereUsed, Ignored, FloatFields, IntFields, LoopFloats,
                  SmootherFloats, KalmanFloats, KalmanInts
    <3> QED BY <2>1, <3>1, <1>1 DEF ValidateStylusStateModelerParams
  <2>2. CASE "normal" \notin p.uses
    <3>1. q.ints.max_input_samples = p.ints.max_input_samples
      BY <2>2 DEF SameWhereUsed, Ignored, IntFields, LoopFloats, SmootherFloats,
                  KalmanFloats, KalmanInts
    <3> QED BY <2>2, <3>1, <1>1 DEF ValidateStylusStateModelerParams
  <2> QED BY <2>1, <2>2
<1>7. ValidatePredictionParams(p) <=> ValidatePredictionParams(q)
  <2>1. CASE "kalman" \in p.uses
    <3>1. \A field \in KalmanFloats : q.floats[field] = p.floats[field]
      BY <2>1 DEF SameWhereUsed, Ignored, FloatFields, LoopFloats, SmootherFloats,
                  KalmanFloats
    <3>2. \A field \in KalmanInts : q.ints[field] = p.ints[field]
      BY <2>1 DEF SameWhereUsed, Ignored, IntFields, LoopFloats, SmootherFloats,
                  KalmanInts
    <3>3. ValidateKalmanPredictorParams(p) <=> ValidateKalmanPredictorParams(q)
      BY <3>1, <3>2
         DEF ValidateKalmanPredictorParams, ValidateTravelSpeeds, KalmanFloats
    <3> QED BY <3>3, <1>1 DEF ValidatePredictionParams
  <2>2. CASE "kalman" \notin p.uses
    BY <2>2, <1>1 DEF ValidatePredictionParams
  <2> QED BY <2>1, <2>2
<1> QED BY <1>1, <1>2, <1>4, <1>5, <1>6, <1>7 DEF ValidateStrokeModelParams

-----------------------------------------------------------------------------
(* The client and Reset *)

\* The parameters that are held were accepted, and only a refusal is reported
\* as one.
VerdictInv ==
  /\ TypeOK
  /\ held # Unset => ValidateStrokeModelParams(held)
  /\ status = "invalid" => ~ValidateStrokeModelParams(candidate)

LEMMA VerdictInit == Init => VerdictInv
BY ParamsAssumption, BoundsAssumption DEF Init, VerdictInv, TypeOK

\* Every edit gives the candidate the types of the structs.
LEMMA EditTypes ==
  ASSUME TypeOK, EditFloat \/ EditInt \/ Toggle
  PROVE  /\ candidate' \in ParamsType
         /\ edits' \in 0 .. MaxEdits
         /\ status' = "none" /\ held' = held
<1>1. CASE EditFloat
  <2>1. PICK field \in FloatFields, x \in Floats :
          Edit([candidate EXCEPT !.floats[field] = x])
    BY <1>1 DEF EditFloat
  <2>2. x \in Float
    BY ValuesAssumption
  <2>3. [candidate EXCEPT !.floats[field] = x] \in ParamsType
    BY <2>2 DEF TypeOK, ParamsType
  <2> QED BY <2>1, <2>3, BoundsAssumption DEF Edit, TypeOK
<1>2. CASE EditInt
  <2>1. PICK field \in IntFields, n \in Ints :
          Edit([candidate EXCEPT !.ints[field] = n])
    BY <1>2 DEF EditInt
  <2>2. n \in Int
    BY ValuesAssumption
  <2>3. [candidate EXCEPT !.ints[field] = n] \in ParamsType
    BY <2>2 DEF TypeOK, ParamsType
  <2> QED BY <2>1, <2>3, BoundsAssumption DEF Edit, TypeOK
<1>3. CASE Toggle
  <2>1. PICK switch \in Switches :
          Edit([candidate EXCEPT !.uses =
                  IF switch \in @ THEN @ \ {switch} ELSE @ \cup {switch}])
    BY <1>3 DEF Toggle
  <2>2. [candidate EXCEPT !.uses =
           IF switch \in @ THEN @ \ {switch} ELSE @ \cup {switch}] \in ParamsType
    BY DEF TypeOK, ParamsType
  <2> QED BY <2>1, <2>2, BoundsAssumption DEF Edit, TypeOK
<1> QED BY <1>1, <1>2, <1>3

LEMMA VerdictStep == VerdictInv /\ [Next]_vars => VerdictInv'
<1> SUFFICES ASSUME VerdictInv, [Next]_vars PROVE VerdictInv'
  OBVIOUS
<1>1. CASE EditFloat \/ EditInt \/ Toggle
  BY <1>1, EditTypes DEF VerdictInv, TypeOK
<1>2. CASE Reset
  BY <1>2 DEF Reset, VerdictInv, TypeOK
<1>3. CASE UNCHANGED vars
  BY <1>3 DEF vars, VerdictInv, TypeOK
<1> QED BY <1>1, <1>2, <1>3 DEF Next

LEMMA VerdictHolds == Spec => []VerdictInv
BY VerdictInit, VerdictStep, PTL DEF Spec

\* The verdict is right for all parameters (params.cc:48-265): all that the
\* modelers can work with is accepted, and nothing else is, unless it is for a
\* NaN in a field that is used and only compared.
THEOREM VerdictCorrect ==
  \A p \in ParamsType :
    /\ Usable(p) => ValidateStrokeModelParams(p)
    /\ ValidateStrokeModelParams(p)
         /\ (\A field \in ComparedOnly \ Ignored(p) : p.floats[field] # NaN)
         => Usable(p)
<1> SUFFICES ASSUME NEW p \in ParamsType, ValidateStrokeModelParams(p),
                    \A field \in ComparedOnly \ Ignored(p) : p.floats[field] # NaN
             PROVE  Usable(p)
  BY UsableIsValid
<1>1. "loop" \in p.uses => \A field \in LoopFloats : p.floats[field] # NaN
  BY DEF ComparedOnly, Ignored, LoopFloats, SmootherFloats, KalmanFloats, KalmanInts
<1>2. "kalman" \in p.uses => p.floats.baseline_linearity_confidence # NaN
  BY DEF ComparedOnly, Ignored, LoopFloats, SmootherFloats, KalmanFloats, KalmanInts
<1> QED BY <1>1, <1>2, ValidIsUsable DEF Usable

\* The modelers only ever get parameters they can work with: what Reset has
\* adopted (stroke_modeler.cc:79-90) is usable, but for NaN where it is only
\* compared.
THEOREM AcceptedUsable == Spec => []AcceptedNumbersAreUsable
<1>1. VerdictInv => AcceptedNumbersAreUsable
  BY ValidIsUsable, UnsetAssumption DEF VerdictInv, TypeOK, AcceptedNumbersAreUsable
<1> QED BY <1>1, VerdictHolds, PTL

\* A client is never refused parameters that are usable.
THEOREM RefusedUnusable == Spec => []RefusedIsUnusable
<1>1. VerdictInv => RefusedIsUnusable
  BY UsableIsValid DEF VerdictInv, TypeOK, RefusedIsUnusable
<1> QED BY <1>1, VerdictHolds, PTL

\* Fields that params.h says are ignored have no say in the verdict.
THEOREM IgnoredDoNotMatter == Spec => IgnoredFieldsDoNotMatter
<1> DEFINE Same == ValidateStrokeModelParams(candidate')
                     <=> ValidateStrokeModelParams(candidate)
<1>1. VerdictInv /\ VerdictInv' /\ SameWhereUsed(candidate, candidate') => Same
  BY SameVerdict DEF VerdictInv, TypeOK
<1>2. VerdictInv /\ VerdictInv'
        => [candidate'.uses = candidate.uses
              /\ (\A field \in FloatFields \ Ignored(candidate) :
                    candidate'.floats[field] = candidate.floats[field])
              /\ (\A field \in IntFields \ Ignored(candidate) :
                    candidate'.ints[field] = candidate.ints[field])
              => Same]_vars
  BY <1>1 DEF SameWhereUsed
<1> QED BY <1>2, VerdictHolds, PTL DEF IgnoredFieldsDoNotMatter
=============================================================================
