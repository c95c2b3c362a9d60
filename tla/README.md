# Ink Stroke Modeler: specification and proofs

Ink Stroke Modeler turns the raw input of a stylus (a *Down*, *Moves* and an
*Up*, each with a position, a time and what the stylus reports) into smoothed
*Results*, and predicts where the stroke goes next. It is a library: no threads,
no files, no clock. Its client calls it, one call at a time. What is hard about
it is that the stroke lives in five objects at once, each with its own window,
its own saved copy and its own idea of when to forget; that calls can fail half
way; and that sequences of calls nobody wrote a test for are all legal.

This directory models the facade, its sub-modelers, its predictors and the
validation of its parameters in TLA+, checks them with TLC and proves every
safety property that a passing run checks with TLAPS, for all parameters and
inputs.

## The system

Paths are relative to `src/ink_stroke_modeler/`.

| Component | Source | State | Operations |
| --- | --- | --- | --- |
| Facade | `stroke_modeler.cc/.h` | parameters, last input, predictor, the four sub-modelers, a saved last input and predictor, `save_active_` | `Reset(params)`, `Reset()`, `Update`, `Predict`, `Save`, `Restore` |
| Wobble smoother | `internal/wobble_smoother.*` | a deque of samples, three running sums, a saved copy | `Reset`, `Update`, `Save`, `Restore` |
| Position modeler | `internal/position_modeler.*` | the tip (position, velocity, time), a saved copy | `Reset`, `Update`, `UpdateAlongLinearPath`, `ModelEndOfStroke`, `Save`, `Restore` |
| Stylus state modeler | `internal/stylus_state_modeler.*` | a deque of raw inputs, three "was ever unknown" flags, a saved copy | `Reset`, `Update`, `Query`, `Save`, `Restore` |
| Loop contraction mitigation | `internal/loop_contraction_mitigation_modeler.*` | a deque of speeds, a saved copy | `Reset`, `Update`, `GetInterpolationValue`, `Save`, `Restore` |
| Stroke end predictor | `internal/prediction/stroke_end_predictor.*` | the last position | `Reset`, `Update`, `ConstructPrediction`, `MakeCopy` |
| Kalman predictor | `internal/prediction/kalman_predictor.*` | two axis filters, a deque of times, the last position | the same |
| Kalman filter, matrices | `internal/prediction/kalman_filter/*` | estimate, covariance, number of iterations | `Reset`, `Predict`, `Update` |
| Parameter validation | `params.cc`, `internal/validation.h` | none | `Validate...Params` |
| Input validation, equality | `types.cc/.h` | none | `ValidateInput`, `operator==` |
| Geometry utilities | `internal/utils.*` | none | interpolation, projection, normals |

How they interact. `Update` validates an input and gives it to one of three
handlers. A Down resets all sub-modelers with the current parameters. A Move
smooths the input (wobble smoother), records it (stylus modeler), counts the
steps the path needs, which **may fail** here, lets the tip follow the path
(position modeler), feeds the predictor, and turns each tip state into a Result
(`ModelStylus`: query the stylus modeler, blend by what the loop modeler says,
tell the loop modeler the speed). An Up does the same without smoothing, counts
first, and lets the tip run out. `Predict` runs a copy. `Save` and `Restore` go
to every object, each of which decides on its own whether it has a save.

Hard behaviours: partial failure of a Move; saves that are cleared at different
times (Reset clears `save_active_`, Down those of the sub-modelers, nothing the
saved predictor); parameters that reach the sub-modelers only at the next Down;
windows with two bounds; running sums; a retry loop; equal, decreasing and
far-apart times; NaN. There is nothing concurrent and nothing persistent.

What makes each component correct:

- Facade: all copies of the stroke tell of one and the same stroke, and so do
  the saved ones; a stroke runs on one set of parameters; the client sees the
  simple session that `stroke_modeler.h` describes.
- Wobble smoother: sums match the window, the window is the previous `timeout`,
  the smoothed position is an average of the window.
- Stylus modeler: the window is never too short and never longer than need be;
  a field once missing stays missing; queries go to the right place.
- Loop mitigation: the window is the recent one, the value between its bounds.
- Position modeler: tip and inputs stay in step, times advance, the end of a
  stroke converges without overshooting, and the loops end.
- Stroke end predictor: it is the end of the stroke, on a copy.
- Kalman predictor: filter and times are of this stroke; there is a prediction
  once it is stable, and it is one smooth curve with evenly spaced times.
- Kalman filter: the estimate is the one of least variance.
- Validation: what is adopted is what the modelers can work with, nothing usable
  is refused, and what is switched off does not matter.

## Modules

| Module | What it is |
| --- | --- |
| `StrokeSession` | The promise: configured or not, the stroke in progress, the saved stroke. |
| `StrokeModeler` | The facade and the composition of its sub-modelers. |
| `ParamsValidation` | A client that edits parameters, and what Reset says to them. |
| `WobbleSmoother` | The smoother, with exact sums and quotients. |
| `StylusStateModeler` | The window of raw inputs, the projections of `Query`, the interpolation of the orientation. |
| `LoopContractionMitigation` | The speed window and the interpolation value. |
| `PositionModeler` | The tip along a path, at the end of a stroke and in a prediction of it, iteration by iteration. |
| `KalmanFilter` | The filter of one axis and its 4 x 4 algebra: operators, no state. |
| `KalmanPredictor` | The Kalman predictor: filter, times, and the construction of a prediction. |
| `Sums` | The sum of a sequence, for the running sums of the modelers. |
| `ModelerLemmas` | Lemmas that several proofs need: induction over the natural numbers, least and greatest elements, suffixes, sums, remainders. |
| `...Proofs` | Theorems about the module they are named after. |
| `MC...` | The small instances that TLC checks. |

### StrokeSession and StrokeModeler

In `StrokeModeler` a sub-modeler is its *history*: the inputs it received since
its Reset. What it really keeps is a function of that history, so two objects
agree about the stroke exactly when their histories do, and the modules of the
sub-modelers are left to say what they make of it. The variables are the
members of the class:

| Variable | Member |
| --- | --- |
| `params` | `stroke_model_params_` |
| `wobble`, `position`, `stylus`, `loop` | the four sub-modelers, as `[params, state, saved]` |
| `predictor`, `savedPredictor` | `predictor_`, `saved_predictor_` |
| `lastInput`, `savedLastInput`, `saveActive` | `last_input_`, `saved_last_input_`, `save_active_` |
| `ret` | the last call, its status, how many Results, and `prev_time` |

Each public operation is an action, its failures included: `ResetParams`,
`RejectParams`, `Reset`, `RejectInput`, `ProcessDownEvent`, `ProcessMoveEvent`
(which may fail after two sub-modelers took the input), `ProcessUpEvent`,
`Predict`, `Save`, `Restore`. Numbers that depend on positions are choices: the
steps an angle asks for, whether an estimate overflows (possible once the tip
was drawn to a far position, also through the smoother), how many states the end
of a stroke gives.

Abstractions to know about. The loop modeler's history has one entry per call
that had Results, where the code has one per Result. The corrected position of
an input is a function of the smoother's history and not kept. The overflow of a
position that was only smoothed counts too. A Move with zero steps is recorded
as followed, although the tip did not move.

`SessionSpec` says that this implements `StrokeSession`, where `stroke` is the
position modeler's history while there is a last input, and `saved` is the
position modeler's copy while both it and the facade think there is a save.

### The sub-modelers

Each is modelled as the facade uses it, with the facade's last input to say
which calls are possible, and an auxiliary history to say what should be in a
window.

- `WobbleSmoother`: positions on a line, integers; the pop loop is "drop the
  samples before the first that is not too old"; the result is a fraction.
- `StylusStateModeler`: closest-point projections are computed on a line; where
  a stroke normal hits the polyline, on which side and how far away, is any
  choice. Of pressure and tilt only whether they are known matters; orientations
  are integers, a full turn being `FullTurn`, and are interpolated as
  `InterpAngle` does. Velocities and accelerations are left out. The facade's
  Down is `ResetAndUpdate`.
- `LoopContractionMitigation`: integer speeds, strengths in parts of `One`.
- `PositionModeler`: the spring may take the tip to any of `Points`; the loops
  of Move, Up and a stroke end prediction run one iteration per step and the
  client waits. `call.copy` is the tip that the call's loop works on, which for a
  prediction is not the stroke's. Times are integers in units that can be halved
  `MaxIterations` times.

A Move may always be rejected after the smoother and the stylus modeler took it
(`stroke_modeler.cc:296-302`): the modules' `Update` then leaves `lastTime`.

### The Kalman predictor

`KalmanFilter` computes in the integers modulo a prime: an equation between
rational functions that holds for real numbers holds there, and one that does
not hold fails in many of the instances that are checked. Zero has no reciprocal;
the module gives it 0, so that every filter is defined: an innovation variance
that is 0 modulo the prime, which no positive one is in the code, leaves the
estimate as predicted. What needs an order,
that a variance is positive or a distance short, cannot be said; so the part of
the confidence that depends on speeds and distances, and the number of points of
the connector, which is a quotient of lengths, are choices of `Predict`.

`KalmanPredictor` is one axis of the predictor as the facade drives it: reset by
a Down, given its raw position and the corrected ones of the Moves (an Up does not
reach it), copied by Save and Restore. `params`, `filter`, `times` are the members `predictor_params_`,
`x_predictor_`, `sample_times_`. With all times of the window equal the code
divides by zero, and the model has the estimate `NotFinite`; the connector then
is the only part of the prediction that there is. Times are computed as the code
does, the connector's by dividing its duration (`TimeAlong`), the second cubic's
by adding up steps from the time of the last point (`StartAfter`, `Beyond`);
nothing but their agreement makes them evenly spaced.

### ParamsValidation

The structs of `params.h` are flat here: a set of switches and two functions,
from the names of the fields to integers and to floating-point numbers, which
are halves of integers, `Infinity`, its negative, or `NaN`. Each validator is an
operator of the same name. The client changes a field or a switch at a time
(`EditFloat`, `EditInt`, `Toggle`) and calls `Reset`. `Usable` is stated from the
code that *uses* the parameters and from the bounds that `params.h` gives, and NaN
meets none of them. The validators accept everything usable; what they accept is
usable unless one of the fields they only compare (`ComparedOnly`) is NaN, which
`nan_bounds` shows they let pass.

## Runs

All runs are exhaustive. States are distinct states.

| Run | Question | Size |
| --- | --- | --- |
| `session` | Does a client that restores only in the stroke it saved get what the header promises, on one coherent stroke? | 617k |
| `any_client` | Does a client that calls anything, and toggles prediction, ever get old parameters or a default Result? | 195k |
| `smoothing` | Are sums, window and average right over evictions, Saves and Restores? | 469k |
| `stylus` | Is the window of raw inputs sufficient and minimal; are missing fields stripped, the closest point found, the right hit of a normal used, and orientations turned the shorter way? | 1730k |
| `loop` | Is the speed window the recent one, the value between its bounds? | 60k |
| `end_of_stroke` | Do times advance, does the end converge, does a prediction leave the stroke alone, does every call return? | 537k |
| `prediction` | Is the filter of this stroke and optimal, the prediction one smooth curve whose times go on from one cubic to the next? | 541k |
| `validation` | Is everything usable accepted, and all numbers accepted usable? | 406k |

Bounds. `session` and `any_client` allow histories of three calls (`MaxCalls`,
one more for an Up): a Down, an accepted and a rejected Move, Save and Restore
anywhere, and an Up, which is every order in which two objects can disagree; the
inputs make each guard go both ways (equal and decreasing times, steps above the
limit, missing and NaN fields, far and invalid positions). `PredictionCap` only
bounds a number nothing depends on. The smoother and the two window modules
take four inputs of a stroke, at equal, increasing and (after a rejected Move)
decreasing times, with parameters for which the window holds one, two or all of
them, so that two samples may go at once; those of the stylus modeler lack none,
some or all of the fields, and each of its states answers one Query, whose normal
may hit any segments on both sides. `end_of_stroke`
has paths of zero, one and two steps and three iterations: output, retry and stop
in every order. `prediction` has four inputs of a stroke, windows of one, two and
three times, stability at the first, second and third input, the desired number
of samples reached and not, connectors of one and three points, and the prime
1009. `validation` starts from the defaults of `params.h` and from tuned
parameters and makes two edits, which is what it takes for a switch and a field,
or two fields that are compared, to be at fault together; each field takes both
sides of every bound, the infinities (`Infinity` is 30000, beyond all bounds in
halves) and NaN.

Deadlock is checked everywhere. Fairness is assumed in `PositionModeler` only:
`WF_vars(Proceed)`, a call that was made runs on, as straight-line code does.
Nothing obliges a client to call, so the other modules claim safety alone.

## Where code and documentation part

Four runs end in a violation, of one statement of the repository each. The first
three are faults of the code; in the last one code and text disagree.

| Run | What happens |
| --- | --- |
| `predict_disabled` | A predictor saved before prediction was disabled comes back with Restore: Save does not clear `saved_predictor_`. |
| `restore_unsaved` | A Down leaves `save_active_`: Restore in a stroke without Save replaces the last input by that of an earlier one, against "does nothing". |
| `normal_time` | A Move overwrites `last_input_` before its time is used as the previous time. |
| `nan_bounds` | NaN passes the validation of fields that are only compared (`params.cc:51-65`, `85`), against the bounds in `params.h:73-106` and the intent of `params_test.cc:365`. |

Further differences were met while modelling. The modules follow the code, and
no property claims what the text says instead; no run is spent on them:

- An input with a NaN pressure, tilt or orientation never equals itself
  (`types.h:376`), so its duplicate is accepted, against `README.md:201-203` of
  the repository.
- A Move at the time of the last input succeeds without a Result
  (`stroke_modeler.cc:305`), against `stroke_modeler.h:77-79`.
- Only the steps of a path are counted against `max_outputs_per_call`
  (`position_modeler.cc:47`), the states of the end of a stroke are not, and
  predictions never are, against `params.h:133-134`.
- `InterpAngle` gives a full turn halfway across zero (`utils.h:70`), which
  `utils.h:65-66` excludes.
- Speeds are popped until the window spans less than `min_speed_sampling_window`
  (`loop_contraction_mitigation_modeler.cc:40`), against `params.h:96-102`, which
  has it span at least that.
- What extends beyond the estimate may be longer than `prediction_interval` by
  less than a step, as the count is rounded up (`kalman_predictor.cc:282`),
  against `params.h:262-267`, "it will never be greater".
- A rejected Move stays in the smoother (`stroke_modeler.cc:288`) and is averaged
  with later ones. A later Move of an earlier time then has a negative duration,
  and the smoothed position can leave the raw positions it is the average of. The
  rejected Move also evicts raw inputs from the stylus modeler that the stroke
  still needs (`stroke_modeler.cc:289`). `SmoothedInsideWindow`,
  `WindowIsPreviousTimeout` and part of `WindowSufficient` are claimed for
  inputs in the order of their times.
- `wobble_smoother.cc:71` weights positions by durations; `README.md:396-405`
  of the repository has the mean.
- Equal speed bounds are valid (`params.cc:51`), but then the strength at the
  upper one is never used, against `params.h:81-83`.
- The time between samples is the span of the window divided by the number of
  samples, not of intervals (`kalman_predictor.cc:88-93`). `max_time_samples` of
  1 is valid, but the time is then always 0 and nothing of a prediction finite,
  as it is when all times of the window are equal.
- The Kalman predictor's `baseline_linearity_confidence` may be NaN
  (`params.cc:226`), like the fields of `nan_bounds`.

These differences are why some properties stop short of the documents:
`WindowIsRecent` says what holds of the window whichever way the bound is meant,
`OrientationTakesShorterPath` is about directions, the full turn being that of 0,
and `AcceptedNumbersAreUsable` leaves out the fields that are only compared where
one of them is NaN.

`restore_unsaved` is why `session` and some theorems assume a client that calls
Restore only if it called Save in the current stroke
(`RestoreOnlyInSavedStroke`), and `predict_disabled` why
`PredictorFollowsStroke` is proved only for a client that does not turn
prediction on or off (`PredictionNeverToggled`).

## Proofs

Each module of proofs proves theorems of the specification it is named after, for
every value of the constants that meets the assumptions that module states
(parameters and inputs have their types and are what validation lets pass, the
names for "none" are no values). Histories are as long as `MaxInputs` or
`MaxCalls` allow, which is any number.

### StrokeModelerProofs

| Theorem | States | Of which clients |
| --- | --- | --- |
| `TypeCorrect` | `TypeOK` | any |
| `OneParams` | `OneParamsPerStroke` | any |
| `NoDefaultBlended` | `DefaultStateNeverBlended` | any |
| `Coherence` | `StrokeCoherent` | restores only in a saved stroke |
| `PredictorCoherence` | `PredictorFollowsStroke` | moreover never toggles prediction |
| `Refinement` | `SessionSpec` | restores only in a saved stroke |

The inductive invariants, each on top of the ones before it:

- `ParamsInv`. That the sub-modelers of a stroke have the current parameters is
  not inductive: a Restore could start a stroke again. It also needs that while
  a save is active and holds a stroke, they have them too, which holds because
  both Resets clear `saveActive`.
- `StylusInv`. The samples are empty only when all fields are unknown and they
  are not needed, in the saved copy as well; validation then excludes blending.
- `StrokeInv`, that is `StrokeCoherent` and `SavesAgree`: the four saves of the
  sub-modelers are cleared and made together, so one of them being there says
  the others are. The Move that is rejected half way is the interesting step:
  `wobble` and `stylus` grow and the stroke does not, which is why coherence
  speaks of subsets for these two.
- `PredictorInv`: also the saved predictor has the inputs of the saved stroke.

Refinement maps every step to one of `StrokeSession` or to a stutter, with
`StrokeInv` to know what Restore brings back.

### ParamsValidationProofs

`VerdictCorrect`: of all parameters, those that are `Usable` are accepted, and
those accepted are `Usable` unless a field of `ComparedOnly` that is in use is
NaN. `AcceptedUsable` (`AcceptedNumbersAreUsable`) and `RefusedUnusable`
(`RefusedIsUnusable`) say the same of what a client does with `Reset`, for any
number of edits. The argument is validator by validator: a comparison that NaN
fails says what it says of numbers, and one that NaN passes says it only of
numbers. `IgnoredDoNotMatter`
(`IgnoredFieldsDoNotMatter`) follows from which fields each validator reads.

### PositionModelerProofs

| Theorem | States |
| --- | --- |
| `TypeCorrect` | `TypeOK`, so that the end of a stroke takes at most `MaxIterations` iterations and the buffer what was reserved |
| `TipCorrect` | `TipAtLastInput` |
| `AdvanceCorrect` | `OutputsAdvance`: none of a call's times goes back, or stands still unless the call is over no time |
| `EndConverges` | `EndApproachesInput` |
| `UpCorrect` | `UpGivesTip` |
| `EveryStepCounts` | Every step of a call leaves less of it (`Remaining`), so that a call takes a bounded number of steps |

`IInv` says of the loops what their variables mean: the states so far are those
of the path up to the step reached, each at its time; the end of a stroke starts
at the time of its input and its steps are the tick halved as often as was retried,
positive because `HalvesAssumption` lets the tick be halved that often; the
outputs so far advance (`AdvanceInv`), and the state the loop works on is never
behind them or the input, which also settles the state that an Up gives when it
has no other (`FinishAdvances`). Times of a path are quotients, and that the last of
them is exactly the input's time is `StepCounts` and divisibility.
`EndConverges` rests on a lemma about squared distances, `NotOvershotIsNearer`:
what the test of `position_modeler.h:115` lets pass has come nearer.

### KalmanPredictorProofs

| Theorem | States |
| --- | --- |
| `TimesCorrect` | `WindowIsLatestTimes` |
| `StableCorrect` | `PredictsFromStableOn` |
| `AdvancesCorrect` | `PredictionAdvances` |
| `OfThisStroke` | `FilterIsOfThisStroke` |
| `TypeCorrect` | `TypeOK` |
| `ShiftsCorrect` | `EstimateShifts` |
| `OptimalCorrect` | `FilterIsOptimal` |
| `SmoothCorrect` | `PredictionIsSmooth` |

All for every prime above 6, window, interval, noise and length of stroke. The
first three rest on `StrokeInv`: the filter has counted the inputs of the stroke
and the times are the window of it, for the saved copy too. `OutputInv` says the
same of the inputs a prediction was made from. `AdvancesCorrect` needs two
different arguments for the two cubics: the connector's duration is a whole number
of steps for each of its points, so the quotient is exact (`ConnectorPoints`); the
loop of the second one adds a step at a time to where the first one ended, by
induction (`BeyondPoints`).

The filter is a fold of its inputs, `Filtered`. `FilterInv` says that the filter
and its saved copy are those folds; one input more is one step more of a
recursive function, by induction over the steps (*The filter after a stroke*).
`ShiftsCorrect` is another induction over the same runs: the filter of the moved
stroke stays `ShiftedFilter` of the other, because predicting keeps a shift of
the position and updating by a shifted measurement has the same residual.

The rest is algebra in the field modulo the prime. That it is a field, so that
`Over` divides, is proved from `PrimeAssumption` (*The field*): if a number had
no reciprocal, then neither had the remainder of the prime by it, which is
smaller. `OptimalCorrect` writes the Joseph form of `kalman_filter.cc:63-69` out,
entry by entry: with the gain `P[i][1] / S` the three products of covariances
collapse to one. It needs that the covariance of any run is symmetric
(`SandwichSymmetric`, `JosephSymmetric`). `SmoothCorrect` needs that evaluating a
cubic and then, from its state there, once more is evaluating it later; that the
coefficients the code solves for are those of the Hermite curve, from which two
division-free identities follow; and that a nonzero duration can be divided out.

### WobbleSmootherProofs, StylusStateModelerProofs, LoopContractionMitigationProofs

| Module | Theorem | States |
| --- | --- | --- |
| `WobbleSmootherProofs` | `WindowCorrect` | `WindowIsPreviousTimeout` |
| | `TypeCorrect` | `TypeOK` |
| | `SumsCorrect` | `SumsMatchWindow` |
| | `InsideCorrect` | `SmoothedInsideWindow` |
| `StylusStateModelerProofs` | `WindowCorrect` | `WindowSufficient` |
| | `MissingCorrect` | `MissingFieldsStick` |
| | `OutsideCorrect` | `ProjectionIsOutside` |
| | `TypeCorrect` | `TypeOK` |
| | `ClosestCorrect` | `ProjectionIsClosest` |
| | `OrientationCorrect` | `OrientationTakesShorterPath` |
| `LoopContractionMitigationProofs` | `TypeCorrect` | `TypeOK` |
| | `WindowCorrect` | `WindowIsRecent` |
| | `ValueCorrect` | `ValueBetweenStrengths` |

*Windows.* A loop that pops the front while it may is "the longest suffix of
which nothing may go"; what that suffix is follows from the existence of least
elements (`LeastOf` in `ModelerLemmas`, from the well-foundedness of the
intervals from 0). `Tracks` is the invariant, of the state and its saved copy:
the window is a suffix of the history, is long enough if anything was dropped,
and would be too short without its oldest. That something dropped earlier is not
missed later needs the order of times: for the loop modeler tip states are in
order, for the other two it is a premise. Without it the smoother's deque still
is a suffix of the history, and never empty during a stroke: the sample just
added is not old.

*Sums.* What a running sum has added and taken away is the sum of what is left:
`SumAppend` and `SumSplit`, together `SumOfWindow`, by induction over the length
(`NatInduct`, in which a set of numbers stands for the predicate). `SumsInv`
carries this through Saves and Restores. That an average weighted by durations is
within the window (`InsideCorrect`) is `SumsCompare`, of the weighted positions
and the durations times an extreme position; the clamped mixture with the raw
position, between the two ends of the speed range, stays within it because the
raw position is in the window, too. `ValueCorrect` is the same of the two
strengths.

*Queries.* A Query reads samples that are in the window and were inputs, so what
they lack is among what any input lacked. The hit nearest on a side exists if the
side has a hit, by least elements. `QueryEnds` says that a Query takes one sample
or the two ends of a segment. `ClosestCorrect` is a discrete intermediate value
theorem (`Straddled`): positions on both sides of the tip have two in a row that
are, so that some segment is at distance 0, hence the one chosen is; beyond the
extremes, a segment that ends in the nearer extreme takes the part of that one.
`OrientationCorrect` needs no invariant but the types: normalizing keeps a
direction (`Normalized`), the end turned to is at most half a turn away
(`NearEnd`), and `ArcIs` measures the arc between two directions by any
difference of them that is not more than half a turn. `AnswerInv` collects what
is said of an answer; only a Query makes one, and every other call that could
make it wrong forgets it.

### Only model-checked

- Liveness, `CallsReturn`: fairness and `ENABLED` are beyond the prover. Proved
  is that every step of a call uses up a natural number (`EveryStepCounts`); that
  a call never gets stuck before it is used up, deadlock included, is checked.
- The four violations: each is a counterexample, which is all there is to show.

Everything else a passing run checks is a theorem. The prover has no induction
rule for predicates here, so the inductions are over sets of numbers, and the
sums and the filter are written as recursive functions, of which it can be shown
that they exist (`SumsExist`).

## Not modelled

- Rounding: times that overflow or differ by less than their precision, sums
  that do not come out at 0, variances that rounding makes negative. Sums and
  quotients are exact, the filter's algebra is modular.
- The direction of a stroke normal (`GetStrokeNormal`) and its intersections with
  segments need square roots and real coordinates in the plane; their results
  are choices.
- The spring: where it takes the tip is a choice, so that nothing is said about
  how well the tip follows.
- Lengths and speeds in the Kalman predictor's confidence and connector.
- `normalize_angle` of an infinite orientation does not end; orientations are
  finite here, though validation does not check them (`types.cc:57-59`).
- Error texts, formatting (`internal_types.cc`, parts of `types.cc`), test
  matchers, build files: nothing depends on them at run time.
- Inputs with an event type outside the enumeration, which C++ callers can only
  make by a cast.

## Plan

1. Done: `StrokeSession`, `StrokeModeler`, `WobbleSmoother`,
   `StylusStateModeler`, `LoopContractionMitigation`, `PositionModeler` with the
   stroke end predictor, `KalmanFilter`, `KalmanPredictor`, `ParamsValidation`;
   theorems of every safety property of theirs that is checked.
2. Composition: that the windows of the sub-modelers are functions of the
   histories in `StrokeModeler`, as refinements.
