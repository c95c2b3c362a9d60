-------------------------- MODULE MCParamsValidation --------------------------
(***************************************************************************)
(* A small instance of ParamsValidation: a client that starts from         *)
(* parameters in use, or from the defaults of the structs, and changes up  *)
(* to two fields or switches.                                              *)
(***************************************************************************)
EXTENDS ParamsValidation, TLC

\* The defaults of params.h: -1 for what has to be tuned.
MCDefaults ==
  [uses |-> {"smoother"},
   floats |-> [field \in FloatFields |-> IF field \in
                 {"spring_mass_constant", "drag_constant", "acceleration_weight",
                  "jerk_weight", "baseline_linearity_confidence"}
               THEN Half ELSE -One],
   ints |-> "min_stable_iteration" :> 4 @@ "max_time_samples" :> 20
              @@ "desired_number_of_samples" :> 20
              @@ "end_of_stroke_max_iterations" :> 20
              @@ "max_outputs_per_call" :> 100000 @@ "max_input_samples" :> 10
              @@ [field \in IntFields |-> -1]]

\* All switches on, as in params_test.cc:29-66.
MCTuned ==
  [uses |-> Switches,
   floats |-> [field \in FloatFields |->
                 IF field \in {"speed_upper_bound", "speed_ceiling", "max_travel_speed"}
                 THEN 2 * One ELSE Half],
   ints |-> [field \in IntFields |-> 10]]

MCFirstParams == {MCDefaults, MCTuned}

\* Both sides of every bound a field is compared with.
MCFloats ==
  {NaN, Infinity, -Infinity, -One, 0, Half, One, One + Half, kPi - 1, kPi,
   kMaxSamplingWindow, kMaxSamplingWindow + 1}
MCInts == {-1, 0, 1, 1000, 1001, 10000, 10001}
=============================================================================
