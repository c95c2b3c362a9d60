----------------------------- MODULE KalmanFilter -----------------------------
(***************************************************************************)
(* The Kalman filter of one axis (kalman_filter.cc, axis_predictor.cc) and *)
(* the 4 x 4 algebra it is written in (matrix.h).                          *)
(*                                                                         *)
(* Numbers are those of the field of integers modulo Prime.  An equation   *)
(* between what the filter computes and what it should compute that holds  *)
(* for exact numbers holds there too, and one that does not hold fails in  *)
(* some of many instances.  There is no order: only equations are claimed. *)
(***************************************************************************)
EXTENDS Integers, Sequences

CONSTANTS
  Prime,           \* modulus of the arithmetic
  ProcessNoise,    \* KalmanPredictorParams::process_noise
  MeasurementNoise \* KalmanPredictorParams::measurement_noise

ASSUME PrimeAssumption ==
  /\ Prime \in Nat /\ Prime > 6
  /\ \A n \in 2 .. Prime - 1 : Prime % n # 0
ASSUME NoiseAssumption ==
  {ProcessNoise, MeasurementNoise} \subseteq 1 .. Prime - 1

-----------------------------------------------------------------------------
(* Numbers, vectors and matrices *)

Field == 0 .. Prime - 1

\* 0 has none, and 0 stands for it: an instance with a variance of 0 modulo
\* Prime is like no run of the code, where variances are positive.
Reciprocal ==
  [a \in Field |-> IF a = 0 THEN 0 ELSE CHOOSE b \in Field : (a * b) % Prime = 1]
Over(a, b) == (a * Reciprocal[b % Prime]) % Prime

Half == Reciprocal[2]
Sixth == Reciprocal[6]

\* The coordinates of a function, as a tuple.
Vec4(f) == <<f[1], f[2], f[3], f[4]>>
Matrix4(f) == <<Vec4(f[1]), Vec4(f[2]), Vec4(f[3]), Vec4(f[4])>>

IdentityMatrix == Matrix4([i \in 1 .. 4 |-> [j \in 1 .. 4 |-> IF i = j THEN 1 ELSE 0]])
Transpose(m) == Matrix4([i \in 1 .. 4 |-> [j \in 1 .. 4 |-> m[j][i]]])

DotProduct(u, v) == (u[1] * v[1] + u[2] * v[2] + u[3] * v[3] + u[4] * v[4]) % Prime
OuterProduct(u, v) == Matrix4([i \in 1 .. 4 |-> [j \in 1 .. 4 |-> (u[i] * v[j]) % Prime]])

VecPlus(u, v) == Vec4([i \in 1 .. 4 |-> (u[i] + v[i]) % Prime])
VecScaled(v, k) == Vec4([i \in 1 .. 4 |-> (v[i] * k) % Prime])
MatrixPlus(m, n) == Matrix4([i \in 1 .. 4 |-> [j \in 1 .. 4 |-> (m[i][j] + n[i][j]) % Prime]])
MatrixMinus(m, n) == Matrix4([i \in 1 .. 4 |-> [j \in 1 .. 4 |-> (m[i][j] - n[i][j]) % Prime]])
MatrixScaled(m, k) == Matrix4([i \in 1 .. 4 |-> [j \in 1 .. 4 |-> (m[i][j] * k) % Prime]])

\* m * n, m * v and v * m.
Times(m, n) ==
  LET t == Transpose(n) IN Matrix4([i \in 1 .. 4 |-> [j \in 1 .. 4 |-> DotProduct(m[i], t[j])]])
TimesVec(m, v) == Vec4([i \in 1 .. 4 |-> DotProduct(m[i], v)])
VecTimes(v, m) == LET t == Transpose(m) IN Vec4([i \in 1 .. 4 |-> DotProduct(v, t[i])])

-----------------------------------------------------------------------------
(* The filter *)

\* MakeKalmanFilter: position, velocity, acceleration and jerk after a time of
\* one, and how a force on the pen disturbs them.
StateTransition ==
  <<<<1, 1, Half, Sixth>>, <<0, 1, 1, Half>>, <<0, 0, 1, 1>>, <<0, 0, 0, 1>>>>
ProcessNoiseVector == <<Sixth, Half, 1, 1>>
ProcessNoiseCovariance ==
  MatrixScaled(OuterProduct(ProcessNoiseVector, ProcessNoiseVector), ProcessNoise)
MeasurementVector == <<1, 0, 0, 0>>

NewFilter ==
  [estimate |-> <<0, 0, 0, 0>>, covariance |-> IdentityMatrix, iterations |-> 0]

\* Mutant: the covariance of the last stroke is kept.
ResetEstimateOnly(filter) ==
  [filter EXCEPT !.estimate = <<0, 0, 0, 0>>, !.iterations = 0]

FilterReset(filter) ==
  [filter EXCEPT !.estimate = <<0, 0, 0, 0>>, !.covariance = IdentityMatrix,
                 !.iterations = 0]

\* Mutant: the covariance is not transformed on its other side.
PredictOneSided(filter) ==
  [filter EXCEPT
     !.estimate = TimesVec(StateTransition, @),
     !.covariance = MatrixPlus(Times(StateTransition, @), ProcessNoiseCovariance)]

FilterPredict(filter) ==
  [filter EXCEPT
     !.estimate = TimesVec(StateTransition, @),
     !.covariance = MatrixPlus(
        Times(Times(StateTransition, @), Transpose(StateTransition)),
        ProcessNoiseCovariance)]

\* Mutant: the measurement is taken to be free of noise.
InnovationWithoutNoise(covariance) ==
  DotProduct(VecTimes(MeasurementVector, covariance), MeasurementVector)

InnovationVariance(covariance) ==
  (DotProduct(VecTimes(MeasurementVector, covariance), MeasurementVector)
     + MeasurementNoise) % Prime

\* All but the first Update.
Corrected(filter, observation) ==
  LET residual == (observation - DotProduct(MeasurementVector, filter.estimate)) % Prime
      gain == VecScaled(VecTimes(MeasurementVector, filter.covariance),
                        Reciprocal[InnovationVariance(filter.covariance)])
      rest == MatrixMinus(IdentityMatrix, OuterProduct(gain, MeasurementVector))
  IN  [filter EXCEPT
         !.estimate = VecPlus(@, VecScaled(gain, residual)),
         !.covariance = MatrixPlus(
            Times(Times(rest, @), Transpose(rest)),
            MatrixScaled(OuterProduct(gain, gain), MeasurementNoise))]

\* Mutant: the first observation is one like the others.
UpdateFromOrigin(filter, observation) ==
  [Corrected(FilterPredict(filter), observation) EXCEPT
     !.iterations = filter.iterations + 1]

\* The first observation only sets the position.
FilterUpdate(filter, observation) ==
  LET updated == IF filter.iterations = 0
                 THEN [filter EXCEPT !.estimate[1] = observation]
                 ELSE Corrected(FilterPredict(filter), observation)
  IN  [updated EXCEPT !.iterations = filter.iterations + 1]

=============================================================================
