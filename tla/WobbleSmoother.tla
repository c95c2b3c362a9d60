--------------------------- MODULE WobbleSmoother ---------------------------
(***************************************************************************)
(* The wobble smoother (wobble_smoother.cc): a moving average of the raw   *)
(* positions over the previous `timeout`, weighted by duration, that gives *)
(* way to the raw position as the pen gets faster.  It keeps running sums  *)
(* instead of adding up its window at each call.                           *)
(*                                                                         *)
(* Positions are on a line and, like times, integers, and a quotient is a  *)
(* pair [num, den]: what is checked is the bookkeeping, not the rounding.  *)
(***************************************************************************)
EXTENDS Sums, FiniteSetsExt, SequencesExt

CONSTANTS
  Params,        \* WobbleSmootherParams that pass validation
  Positions,     \* raw positions
  Times,         \* input times
  NoStroke,      \* no stroke in progress
  NoSave,        \* no saved state since the last Reset
  NoOutput,      \* the last call gave no position
  MaxInputs      \* bound: inputs of one stroke

ParamsType ==
  [enabled : BOOLEAN, timeout : Nat, speedFloor : Nat, speedCeiling : Nat]

ASSUME ParamsAssumption ==
  \A p \in Params : p \in ParamsType /\ p.speedFloor <= p.speedCeiling
ASSUME InputsAssumption == Positions \subseteq Int /\ Times \subseteq Nat
ASSUME NoStrokeAssumption == NoStroke \notin Times
ASSUME BoundsAssumption == MaxInputs \in Nat

VARIABLES
  params,    \* params_
  state,     \* state_: samples and the three running sums
  saved,     \* saved_state_, or NoSave
  output,    \* the position that the last call gave, if any, as [num, den]
  lastTime,  \* time of the facade's last_input_, or NoStroke
  history    \* auxiliary: all samples since Reset, dropped or not, with what
             \* Save kept of them

vars == <<params, state, saved, output, lastTime, history>>

-----------------------------------------------------------------------------
(* The window and its sums *)

Dist(p, q) == IF p < q THEN q - p ELSE p - q

WeightedPositions(s) == [i \in DOMAIN s |-> s[i].weightedPosition]
Distances(s) == [i \in DOMAIN s |-> s[i].distance]
Durations(s) == [i \in DOMAIN s |-> s[i].duration]

FirstSample(position, time) ==
  [position |-> position, weightedPosition |-> 0, distance |-> 0,
   duration |-> 0, time |-> time]

NextSample(previous, position, time) ==
  LET duration == time - previous.time
  IN  [position |-> position, weightedPosition |-> position * duration,
       distance |-> Dist(position, previous.position),
       duration |-> duration, time |-> time]

\* Mutant: a sample exactly `timeout` old is dropped.
TimedOutEarly(sample, limit) == sample.time <= limit

TimedOut(sample, limit) == sample.time < limit

\* How many samples the loop pops: those before the first that is not too old.
DropCount(samples, limit) ==
  Min({i \in DOMAIN samples : ~TimedOut(samples[i], limit)}
        \cup {Len(samples) + 1}) - 1

\* Mutant: what is dropped still counts in the average position.
SumsKeepPosition(st, dropped) ==
  [st EXCEPT !.distanceSum = @ - Total(Distances(dropped)),
             !.durationSum = @ - Total(Durations(dropped))]

Subtract(st, dropped) ==
  [st EXCEPT !.weightedPositionSum = @ - Total(WeightedPositions(dropped)),
             !.distanceSum = @ - Total(Distances(dropped)),
             !.durationSum = @ - Total(Durations(dropped))]

\* push_back, the additions to the sums, and the pop_front loop.
Smoothed(st, position, time) ==
  LET sample  == NextSample(Last(st.samples), position, time)
      samples == Append(st.samples, sample)
      drop    == DropCount(samples, time - params.timeout)
  IN  Subtract(
        [samples |-> SubSeq(samples, drop + 1, Len(samples)),
         weightedPositionSum |-> st.weightedPositionSum + sample.weightedPosition,
         distanceSum |-> st.distanceSum + sample.distance,
         durationSum |-> st.durationSum + sample.duration],
        SubSeq(samples, 1, drop))

-----------------------------------------------------------------------------
(* The position it gives *)

Fraction(num, den) ==
  IF den < 0 THEN [num |-> -num, den |-> -den] ELSE [num |-> num, den |-> den]

Exactly(x) == Fraction(x, 1)

\* Mutant: the ratio is not clamped.
Unclamped(f) == f

Clamp01(f) ==
  IF f.num < 0 THEN Exactly(0) ELSE IF f.num > f.den THEN Exactly(1) ELSE f

\* utils.h Normalize01, of a speed.
Normalize01(start, end, speed) ==
  IF start = end
  THEN IF speed.num > start * speed.den THEN Exactly(1) ELSE Exactly(0)
  ELSE Clamp01(Fraction(speed.num - start * speed.den, (end - start) * speed.den))

\* utils.h Interp, from a fraction to an integer.
Interp(from, to, ratio) ==
  Fraction(from.num * ratio.den + (to * from.den - from.num) * ratio.num,
           from.den * ratio.den)

\* Mutant: the average is taken even when no time has passed.
AverageAnyway(st, position) ==
  [num |-> st.weightedPositionSum, den |-> st.durationSum]

Position(st, position) ==
  IF st.durationSum = 0 THEN Exactly(position)
  ELSE Interp(Fraction(st.weightedPositionSum, st.durationSum), position,
              Normalize01(params.speedFloor, params.speedCeiling,
                          Fraction(st.distanceSum, st.durationSum)))

-----------------------------------------------------------------------------
(* The operations, as the facade calls them *)

Started(position, time) ==
  [samples |-> <<FirstSample(position, time)>>, weightedPositionSum |-> 0,
   distanceSum |-> 0, durationSum |-> 0]

Init ==
  /\ params \in Params
  /\ state = [samples |-> <<>>, weightedPositionSum |-> 0, distanceSum |-> 0,
              durationSum |-> 0]
  /\ saved = NoSave
  /\ output = NoOutput
  /\ lastTime = NoStroke
  /\ history = [now |-> <<>>, saved |-> <<>>]

\* A Down.
Reset(p, position, time) ==
  /\ lastTime = NoStroke
  /\ params' = p
  /\ state' = Started(position, time)
  /\ saved' = NoSave
  /\ output' = Exactly(position)
  /\ lastTime' = time
  /\ history' = [now |-> state'.samples, saved |-> <<>>]

\* A Move: never before the last input that was accepted.  When the facade
\* then rejects it, last_input_ stays but the sample is in the window.
Update(position, time) ==
  /\ lastTime # NoStroke /\ time >= lastTime
  /\ Len(history.now) < MaxInputs
  /\ IF params.enabled
     THEN /\ state' = Smoothed(state, position, time)
          /\ output' = Position(state', position)
          /\ history' = [history EXCEPT !.now =
                           Append(@, NextSample(Last(@), position, time))]
     ELSE /\ output' = Exactly(position)
          /\ UNCHANGED <<state, history>>
  /\ lastTime' \in {time, lastTime}
  /\ UNCHANGED <<params, saved>>

\* An Up does not reach the smoother.
EndStroke ==
  /\ lastTime # NoStroke
  /\ lastTime' = NoStroke
  /\ output' = NoOutput
  /\ UNCHANGED <<params, state, saved, history>>

Save ==
  /\ saved' = [state |-> state, lastTime |-> lastTime]
  /\ history' = [history EXCEPT !.saved = history.now]
  /\ output' = NoOutput
  /\ UNCHANGED <<params, state, lastTime>>

Restore ==
  /\ saved # NoSave
  /\ state' = saved.state
  /\ lastTime' = saved.lastTime
  /\ history' = [history EXCEPT !.now = history.saved]
  /\ output' = NoOutput
  /\ UNCHANGED <<params, saved>>

Next ==
  \/ \E p \in Params, x \in Positions, t \in Times : Reset(p, x, t)
  \/ \E x \in Positions, t \in Times : Update(x, t)
  \/ EndStroke
  \/ Save
  \/ Restore

Spec == Init /\ [][Next]_vars

-----------------------------------------------------------------------------
(* Properties *)

SampleType ==
  [position : Positions, weightedPosition : Int, distance : Nat,
   duration : Int, time : Times]

StateType ==
  [samples : Seq(SampleType), weightedPositionSum : Int, distanceSum : Int,
   durationSum : Int]

\* The types of wobble_smoother.h:49-75.
TypeOK ==
  /\ params \in Params
  /\ state \in StateType
  /\ saved # NoSave =>
       saved.state \in StateType /\ saved.lastTime \in Times \cup {NoStroke}
  /\ output = NoOutput \/ output \in [num : Int, den : Nat \ {0}]
  /\ lastTime \in Times \cup {NoStroke}

\* The running sums (wobble_smoother.cc:52-60) are those of the window, after
\* any number of additions, evictions and Restores: nothing an old sample
\* added is left behind, and nothing is taken off twice.
SumsMatchWindow ==
  /\ state.weightedPositionSum = Total(WeightedPositions(state.samples))
  /\ state.distanceSum = Total(Distances(state.samples))
  /\ state.durationSum = Total(Durations(state.samples))

\* No Move was rejected and then followed by one of an earlier time, which is
\* the only way to go back in time (stroke_modeler.cc:296-302).
InOrder(s) == \A i, j \in DOMAIN s : i <= j => s[i].time <= s[j].time

\* The window (wobble_smoother.cc:55-60) is the set of all inputs of the stroke
\* in the previous `timeout`, as README.md:391-394 has it: what was popped is
\* never needed again.  The deque the loop looks at is never empty, whatever
\* was rejected.
WindowIsPreviousTimeout ==
  lastTime # NoStroke =>
    /\ state.samples # <<>>
    /\ InOrder(history.now) =>
         LET n == Len(history.now)
             older == n - Len(state.samples)
         IN  /\ state.samples = SubSeq(history.now, older + 1, n)
             /\ \A i \in 1 .. n :
                  i > older <=>
                    history.now[i].time >= history.now[n].time - params.timeout

\* The moving average (README.md:391-405) is an average: the smoothed position
\* is never outside of the raw positions in the window.  After a rejected Move
\* of a later time this holds again as soon as that Move has left the window.
SmoothedInsideWindow ==
  output # NoOutput /\ params.enabled /\ InOrder(state.samples)
    /\ (\A i \in DOMAIN state.samples : state.samples[i].duration >= 0) =>
    /\ \E i \in DOMAIN state.samples :
         state.samples[i].position * output.den <= output.num
    /\ \E i \in DOMAIN state.samples :
         output.num <= state.samples[i].position * output.den
=============================================================================
