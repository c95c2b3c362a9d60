------------------------- MODULE PositionModelerProofs -------------------------
(***************************************************************************)
(* Theorems about PositionModeler, for every set of points and times and   *)
(* every parameters, however often the loops run and whatever the spring   *)
(* does to the tip.                                                        *)
(***************************************************************************)
EXTENDS PositionModeler, SequenceTheorems, TLAPS

-----------------------------------------------------------------------------
(* Geometry *)

\* A step that does not overshoot the anchor ends nearer to it.
LEMMA NotOvershotIsNearer ==
  ASSUME NEW p \in Points, NEW q \in Points, NEW a \in Points, ~Overshot(p, q, a)
  PROVE  SquaredDistance(q, a) < SquaredDistance(p, a)
<1> DEFINE ux == q.x - p.x
           uy == q.y - p.y
           vx == a.x - p.x
           vy == a.y - p.y
<1>1. /\ p.x \in Int /\ p.y \in Int /\ q.x \in Int /\ q.y \in Int
      /\ a.x \in Int /\ a.y \in Int
  BY PointsAssumption
<1>2. ux \in Int /\ uy \in Int /\ vx \in Int /\ vy \in Int
  BY <1>1
<1>3. q.x - a.x = ux - vx /\ q.y - a.y = uy - vy
  BY <1>1
<1>4. p.x - a.x = -vx /\ p.y - a.y = -vy /\ p.x - q.x = -ux /\ p.y - q.y = -uy
  BY <1>1
<1>5. p # q => ux # 0 \/ uy # 0
  BY <1>1, PointsAssumption
<1>6. SquaredDistance(q, a) = (ux - vx) * (ux - vx) + (uy - vy) * (uy - vy)
  BY <1>3 DEF SquaredDistance, Dot, Minus
<1>7. SquaredDistance(p, a) = (-vx) * (-vx) + (-vy) * (-vy)
  BY <1>4 DEF SquaredDistance, Dot, Minus
<1>8. p # q /\ ~(vx * ux + vy * uy < (-ux) * (-ux) + (-uy) * (-uy))
  BY <1>4 DEF Overshot, SquaredDistance, Dot, Minus
<1> HIDE DEF ux, uy, vx, vy
<1>9. /\ (ux - vx) * (ux - vx) = ux * ux - 2 * (vx * ux) + vx * vx
      /\ (uy - vy) * (uy - vy) = uy * uy - 2 * (vy * uy) + vy * vy
      /\ (-vx) * (-vx) = vx * vx /\ (-vy) * (-vy) = vy * vy
      /\ (-ux) * (-ux) = ux * ux /\ (-uy) * (-uy) = uy * uy
  BY <1>2
<1>10. /\ ux * ux \in Nat /\ uy * uy \in Nat /\ vx * vx \in Nat /\ vy * vy \in Nat
       /\ vx * ux \in Int /\ vy * uy \in Int
  BY <1>2
<1>11. ux * ux + uy * uy > 0
  <2>1. ux # 0 => ux * ux > 0
    BY <1>2
  <2>2. uy # 0 => uy * uy > 0
    BY <1>2
  <2> QED
    BY <1>5, <1>8, <1>10, <2>1, <2>2
<1> QED
  BY <1>6, <1>7, <1>8, <1>9, <1>10, <1>11

LEMMA WithinItself ==
  ASSUME NEW p \in Points
  PROVE  Within(p, p, StopDistance)
<1>1. p.x \in Int /\ p.y \in Int
  BY PointsAssumption
<1>2. SquaredDistance(p, p) = 0
  BY <1>1 DEF SquaredDistance, Dot, Minus
<1>3. StopDistance * StopDistance > 0
  BY ParamsAssumption
<1> QED
  BY <1>2, <1>3 DEF Within

-----------------------------------------------------------------------------
(* Times *)

LEMMA TimesNat == \A t \in Times : t \in Nat
BY TimesAssumption

LEMMA DivExact ==
  ASSUME NEW q \in Int, NEW n \in Nat \ {0}
  PROVE  (q * n) \div n = q
OBVIOUS

\* The times along a path are evenly spaced from its start to its end.
LEMMA PathTimes ==
  ASSUME NEW c \in CallType, c.start.time <= c.end.time, c.steps > 0
  PROVE  \E q \in Nat :
           /\ c.start.time + q * c.steps = c.end.time
           /\ \A k \in 0 .. c.steps : PathTime(c, k) = c.start.time + q * k
<1> DEFINE from == c.start.time
           to == c.end.time
           n == c.steps
<1>1. n \in 1 .. MaxOutputs /\ n \in Nat \ {0}
  BY ParamsAssumption DEF CallType
<1>2. from \in Times /\ to \in Times /\ from \in Nat /\ to \in Nat /\ from <= to
  BY TimesNat DEF CallType, Inputs
<1>3. from % n = 0 /\ to % n = 0
  BY <1>1, <1>2, TimesAssumption
<1>4. \A k : PathTime(c, k) = from + ((to - from) * k) \div n
  BY DEF PathTime
<1> HIDE DEF from, to, n
<1> DEFINE f == from \div n
           t == to \div n
<1>5. f \in Int /\ t \in Int /\ from = n * f /\ to = n * t
  BY <1>1, <1>2, <1>3
<1> HIDE DEF f, t
<1> DEFINE q == t - f
<1>6. q \in Int /\ to - from = q * n
  BY <1>1, <1>5
<1>7. q \in Nat
  <2>1. SUFFICES ASSUME q < 0 PROVE FALSE
    BY <1>6
  <2>2. q * n < 0
    BY <1>1, <1>6, <2>1
  <2> QED
    BY <1>2, <1>6, <2>2
<1> HIDE DEF q
<1>8. ASSUME NEW k \in 0 .. n
      PROVE  PathTime(c, k) = from + q * k
  <2>1. (to - from) * k = (q * k) * n
    BY <1>1, <1>6
  <2>2. q * k \in Int
    BY <1>1, <1>6
  <2> QED
    BY <1>1, <1>4, <2>1, <2>2, DivExact
<1>9. from + q * n = to
  BY <1>2, <1>6
<1> QED
  BY <1>7, <1>8, <1>9 DEF from, to, n

\* There are no fewer steps than ticks, so time never passes without a step.
LEMMA CeilOfTime ==
  ASSUME NEW d \in Nat
  PROVE  /\ (d + Tick - 1) \div Tick \in Nat
         /\ d > 0 => (d + Tick - 1) \div Tick > 0
<1> DEFINE x == (d + Tick - 1) \div Tick
<1>1. Tick \in Nat \ {0}
  BY ParamsAssumption
<1>2. x \in Int /\ d + Tick - 1 < (x + 1) * Tick
  BY <1>1
<1> HIDE DEF x
<1>3. x >= 0
  <2>1. SUFFICES ASSUME x + 1 <= 0 PROVE FALSE
    BY <1>2
  <2>2. (x + 1) * Tick <= 0
    BY <1>1, <1>2, <2>1
  <2> QED
    BY <1>1, <1>2, <2>2
<1>4. d > 0 => x > 0
  <2>1. SUFFICES ASSUME d > 0, x = 0 PROVE FALSE
    BY <1>2, <1>3
  <2> QED
    BY <1>1, <1>2, <2>1
<1> QED
  BY <1>2, <1>3, <1>4 DEF x

\* Tick halved again and again.
Halved ==
  CHOOSE half \in [0 .. MaxIterations -> 1 .. Tick] :
    half[0] = Tick /\ \A k \in 1 .. MaxIterations : half[k - 1] = 2 * half[k]

LEMMA HalvedType ==
  /\ Halved \in [0 .. MaxIterations -> 1 .. Tick]
  /\ Halved[0] = Tick
  /\ \A k \in 1 .. MaxIterations : Halved[k - 1] = 2 * Halved[k]
BY HalvesAssumption DEF Halved

\* As long as there are iterations left, half of a step is a step.
LEMMA HalfStep ==
  ASSUME NEW j \in Nat, j < MaxIterations
  PROVE  /\ j \in 0 .. MaxIterations /\ j + 1 \in 0 .. MaxIterations
         /\ Halved[j] \div 2 = Halved[j + 1]
<1>1. j \in 0 .. MaxIterations /\ j + 1 \in 1 .. MaxIterations
  BY ParamsAssumption
<1>2. Halved[j] = 2 * Halved[j + 1]
  BY <1>1, HalvedType
<1>3. Halved[j + 1] \in Nat
  BY <1>1, HalvedType, ParamsAssumption
<1> QED
  BY <1>1, <1>2, <1>3

-----------------------------------------------------------------------------
(* The inductive invariant *)

Resting(t, last) == last # NoStroke => t.time = last.time

SavedInv == saved # NoSave => Resting(saved.tip, saved.lastInput)

\* A call works on the stroke of the facade, and a path over some time has steps.
CallInv ==
  call # NoCall =>
    /\ lastInput # NoStroke /\ call.start = lastInput
    /\ call.start.time <= call.end.time
    /\ call.start.time < call.end.time => call.steps > 0
    /\ call.event = "predict" <=> call.copy # NoCopy
    /\ call.event = "predict" => call.loop = "end" /\ Resting(tip, lastInput)
    /\ call.event = "move" => call.loop = "path"

\* On a path the tip is at the time of the last iteration, and there is one
\* output for each.
PathInv ==
  call # NoCall /\ call.loop = "path" =>
    /\ call.i \in 1 .. call.steps + 1 /\ call.delta = Tick
    /\ tip.time = IF call.i = 1 THEN call.start.time ELSE PathTime(call, call.i - 1)
    /\ Len(outputs) = call.i - 1
    /\ \A k \in 1 .. Len(outputs) : outputs[k].time = PathTime(call, k)

\* At the end of a stroke the current state is never behind an output or the
\* input it goes to, and the step is still positive.
EndInv ==
  call # NoCall /\ call.loop = "end" =>
    /\ call.i \in 0 .. MaxIterations
    /\ \E j \in 0 .. call.i : call.delta = Halved[j]
    /\ call.end.time <= Current.time
    /\ Len(outputs) <= call.steps + call.i
    /\ \A k \in 1 .. Len(outputs) : outputs[k].time <= Current.time

\* So far the outputs of the call advance.
AdvanceInv == call # NoCall => \A k \in 1 .. Len(outputs) : AdvancesAt(call, outputs, k)

IInv ==
  TypeOK /\ SavedInv /\ TipAtLastInput /\ CallInv /\ PathInv /\ EndInv /\ AdvanceInv

LEMMA InputsAreTipStates == \A in \in Inputs : in \in TipStates /\ in.time \in Nat
BY TimesNat DEF Inputs, TipStates

LEMMA InitIInv == Init => IInv
<1> SUFFICES ASSUME Init PROVE IInv
  OBVIOUS
<1>1. outputs = <<>> /\ Len(<<>>) = 0 /\ <<>> \in Seq(TipStates) /\ DOMAIN <<>> = {}
  BY EmptySeq DEF Init
<1>2. MaxOutputs + MaxIterations >= 0
  BY ParamsAssumption
<1>3. TypeOK
  BY <1>1, <1>2 DEF Init, TypeOK, TipStates
<1>4. AdvanceInv
  BY <1>1 DEF Init, AdvanceInv
<1> QED
  BY <1>3, <1>4 DEF Init, IInv, SavedInv, TipAtLastInput, CallInv, PathInv, EndInv

LEMMA DownIInv ==
  ASSUME IInv, NEW in \in Inputs, Down(in)
  PROVE  IInv'
<1>1. <<in>> \in Seq(TipStates) /\ Len(<<in>>) = 1
  BY InputsAreTipStates
<1>2. MaxOutputs + MaxIterations >= 1
  BY ParamsAssumption
<1>3. TypeOK'
  BY <1>1, <1>2, InputsAreTipStates DEF Down, TypeOK, IInv
<1>4. AdvanceInv'
  BY <1>1 DEF Down, AdvanceInv
<1> QED
  BY <1>3, <1>4 DEF Down, IInv, SavedInv, TipAtLastInput, CallInv, PathInv, EndInv

LEMMA StartPathIInv ==
  ASSUME IInv, NEW event \in {"move", "up"}, NEW in \in Inputs, StartPath(event, in)
  PROVE  IInv'
<1>1. PICK n \in StepCounts(lastInput, in) :
        call' = [event |-> event, loop |-> "path", start |-> lastInput,
                 end |-> in, steps |-> n, i |-> 1, delta |-> Tick,
                 copy |-> NoCopy]
  BY DEF StartPath
<1>2. /\ lastInput \in Inputs /\ lastInput # NoStroke /\ lastInput.time <= in.time
      /\ lastInput.time \in Nat /\ in.time \in Nat
      /\ tip.time = lastInput.time
      /\ tip' = tip /\ lastInput' = lastInput /\ saved' = saved
      /\ outputs' = <<>> /\ Len(<<>>) = 0 /\ <<>> \in Seq(TipStates)
  BY InputsAreTipStates, EmptySeq DEF StartPath, IInv, TypeOK, TipAtLastInput
<1>3. n \in 0 .. MaxOutputs /\ (lastInput.time < in.time => n > 0)
  <2> DEFINE d == in.time - lastInput.time
  <2>1. d \in Nat /\ (lastInput.time < in.time => d > 0)
    BY <1>2
  <2>2. n \in (d + Tick - 1) \div Tick .. MaxOutputs
    BY DEF StepCounts
  <2> HIDE DEF d
  <2> QED
    BY <2>1, <2>2, CeilOfTime, ParamsAssumption
<1>4. Tick \in Nat /\ MaxIterations \in Nat \ {0}
  BY ParamsAssumption
<1>5. call' \in CallType /\ call' # NoCall
  BY <1>1, <1>2, <1>3, <1>4, NamesAssumption DEF CallType
<1>6. TypeOK'
  BY <1>1, <1>2, <1>3, <1>4, <1>5 DEF TypeOK, IInv
<1>7. AdvanceInv'
  BY <1>2 DEF AdvanceInv
<1>8. CallInv' /\ PathInv' /\ EndInv'
  BY <1>1, <1>2, <1>3 DEF CallInv, PathInv, EndInv
<1>9. SavedInv' /\ TipAtLastInput'
  BY <1>2, <1>5 DEF IInv, SavedInv, TipAtLastInput
<1> QED
  BY <1>6, <1>7, <1>8, <1>9 DEF IInv

LEMMA CallKnown ==
  ASSUME TypeOK, call # NoCall
  PROVE  /\ call \in CallType /\ call.steps \in 0 .. MaxOutputs
         /\ call.start \in Inputs /\ call.end \in Inputs
         /\ call.start.time \in Nat /\ call.end.time \in Nat
         /\ call.steps \in Nat /\ call.i \in Nat /\ call.delta \in Nat
         /\ outputs \in Seq(TipStates) /\ Len(outputs) \in Nat
         /\ \A k \in 1 .. Len(outputs) :
              outputs[k] \in TipStates /\ outputs[k].time \in Nat
<1>1. call \in CallType /\ outputs \in Seq(TipStates)
  BY DEF TypeOK
<1>2. \A k \in 1 .. Len(outputs) : outputs[k] \in TipStates
  BY <1>1, ElementOfSeq
<1> QED
  BY <1>1, <1>2, InputsAreTipStates, LenProperties, ParamsAssumption DEF CallType, TipStates

LEMMA PathStepIInv ==
  ASSUME IInv, NEW position \in Points, PathStep(position)
  PROVE  IInv'
<1> DEFINE state == [position |-> position, time |-> PathTime(call, call.i)]
           n == Len(outputs)
<1>1. /\ call # NoCall /\ call.loop = "path" /\ call.i <= call.steps
      /\ tip' = state /\ outputs' = Append(outputs, state)
      /\ call' = [call EXCEPT !.i = @ + 1]
      /\ saved' = saved /\ lastInput' = lastInput
  BY DEF PathStep
<1>2. /\ call \in CallType /\ call.steps \in Nat /\ call.i \in Nat
      /\ call.start.time \in Nat /\ outputs \in Seq(TipStates) /\ n \in Nat
  BY <1>1, CallKnown DEF IInv
<1>3. /\ call.i \in 1 .. call.steps + 1 /\ n = call.i - 1 /\ call.steps > 0
      /\ \A k \in 1 .. n : outputs[k].time = PathTime(call, k)
  BY <1>1, <1>2 DEF IInv, PathInv
<1>4. PICK q \in Nat :
        /\ call.start.time + q * call.steps = call.end.time
        /\ \A k \in 0 .. call.steps : PathTime(call, k) = call.start.time + q * k
  BY <1>1, <1>2, <1>3, PathTimes DEF IInv, CallInv
<1>5. PathTime(call, call.i) = call.start.time + q * call.i /\ state \in TipStates
  <2>1. call.i \in 0 .. call.steps
    BY <1>1, <1>2
  <2>2. PathTime(call, call.i) = call.start.time + q * call.i
    BY <1>4, <2>1
  <2>3. PathTime(call, call.i) \in Nat
    BY <1>2, <2>2
  <2> QED
    BY <2>2, <2>3 DEF TipStates
<1> HIDE DEF state, n
<1>6. /\ outputs' \in Seq(TipStates) /\ Len(outputs') = n + 1
      /\ \A k \in 1 .. n : outputs'[k] = outputs[k]
      /\ outputs'[n + 1] = state
  BY <1>1, <1>2, <1>5, AppendProperties DEF n
<1>7. call' \in CallType /\ call' # NoCall
  BY <1>1, <1>2, NamesAssumption DEF CallType
<1>8. /\ call'.loop = "path" /\ call'.i = call.i + 1 /\ call'.delta = call.delta
      /\ call'.steps = call.steps /\ call'.start = call.start /\ call'.end = call.end
      /\ call'.event = call.event /\ call'.copy = call.copy
  BY <1>1, <1>2 DEF CallType
<1>9. \A k : PathTime(call', k) = PathTime(call, k)
  BY <1>8 DEF PathTime
<1>10. \A k \in 1 .. n + 1 : outputs'[k].time = PathTime(call, k)
  <2>1. state.time = PathTime(call, call.i)
    BY DEF state
  <2> SUFFICES ASSUME NEW k \in 1 .. n + 1 PROVE outputs'[k].time = PathTime(call, k)
    OBVIOUS
  <2>2. CASE k = n + 1
    BY <1>2, <1>3, <1>6, <2>1, <2>2
  <2>3. CASE k \in 1 .. n
    BY <1>3, <1>6, <2>3
  <2> QED
    BY <1>2, <2>2, <2>3
<1>11. TypeOK'
  <2>1. MaxIterations \in Nat
    BY ParamsAssumption
  <2>2. /\ saved # NoSave =>
             saved.tip \in TipStates /\ saved.lastInput \in Inputs \cup {NoStroke}
        /\ lastInput \in Inputs \cup {NoStroke}
    BY DEF IInv, TypeOK
  <2>3. call'.i <= call'.steps + 1 /\ Len(outputs') <= call'.steps + MaxIterations
    BY <1>1, <1>2, <1>3, <1>6, <1>8, <2>1
  <2> QED
    BY <1>1, <1>5, <1>6, <1>7, <1>8, <2>2, <2>3 DEF TypeOK
<1>12. PathInv'
  <2>0. call.delta = Tick
    BY <1>1 DEF IInv, PathInv
  <2>1. call'.i \in 1 .. call'.steps + 1 /\ call'.delta = Tick
    BY <1>1, <1>2, <1>3, <1>8, <2>0
  <2>2. tip'.time = PathTime(call', call'.i - 1) /\ call'.i # 1
    <3>1. call'.i - 1 = call.i /\ call'.i # 1
      BY <1>2, <1>3, <1>8
    <3>2. tip'.time = PathTime(call, call.i)
      BY <1>1 DEF state
    <3> QED
      BY <1>9, <3>1, <3>2
  <2>3. Len(outputs') = call'.i - 1
    BY <1>2, <1>3, <1>6, <1>8
  <2> QED
    BY <1>6, <1>9, <1>10, <2>1, <2>2, <2>3 DEF PathInv
<1>13. CallInv' /\ EndInv'
  BY <1>1, <1>8 DEF IInv, CallInv, EndInv
<1>14. SavedInv' /\ TipAtLastInput'
  BY <1>1, <1>7 DEF IInv, SavedInv, TipAtLastInput
<1>15. AdvanceInv'
  <2>1. ASSUME NEW k \in 1 .. n + 1
        PROVE  AdvancesAt(call', outputs', k)
    <3>1. n + 1 <= call.steps
      BY <1>1, <1>2, <1>3
    <3>2. k \in 0 .. call.steps /\ k \in Int /\ k >= 1 /\ k <= call.steps
      BY <1>2, <3>1
    <3>3. outputs'[k].time = call.start.time + q * k
      BY <1>4, <1>10, <3>2
    <3>4. CASE q = 0
      <4>1. outputs'[k].time = call.start.time /\ call.start.time = call.end.time
        BY <1>2, <1>4, <3>2, <3>3, <3>4
      <4> QED
        BY <1>8, <3>2, <4>1 DEF AdvancesAt
    <3>5. CASE q > 0 /\ k = 1
      <4>1. call.start.time < outputs'[k].time
        BY <1>2, <3>3, <3>5
      <4> QED
        BY <1>8, <3>5, <4>1 DEF AdvancesAt
    <3>6. CASE q > 0 /\ k # 1
      <4>1. k - 1 \in 1 .. n + 1 /\ k - 1 \in 0 .. call.steps
        BY <1>2, <3>2, <3>6
      <4>2. outputs'[k - 1].time = call.start.time + q * (k - 1)
        BY <1>4, <1>10, <4>1
      <4>3. q * k = q * (k - 1) + q /\ q * (k - 1) \in Nat
        BY <4>1
      <4>4. outputs'[k - 1].time < outputs'[k].time
        BY <1>2, <3>3, <3>6, <4>2, <4>3
      <4> QED
        BY <3>6, <4>4 DEF AdvancesAt
    <3> QED
      BY <3>4, <3>5, <3>6
  <2> QED
    BY <1>6, <2>1 DEF AdvanceInv
<1> QED
  BY <1>11, <1>12, <1>13, <1>14, <1>15 DEF IInv

LEMMA PathDoneIInv ==
  ASSUME IInv, PathDone
  PROVE  IInv'
<1>1. /\ call # NoCall /\ call.loop = "path" /\ call.i > call.steps
      /\ tip' = tip /\ saved' = saved /\ outputs' = outputs
  BY DEF PathDone
<1>2. /\ call \in CallType /\ call.steps \in 0 .. MaxOutputs /\ call.i \in Nat
      /\ call.start \in Inputs /\ call.end \in Inputs
      /\ call.start.time \in Nat /\ call.end.time \in Nat
      /\ outputs \in Seq(TipStates) /\ Len(outputs) \in Nat
  BY <1>1, CallKnown DEF IInv
<1>3. call.i = call.steps + 1 /\ Len(outputs) = call.steps
  BY <1>1, <1>2 DEF IInv, PathInv
<1>4. /\ tip.time = call.end.time
      /\ \A k \in 1 .. call.steps : outputs[k].time <= tip.time
  <2>1. CASE call.steps = 0
    <3>1. tip.time = call.start.time
      BY <1>1, <1>3, <2>1 DEF IInv, PathInv
    <3>2. call.start.time = call.end.time
      BY <1>1, <1>2, <2>1 DEF IInv, CallInv
    <3> QED
      BY <2>1, <3>1, <3>2
  <2>2. CASE call.steps > 0
    <3>1. PICK q \in Nat :
            /\ call.start.time + q * call.steps = call.end.time
            /\ \A k \in 0 .. call.steps : PathTime(call, k) = call.start.time + q * k
      BY <1>1, <1>2, <2>2, PathTimes DEF IInv, CallInv
    <3>2. tip.time = PathTime(call, call.steps)
      BY <1>1, <1>2, <1>3, <2>2 DEF IInv, PathInv
    <3>3. call.steps \in 0 .. call.steps
      BY <1>2
    <3>4. tip.time = call.end.time
      BY <3>1, <3>2, <3>3
    <3>5. ASSUME NEW k \in 1 .. call.steps
          PROVE  outputs[k].time <= tip.time
      <4>1. outputs[k].time = PathTime(call, k)
        BY <1>1, <1>3 DEF IInv, PathInv
      <4>2. outputs[k].time = call.start.time + q * k
        BY <1>2, <3>1, <4>1
      <4>3. q * k <= q * call.steps
        BY <1>2
      <4> QED
        BY <1>2, <3>1, <3>4, <4>2, <4>3
    <3> QED
      BY <3>4, <3>5
  <2> QED
    BY <1>2, <2>1, <2>2
<1>5. AdvanceInv'
  <2>1. CASE call' = NoCall
    BY <1>1, <2>1 DEF IInv, AdvanceInv
  <2>2. CASE call' = [call EXCEPT !.loop = "end", !.i = 0]
    <3>1. call'.start = call.start /\ call'.end = call.end /\ call'.steps = call.steps
      BY <1>2, <2>2 DEF CallType
    <3> QED
      BY <1>1, <3>1 DEF IInv, AdvanceInv, AdvancesAt
  <2> QED
    BY <2>1, <2>2 DEF PathDone
<1>6. MaxIterations \in Nat
  BY ParamsAssumption
<1>7. CASE call.event = "move"
  <2>1. call' = NoCall /\ lastInput' = call.end
    BY <1>7 DEF PathDone
  <2>2. TypeOK'
    <3>1. Len(outputs) <= MaxOutputs + MaxIterations
      BY <1>2, <1>3, <1>6, ParamsAssumption
    <3>2. /\ tip \in TipStates /\ outputs \in Seq(TipStates)
          /\ saved # NoSave =>
               saved.tip \in TipStates /\ saved.lastInput \in Inputs \cup {NoStroke}
      BY DEF IInv, TypeOK
    <3> QED
      BY <1>1, <1>2, <2>1, <3>1, <3>2 DEF TypeOK
  <2> QED
    BY <1>1, <1>4, <1>5, <2>1, <2>2
       DEF IInv, SavedInv, TipAtLastInput, CallInv, PathInv, EndInv
<1>8. CASE call.event = "up"
  <2>1. call' = [call EXCEPT !.loop = "end", !.i = 0] /\ lastInput' = lastInput
    BY <1>8 DEF PathDone
  <2>2. /\ call'.loop = "end" /\ call'.i = 0 /\ call'.delta = call.delta
        /\ call'.steps = call.steps /\ call'.start = call.start /\ call'.end = call.end
        /\ call'.event = "up" /\ call'.copy = call.copy
    BY <1>2, <1>8, <2>1 DEF CallType
  <2>3. call' \in CallType /\ call' # NoCall
    <3>1. call' \in CallType
      BY <1>2, <2>1 DEF CallType
    <3> QED
      BY <3>1, NamesAssumption
  <2>4. TypeOK'
    BY <1>1, <1>2, <1>3, <1>6, <2>1, <2>2, <2>3 DEF IInv, TypeOK
  <2>5. CallInv' /\ PathInv'
    BY <1>1, <1>8, <2>1, <2>2 DEF IInv, CallInv, PathInv
  <2>6. Current' = tip
    BY <1>1, <1>8, <2>2 DEF IInv, CallInv, Current
  <2>7. call'.delta = Halved[0] /\ 0 \in 0 .. call'.i /\ call'.i \in 0 .. MaxIterations
    BY <1>1, <1>6, <2>2, HalvedType DEF IInv, PathInv
  <2>8. call'.end.time <= Current'.time
    BY <1>2, <1>4, <2>2, <2>6
  <2>9. /\ Len(outputs') <= call'.steps + call'.i
        /\ \A k \in 1 .. Len(outputs') : outputs'[k].time <= Current'.time
    BY <1>1, <1>2, <1>3, <1>4, <2>2, <2>6
  <2>10. EndInv'
    BY <2>7, <2>8, <2>9 DEF EndInv
  <2>11. SavedInv' /\ TipAtLastInput'
    BY <1>1, <2>1, <2>3 DEF IInv, SavedInv, TipAtLastInput
  <2> QED
    BY <1>5, <2>4, <2>5, <2>10, <2>11 DEF IInv
<1> QED
  BY <1>7, <1>8 DEF PathDone

LEMMA PredictIInv ==
  ASSUME IInv, Predict
  PROVE  IInv'
<1>1. /\ call = NoCall /\ lastInput # NoStroke
      /\ call' = [event |-> "predict", loop |-> "end", start |-> lastInput,
                  end |-> lastInput, steps |-> 0, i |-> 0, delta |-> Tick, copy |-> tip]
      /\ outputs' = <<>>
      /\ tip' = tip /\ saved' = saved /\ lastInput' = lastInput
  BY DEF Predict
<1>2. /\ lastInput \in Inputs /\ lastInput.time \in Nat
      /\ tip \in TipStates /\ tip # NoCopy /\ tip.time = lastInput.time
  BY <1>1, InputsAreTipStates, NamesAssumption DEF IInv, TypeOK, TipAtLastInput
<1>3. Len(<<>>) = 0 /\ <<>> \in Seq(TipStates) /\ DOMAIN <<>> = {}
  BY EmptySeq
<1>4. Tick \in Nat /\ MaxIterations \in Nat /\ MaxOutputs \in Nat
  BY ParamsAssumption
<1>5. call' \in CallType /\ call' # NoCall
  <2>1. call' \in CallType
    BY <1>1, <1>2, <1>4 DEF CallType
  <2> QED
    BY <2>1, NamesAssumption
<1>6. TypeOK'
  <2>1. saved # NoSave =>
          saved.tip \in TipStates /\ saved.lastInput \in Inputs \cup {NoStroke}
    BY DEF IInv, TypeOK
  <2> QED
    BY <1>1, <1>2, <1>3, <1>4, <1>5, <2>1 DEF TypeOK
<1>7. AdvanceInv'
  BY <1>1, <1>3 DEF AdvanceInv
<1>8. CallInv' /\ PathInv'
  BY <1>1, <1>2 DEF CallInv, PathInv, Resting
<1>9. EndInv'
  <2>1. Current' = tip
    BY <1>1, <1>2 DEF Current
  <2>2. call'.delta = Halved[0] /\ call'.i = 0 /\ call'.steps = 0
        /\ call'.end = lastInput
    BY <1>1, HalvedType
  <2> QED
    BY <1>1, <1>2, <1>3, <1>4, <2>1, <2>2 DEF EndInv
<1>10. SavedInv' /\ TipAtLastInput'
  BY <1>1, <1>5 DEF IInv, SavedInv, TipAtLastInput
<1> QED
  BY <1>6, <1>7, <1>8, <1>9, <1>10 DEF IInv

\* What is known when an iteration of the end of a stroke begins.
LEMMA EndKnown ==
  ASSUME IInv, call # NoCall, call.loop = "end"
  PROVE  /\ call \in CallType /\ call.steps \in 0 .. MaxOutputs
         /\ call.start \in Inputs /\ call.end \in Inputs
         /\ call.start.time \in Nat /\ call.end.time \in Nat
         /\ call.start.time <= call.end.time /\ call.end.time <= Current.time
         /\ call.i \in 0 .. MaxIterations /\ call.delta \in Nat /\ call.delta > 0
         /\ Current \in TipStates /\ Current.time \in Nat
         /\ outputs \in Seq(TipStates)
         /\ \/ call.event = "up" /\ call.copy = NoCopy /\ Current = tip
            \/ call.event = "predict" /\ call.copy \in TipStates
                 /\ Current = call.copy /\ call.copy # NoCopy
<1>1. /\ call \in CallType /\ call.steps \in 0 .. MaxOutputs
      /\ call.start \in Inputs /\ call.end \in Inputs
      /\ call.start.time \in Nat /\ call.end.time \in Nat
      /\ outputs \in Seq(TipStates) /\ tip \in TipStates /\ call.delta \in Nat
  BY CallKnown DEF IInv, TypeOK
<1>2. PICK j \in 0 .. call.i : call.delta = Halved[j]
  BY DEF IInv, EndInv
<1>3. call.i \in 0 .. MaxIterations
  BY DEF IInv, EndInv
<1>4. call.delta > 0
  <2>1. j \in 0 .. MaxIterations
    BY <1>3, ParamsAssumption
  <2>2. Halved[j] \in 1 .. Tick /\ Tick \in Nat
    BY <2>1, HalvedType, ParamsAssumption
  <2>3. Halved[j] > 0
    BY <2>2
  <2> QED
    BY <1>2, <2>3
<1>5. \/ call.event = "up" /\ call.copy = NoCopy /\ Current = tip
      \/ call.event = "predict" /\ call.copy \in TipStates
           /\ Current = call.copy /\ call.copy # NoCopy
  <2>1. call.event \in {"up", "predict"} /\ call.copy \in TipStates \cup {NoCopy}
    BY <1>1 DEF IInv, CallInv, CallType
  <2>2. call.event = "predict" <=> call.copy # NoCopy
    BY DEF IInv, CallInv
  <2> QED
    BY <2>1, <2>2 DEF Current
<1>6. Current \in TipStates /\ Current.time \in Nat
  BY <1>1, <1>5 DEF TipStates
<1>7. call.start.time <= call.end.time /\ call.end.time <= Current.time
  BY DEF IInv, CallInv, EndInv
<1> QED
  BY <1>1, <1>3, <1>4, <1>5, <1>6, <1>7

\* Any state a call may end with, and outputs that fit in, end it well.
LEMMA FinishIInv ==
  ASSUME IInv, call # NoCall, call.loop = "end", saved' = saved,
         NEW current \in TipStates, NEW given \in Seq(TipStates), Finish(current, given),
         Len(given) <= MaxOutputs + MaxIterations
  PROVE  IInv'
<1>1. call' = NoCall
  BY DEF Finish
<1>2. \/ /\ call.event = "up" /\ tip' = current /\ lastInput' = NoStroke
         /\ outputs' = IF given = <<>> THEN <<current>> ELSE given
      \/ /\ call.event = "predict" /\ outputs' = given
         /\ tip' = tip /\ lastInput' = lastInput
  BY DEF Finish
<1>3. tip' \in TipStates /\ lastInput' \in Inputs \cup {NoStroke}
  BY <1>2 DEF IInv, TypeOK
<1>4. <<current>> \in Seq(TipStates) /\ Len(<<current>>) = 1
  OBVIOUS
<1>5. /\ outputs' \in Seq(TipStates)
      /\ Len(outputs') <= MaxOutputs + MaxIterations
  <2>1. CASE outputs' = given
    BY <2>1
  <2>2. CASE outputs' = <<current>>
    <3>1. Len(outputs') = 1 /\ outputs' \in Seq(TipStates)
      BY <1>4, <2>2
    <3>2. 1 <= MaxOutputs + MaxIterations
      BY ParamsAssumption
    <3> QED
      BY <3>1, <3>2
  <2> QED
    BY <1>2, <2>1, <2>2
<1>6. TypeOK'
  <2>1. saved # NoSave =>
          saved.tip \in TipStates /\ saved.lastInput \in Inputs \cup {NoStroke}
    BY DEF IInv, TypeOK
  <2> QED
    BY <1>1, <1>3, <1>5, <2>1 DEF TypeOK
<1>7. TipAtLastInput'
  <2>1. call.event = "predict" => Resting(tip, lastInput)
    BY DEF IInv, CallInv
  <2> QED
    BY <1>2, <2>1 DEF TipAtLastInput, Resting
<1>8. AdvanceInv'
  BY <1>1 DEF AdvanceInv
<1>9. SavedInv' /\ CallInv' /\ PathInv' /\ EndInv'
  BY <1>1 DEF IInv, SavedInv, CallInv, PathInv, EndInv
<1> QED
  BY <1>6, <1>7, <1>8, <1>9 DEF IInv

LEMMA CandidateFollows ==
  ASSUME IInv, call # NoCall, call.loop = "end", NEW position \in Points
  PROVE  LET candidate == [position |-> position, time |-> Current.time + call.delta]
             given == Append(outputs, candidate)
         IN  /\ candidate \in TipStates /\ candidate.time > call.end.time
             /\ given \in Seq(TipStates) /\ Len(given) = Len(outputs) + 1
             /\ \A k \in 1 .. Len(given) : given[k].time <= candidate.time
             /\ \A k \in 1 .. Len(given) : AdvancesAt(call, given, k)
<1> DEFINE candidate == [position |-> position, time |-> Current.time + call.delta]
           given == Append(outputs, candidate)
           n == Len(outputs)
<1>1. /\ call.start.time \in Nat /\ call.delta \in Nat /\ call.delta > 0
      /\ call.end.time \in Nat
      /\ call.start.time <= call.end.time /\ call.end.time <= Current.time
      /\ Current.time \in Nat /\ outputs \in Seq(TipStates)
  BY EndKnown
<1>2. /\ \A k \in 1 .. n : outputs[k].time <= Current.time
      /\ \A k \in 1 .. n : AdvancesAt(call, outputs, k)
  BY DEF IInv, EndInv, AdvanceInv
<1>3. n \in Nat /\ \A k \in 1 .. n : outputs[k] \in TipStates /\ outputs[k].time \in Nat
  BY CallKnown, LenProperties DEF IInv
<1>4. candidate \in TipStates /\ candidate.time > call.end.time
      /\ candidate.time > call.start.time
      /\ candidate.time > Current.time /\ candidate.time \in Nat
  BY <1>1 DEF TipStates
<1> HIDE DEF candidate
<1>5. /\ given \in Seq(TipStates) /\ Len(given) = n + 1
      /\ \A k \in 1 .. n : given[k] = outputs[k]
      /\ given[n + 1] = candidate
  BY <1>1, <1>4, AppendProperties
<1> HIDE DEF given, n
<1>6. \A k \in 1 .. n + 1 : k \in 1 .. n \/ k = n + 1
  BY <1>3
<1>7. \A k \in 1 .. n + 1 : given[k].time <= candidate.time
  BY <1>1, <1>2, <1>3, <1>4, <1>5, <1>6
<1>8. ASSUME NEW k \in 1 .. n + 1
      PROVE  AdvancesAt(call, given, k)
  <2>1. k # 1 => k - 1 \in 1 .. n
    BY <1>3
  <2>2. CASE k \in 1 .. n
    <3>1. AdvancesAt(call, outputs, k) /\ given[k] = outputs[k]
      BY <1>2, <1>5, <2>2
    <3>2. k # 1 => given[k - 1] = outputs[k - 1]
      BY <1>5, <2>1
    <3> QED
      BY <3>1, <3>2 DEF AdvancesAt
  <2>3. CASE k = n + 1
    <3>1. given[k].time = candidate.time
      BY <1>5, <2>3
    <3>2. k # 1 => given[k - 1].time < candidate.time
      BY <1>1, <1>2, <1>3, <1>4, <1>5, <2>1
    <3> QED
      BY <1>4, <3>1, <3>2 DEF AdvancesAt
  <2> QED
    BY <1>6, <2>2, <2>3
<1> QED
  BY <1>4, <1>5, <1>7, <1>8 DEF candidate, given, n

LEMMA EndOfStrokeIInv ==
  ASSUME IInv, EndOfStroke
  PROVE  IInv'
<1>1. call # NoCall /\ call.loop = "end" /\ saved' = saved
  BY DEF EndOfStroke, EndStep
<1>2. /\ call \in CallType /\ call.steps \in 0 .. MaxOutputs /\ call.steps \in Nat
      /\ call.i \in 0 .. MaxIterations /\ call.delta \in Nat
      /\ Current \in TipStates /\ Current.time \in Nat /\ outputs \in Seq(TipStates)
      /\ MaxIterations \in Nat /\ MaxOutputs \in Nat /\ Len(outputs) \in Nat
  BY <1>1, EndKnown, LenProperties, ParamsAssumption
<1>3. Len(outputs) <= call.steps + call.i
  BY <1>1 DEF IInv, EndInv
<1>4. PICK j \in 0 .. call.i : call.delta = Halved[j]
  BY <1>1 DEF IInv, EndInv
<1>5. saved # NoSave =>
        saved.tip \in TipStates /\ saved.lastInput \in Inputs \cup {NoStroke}
  BY DEF IInv, TypeOK
<1>6. ASSUME NEW current \in TipStates, Finish(current, outputs)
      PROVE  IInv'
  <2>1. Len(outputs) <= MaxOutputs + MaxIterations
    BY <1>2, <1>3
  <2> QED
    BY <1>1, <1>2, <1>3, <1>6, <2>1, FinishIInv
<1>7. ASSUME ~ IterationsLeft, Finish(Current, outputs)
      PROVE  IInv'
  BY <1>2, <1>6, <1>7
<1>8. ASSUME IterationsLeft, NEW position \in Points, EndStep(position)
      PROVE  IInv'
  <2> DEFINE candidate == [position |-> position, time |-> Current.time + call.delta]
             given == Append(outputs, candidate)
  <2>1. call.i \in 0 .. MaxIterations /\ call.i < MaxIterations
    BY <1>2, <1>8 DEF IterationsLeft
  <2>2. /\ candidate \in TipStates /\ candidate.time > call.end.time
        /\ given \in Seq(TipStates) /\ Len(given) = Len(outputs) + 1
        /\ \A k \in 1 .. Len(given) : given[k].time <= candidate.time
        /\ \A k \in 1 .. Len(given) : AdvancesAt(call, given, k)
    BY <1>1, CandidateFollows
  <2>3. \/ Finish(candidate, outputs) \/ Retry(candidate)
        \/ Finish(candidate, given) \/ Continue(candidate)
    BY <1>8 DEF EndStep
  <2> HIDE DEF candidate, given
  <2>4. CASE Finish(candidate, outputs)
    BY <1>6, <2>2, <2>4
  <2>5. CASE Finish(candidate, given)
    <3>1. Len(given) <= MaxOutputs + MaxIterations
      BY <1>2, <1>3, <2>1, <2>2
    <3> QED
      BY <1>1, <2>2, <2>5, <3>1, FinishIInv
  <2>6. CASE Retry(candidate)
    <3>1. /\ call' = [call EXCEPT !.i = @ + 1, !.delta = @ \div 2]
          /\ tip' = tip /\ lastInput' = lastInput /\ outputs' = outputs
      BY <2>6 DEF Retry
    <3>2. /\ call'.i = call.i + 1 /\ call'.delta = call.delta \div 2
          /\ call'.event = call.event /\ call'.loop = "end" /\ call'.start = call.start
          /\ call'.end = call.end /\ call'.steps = call.steps /\ call'.copy = call.copy
      BY <1>1, <1>2, <3>1 DEF CallType
    <3>3. call' \in CallType /\ call' # NoCall
      <4>1. call.i + 1 \in Nat /\ call.delta \div 2 \in Nat
        BY <1>2
      <4>2. call' \in CallType
        BY <1>2, <3>1, <4>1 DEF CallType
      <4> QED
        BY <4>2, NamesAssumption
    <3>4. Current' = Current
      BY <3>1, <3>2 DEF Current
    <3>5. TypeOK'
      <4>1. call'.i <= MaxIterations /\ Len(outputs) <= call'.steps + MaxIterations
        BY <1>2, <1>3, <2>1, <3>2
      <4> QED
        BY <1>1, <1>2, <1>5, <3>1, <3>2, <3>3, <4>1 DEF IInv, TypeOK
    <3>6. EndInv'
      <4>1. call'.delta = Halved[j + 1] /\ j + 1 \in 0 .. call'.i
        BY <1>2, <1>4, <2>1, <3>2, HalfStep
      <4>2. call'.i \in 0 .. MaxIterations /\ Len(outputs') <= call'.steps + call'.i
        BY <1>2, <1>3, <2>1, <3>1, <3>2
      <4> QED
        BY <1>1, <3>1, <3>2, <3>4, <4>1, <4>2 DEF IInv, EndInv
    <3>7. CallInv' /\ PathInv'
      BY <1>1, <3>1, <3>2 DEF IInv, CallInv, PathInv
    <3>8. AdvanceInv'
      BY <1>1, <3>1, <3>2 DEF IInv, AdvanceInv, AdvancesAt
    <3>9. SavedInv' /\ TipAtLastInput'
      BY <1>1, <3>3 DEF IInv, SavedInv, TipAtLastInput
    <3> QED
      BY <3>5, <3>6, <3>7, <3>8, <3>9 DEF IInv
  <2>7. CASE Continue(candidate)
    <3>1. /\ outputs' = given /\ lastInput' = lastInput
          /\ \/ call.event = "up" /\ tip' = candidate /\ call' = [call EXCEPT !.i = @ + 1]
             \/ call.event = "predict" /\ tip' = tip
                  /\ call' = [call EXCEPT !.i = @ + 1, !.copy = candidate]
      BY <2>7 DEF Continue, given
    <3>2. /\ call'.i = call.i + 1 /\ call'.delta = call.delta
          /\ call'.event = call.event /\ call'.loop = "end" /\ call'.start = call.start
          /\ call'.end = call.end /\ call'.steps = call.steps
      BY <1>1, <1>2, <3>1 DEF CallType
    <3>3. \/ call.event = "up" /\ call'.copy = NoCopy
          \/ call.event = "predict" /\ call'.copy = candidate /\ candidate # NoCopy
      <4>1. candidate # NoCopy
        BY <2>2, NamesAssumption
      <4>2. call.event = "up" => call.copy = NoCopy
        BY <1>1, EndKnown
      <4> QED
        BY <1>2, <3>1, <4>1, <4>2 DEF CallType
    <3>4. call' \in CallType /\ call' # NoCall
      <4>1. call.i + 1 \in Nat
        BY <1>2
      <4>2. call' \in CallType
        BY <1>2, <2>2, <3>1, <4>1 DEF CallType
      <4> QED
        BY <4>2, NamesAssumption
    <3>5. Current' = candidate /\ tip' \in TipStates
      BY <2>2, <3>1, <3>3 DEF Current, IInv, TypeOK
    <3>6. TypeOK'
      <4>1. call'.i <= MaxIterations /\ Len(outputs') <= call'.steps + MaxIterations
        BY <1>2, <1>3, <2>1, <2>2, <3>1, <3>2
      <4>2. lastInput \in Inputs \cup {NoStroke} /\ outputs' \in Seq(TipStates)
        BY <2>2, <3>1 DEF IInv, TypeOK
      <4> QED
        BY <1>1, <1>5, <3>1, <3>2, <3>4, <3>5, <4>1, <4>2 DEF TypeOK
    <3>7. EndInv'
      <4>1. j \in 0 .. call'.i /\ call'.delta = Halved[j]
        BY <1>2, <1>4, <3>2
      <4>2. call'.i \in 0 .. MaxIterations /\ Len(outputs') <= call'.steps + call'.i
        BY <1>2, <1>3, <2>1, <2>2, <3>1, <3>2
      <4>3. call'.end.time <= Current'.time
        <5>1. call.end.time \in Nat /\ candidate.time \in Nat
          BY <1>1, <2>2, EndKnown DEF TipStates
        <5> QED
          BY <2>2, <3>2, <3>5, <5>1
      <4> QED
        BY <2>2, <3>1, <3>5, <4>1, <4>2, <4>3 DEF EndInv
    <3>8. CallInv' /\ PathInv'
      <4>1. call.event = "predict" => Resting(tip', lastInput')
        BY <1>1, <3>1 DEF IInv, CallInv
      <4> QED
        BY <1>1, <3>1, <3>2, <3>3, <4>1 DEF IInv, CallInv, PathInv
    <3>9. AdvanceInv'
      BY <2>2, <3>1, <3>2 DEF AdvanceInv, AdvancesAt
    <3>10. SavedInv' /\ TipAtLastInput'
      BY <1>1, <3>4 DEF IInv, SavedInv, TipAtLastInput
    <3> QED
      BY <3>6, <3>7, <3>8, <3>9, <3>10 DEF IInv
  <2> QED
    BY <2>3, <2>4, <2>5, <2>6, <2>7
<1> QED
  BY <1>7, <1>8 DEF EndOfStroke, EndStep

LEMMA NextIInv == IInv /\ [Next]_vars => IInv'
<1> SUFFICES ASSUME IInv, [Next]_vars
             PROVE  IInv'
  OBVIOUS
<1>1. ASSUME NEW in \in Inputs, Down(in)
      PROVE  IInv'
  BY <1>1, DownIInv
<1>2. ASSUME NEW in \in Inputs, NEW event \in {"move", "up"}, StartPath(event, in)
      PROVE  IInv'
  BY <1>2, StartPathIInv
<1>3. CASE Predict
  BY <1>3, PredictIInv
<1>4. ASSUME NEW position \in Points, PathStep(position)
      PROVE  IInv'
  BY <1>4, PathStepIInv
<1>5. CASE PathDone
  BY <1>5, PathDoneIInv
<1>6. CASE EndOfStroke
  BY <1>6, EndOfStrokeIInv
<1>7. CASE Save
  BY <1>7 DEF Save, IInv, TypeOK, SavedInv, TipAtLastInput, CallInv, PathInv, EndInv,
              AdvanceInv, AdvancesAt, Resting
<1>8. CASE Restore
  BY <1>8 DEF Restore, IInv, TypeOK, SavedInv, TipAtLastInput, CallInv, PathInv, EndInv,
              AdvanceInv, AdvancesAt, Resting
<1>9. CASE UNCHANGED vars
  BY <1>9 DEF vars, IInv, TypeOK, SavedInv, TipAtLastInput, CallInv, PathInv, EndInv,
              AdvanceInv, AdvancesAt, Resting, Current, PathTime
<1> QED
  BY <1>1, <1>2, <1>3, <1>4, <1>5, <1>6, <1>7, <1>8, <1>9 DEF Next, Proceed

LEMMA IInvHolds == Spec => []IInv
BY InitIInv, NextIInv, PTL DEF Spec

\* Type correctness; and however the retries follow, the end of a stroke takes
\* no more than end_of_stroke_max_iterations steps and the buffer no more room
\* than what is reserved (position_modeler.h:100-127, stroke_modeler.cc:247-249).
THEOREM TypeCorrect == Spec => []TypeOK
BY IInvHolds, PTL DEF IInv

\* Between two calls of a stroke the tip is at the time of the last input, after
\* any path, prediction or Restore (position_modeler.cc:56).
THEOREM TipCorrect == Spec => []TipAtLastInput
BY IInvHolds, PTL DEF IInv

-----------------------------------------------------------------------------
(* What one iteration at the end of a stroke may do *)

\* Nothing but an iteration of the end of a stroke is possible there.
LEMMA OnlyEndOfStroke ==
  ASSUME Next, call # NoCall, call.loop = "end"
  PROVE  EndOfStroke
<1>1. "end" # "path"
  OBVIOUS
<1> QED
  BY <1>1 DEF Next, Proceed, Down, StartPath, Predict, PathStep, PathDone, Save, Restore

LEMMA LastAppended ==
  ASSUME NEW s \in Seq(TipStates), NEW state \in TipStates
  PROVE  Last(Append(s, state)) = state /\ Append(s, state) # s /\ Append(s, state) # <<>>
BY AppendProperties DEF Last

\* What a call ends with advances: the states it has given, or the only one.
LEMMA FinishAdvances ==
  ASSUME IInv, call # NoCall, call.loop = "end",
         NEW current \in TipStates, call.end.time <= current.time,
         NEW given \in Seq(TipStates), Finish(current, given),
         \A k \in 1 .. Len(given) : AdvancesAt(call, given, k)
  PROVE  \/ \A k \in DOMAIN outputs' : AdvancesAt(call, outputs', k)
         \/ /\ call.start.time = call.end.time
            /\ Len(outputs') = 1 /\ outputs'[1].time = call.start.time
<1>1. outputs' = given \/ outputs' = <<current>>
  BY DEF Finish
<1>2. CASE outputs' = given
  BY <1>2, LenProperties
<1>3. CASE outputs' = <<current>>
  <2>1. /\ DOMAIN outputs' = {1} /\ Len(outputs') = 1 /\ outputs'[1] = current
    BY <1>3
  <2>2. /\ call.start.time \in Nat /\ call.end.time \in Nat /\ current.time \in Nat
        /\ call.start.time <= call.end.time
    BY EndKnown DEF TipStates
  <2>3. CASE call.start.time < current.time
    BY <2>1, <2>3 DEF AdvancesAt
  <2>4. CASE call.start.time = current.time
    BY <2>1, <2>2, <2>4
  <2> QED
    BY <2>2, <2>3, <2>4
<1> QED
  BY <1>1, <1>2, <1>3

\* The tip states of a call come one after another in time, across path, end of
\* stroke and retries: none goes back, and none stands still unless the whole
\* call is over no time (position_modeler.h:70-128).
THEOREM AdvanceCorrect == Spec => OutputsAdvance
<1> DEFINE Advance == \/ \A k \in DOMAIN outputs' : AdvancesAt(call, outputs', k)
                      \/ /\ call.start.time = call.end.time
                         /\ Len(outputs') = 1 /\ outputs'[1].time = call.start.time
<1>1. ASSUME IInv, Next, call # NoCall
      PROVE  Advance
  <2>1. /\ outputs \in Seq(TipStates) /\ DOMAIN outputs = 1 .. Len(outputs)
        /\ \A k \in 1 .. Len(outputs) : AdvancesAt(call, outputs, k)
    BY <1>1, LenProperties DEF IInv, TypeOK, AdvanceInv
  <2>2. CASE outputs' = outputs
    BY <2>1, <2>2
  <2>3. ASSUME NEW position \in Points, PathStep(position)
        PROVE  Advance
    <3>1. IInv' /\ call' = [call EXCEPT !.i = @ + 1]
      BY <1>1, <2>3, PathStepIInv DEF PathStep
    <3>2. /\ call'.start = call.start /\ call'.end = call.end /\ call'.steps = call.steps
          /\ call' # NoCall
      <4>1. call \in CallType /\ call.i + 1 \in Nat
        BY <1>1, CallKnown DEF IInv
      <4>2. call' \in CallType
        BY <3>1, <4>1 DEF CallType
      <4> QED
        BY <3>1, <4>1, <4>2, NamesAssumption DEF CallType
    <3>3. DOMAIN outputs' = 1 .. Len(outputs')
      BY <3>1, LenProperties DEF IInv, TypeOK
    <3> QED
      BY <3>1, <3>2, <3>3 DEF IInv, AdvanceInv, AdvancesAt
  <2>4. CASE EndOfStroke
    <3>1. call.loop = "end" /\ Current \in TipStates /\ call.end.time <= Current.time
      BY <1>1, <2>4, EndKnown DEF EndOfStroke
    <3>2. CASE Finish(Current, outputs)
      BY <1>1, <2>1, <3>1, <3>2, FinishAdvances
    <3>3. ASSUME NEW position \in Points, EndStep(position)
          PROVE  Advance
      <4> DEFINE candidate == [position |-> position, time |-> Current.time + call.delta]
                 given == Append(outputs, candidate)
      <4>1. /\ candidate \in TipStates /\ candidate.time > call.end.time
            /\ given \in Seq(TipStates)
            /\ \A k \in 1 .. Len(given) : AdvancesAt(call, given, k)
        BY <1>1, <3>1, CandidateFollows
      <4>2. \/ Finish(candidate, outputs) \/ Retry(candidate)
            \/ Finish(candidate, given) \/ Continue(candidate)
        BY <3>3 DEF EndStep
      <4>3. Retry(candidate) => outputs' = outputs
        BY DEF Retry
      <4>4. Continue(candidate) => outputs' = given
        BY DEF Continue
      <4> HIDE DEF candidate, given
      <4>5. call.end.time <= candidate.time
        <5>1. call.end.time \in Nat /\ candidate.time \in Nat
          BY <1>1, <3>1, <4>1, EndKnown DEF TipStates
        <5> QED
          BY <4>1, <5>1
      <4>6. CASE Finish(candidate, outputs)
        BY <1>1, <2>1, <3>1, <4>1, <4>5, <4>6, FinishAdvances
      <4>7. CASE Finish(candidate, given)
        BY <1>1, <3>1, <4>1, <4>5, <4>7, FinishAdvances
      <4>8. CASE outputs' = given
        BY <4>1, <4>8, LenProperties
      <4> QED
        BY <2>2, <4>2, <4>3, <4>4, <4>6, <4>7, <4>8
    <3> QED
      BY <2>4, <3>2, <3>3 DEF EndOfStroke
  <2>5. PathDone => outputs' = outputs
    BY DEF PathDone
  <2> QED
    BY <1>1, <2>2, <2>3, <2>4, <2>5
       DEF Next, Proceed, Down, StartPath, Predict, Save, Restore
<1>2. IInv /\ [Next]_vars => [call # NoCall => Advance]_vars
  BY <1>1
<1> QED
  BY <1>2, IInvHolds, PTL DEF Spec, OutputsAdvance

\* The tip only ever gets nearer to the last input, unless it moves less than
\* the stop distance, and a prediction of it does so, too: the candidate that
\* overshot is neither given nor gone on from (position_modeler.h:100-127).
THEOREM EndConverges == Spec => EndApproachesInput
<1> DEFINE next == IF call' # NoCall THEN Current'
                   ELSE IF outputs' # outputs THEN Last(outputs') ELSE Current
           Nearer == \/ Within(Current.position, next.position, StopDistance)
                     \/ SquaredDistance(next.position, call.end.position)
                          < SquaredDistance(Current.position, call.end.position)
<1>1. ASSUME IInv, Next, call # NoCall, call.loop = "end"
      PROVE  Nearer
  <2>1. /\ call \in CallType /\ call.end.position \in Points
        /\ Current \in TipStates /\ Current.position \in Points
        /\ outputs \in Seq(TipStates)
        /\ \/ call.event = "up" /\ call.copy = NoCopy /\ Current = tip
           \/ call.event = "predict" /\ call.copy # NoCopy /\ Current = call.copy
    BY <1>1, EndKnown DEF Inputs, TipStates
  <2>2. EndOfStroke /\ IInv'
    BY <1>1, OnlyEndOfStroke, EndOfStrokeIInv
  <2>3. Within(Current.position, Current.position, StopDistance)
    BY <2>1, WithinItself
  <2>4. ASSUME NEW current \in TipStates,
               Within(Current.position, current.position, StopDistance),
               Finish(current, outputs)
        PROVE  Nearer
    <3>1. /\ call' = NoCall
          /\ outputs' = outputs \/ outputs' = <<current>>
      BY <2>4 DEF Finish
    <3>2. Last(<<current>>) = current
      BY DEF Last
    <3> QED
      BY <2>3, <2>4, <3>1, <3>2
  <2>5. ASSUME ~ IterationsLeft, Finish(Current, outputs)
        PROVE  Nearer
    BY <2>1, <2>3, <2>4, <2>5
  <2>6. ASSUME NEW position \in Points, EndStep(position)
        PROVE  Nearer
    <3> DEFINE candidate == [position |-> position, time |-> Current.time + call.delta]
               given == Append(outputs, candidate)
    <3>1. candidate \in TipStates
      BY <1>1, CandidateFollows
    <3>2. \/ /\ Within(Current.position, position, StopDistance)
             /\ Finish(candidate, outputs)
          \/ Retry(candidate)
          \/ /\ ~ Overshot(Current.position, position, call.end.position)
             /\ Finish(candidate, given) \/ Continue(candidate)
      BY <2>6 DEF EndStep
    <3>3. candidate.position = position
      OBVIOUS
    <3> HIDE DEF candidate
    <3>4. CASE /\ Within(Current.position, position, StopDistance)
               /\ Finish(candidate, outputs)
      BY <2>4, <3>1, <3>3, <3>4
    <3>5. CASE Retry(candidate)
      <4>1. Current' = Current /\ call' # NoCall
        <5>1. call' = [call EXCEPT !.i = @ + 1, !.delta = @ \div 2] /\ tip' = tip
          BY <3>5 DEF Retry
        <5>2. call'.copy = call.copy /\ call'.loop = "end"
          BY <1>1, <2>1, <5>1 DEF CallType
        <5>3. call' \in CallType
          <6>1. call.i + 1 \in Nat /\ call.delta \div 2 \in Nat
            BY <2>1 DEF CallType
          <6> QED
            BY <2>1, <5>1, <6>1 DEF CallType
        <5> QED
          BY <5>1, <5>2, <5>3, NamesAssumption DEF Current
      <4> QED
        BY <2>3, <4>1
    <3>6. CASE /\ ~ Overshot(Current.position, position, call.end.position)
               /\ Finish(candidate, given) \/ Continue(candidate)
      <4>1. SquaredDistance(position, call.end.position)
              < SquaredDistance(Current.position, call.end.position)
        BY <2>1, <3>6, NotOvershotIsNearer
      <4>2. CASE Finish(candidate, given)
        <5>1. given # <<>> /\ given # outputs /\ Last(given) = candidate
          BY <2>1, <3>1, LastAppended
        <5>2. call' = NoCall /\ outputs' = given
          BY <4>2, <5>1 DEF Finish
        <5> QED
          BY <3>3, <4>1, <5>1, <5>2
      <4>3. CASE Continue(candidate)
        <5>1. \/ call.event = "up" /\ tip' = candidate /\ call' = [call EXCEPT !.i = @ + 1]
              \/ call.event = "predict"
                   /\ call' = [call EXCEPT !.i = @ + 1, !.copy = candidate]
          BY <4>3 DEF Continue
        <5>2. call' \in CallType
          <6>1. call.i + 1 \in Nat
            BY <2>1 DEF CallType
          <6> QED
            BY <2>1, <3>1, <5>1, <6>1 DEF CallType
        <5>3. Current' = candidate /\ call' # NoCall
          <6>1. candidate # NoCopy
            BY <3>1, NamesAssumption
          <6>2. call.event = "up" => call'.copy = NoCopy
            BY <2>1, <5>1 DEF CallType
          <6>3. call.event = "predict" => call'.copy = candidate
            BY <2>1, <5>1 DEF CallType
          <6> QED
            BY <5>1, <5>2, <6>1, <6>2, <6>3, NamesAssumption DEF Current
        <5> QED
          BY <3>3, <4>1, <5>3
      <4> QED
        BY <3>6, <4>2, <4>3
    <3> QED
      BY <3>2, <3>4, <3>5, <3>6
  <2> QED
    BY <2>2, <2>5, <2>6 DEF EndOfStroke
<1>2. IInv /\ [Next]_vars => [call # NoCall /\ call.loop = "end" => Nearer]_vars
  BY <1>1
<1> QED
  BY <1>2, IInvHolds, PTL DEF Spec, EndApproachesInput

\* The last output of a call in progress is the current state.
LastInv ==
  call # NoCall /\ outputs # <<>> =>
    IF call.loop = "end" THEN Last(outputs) = Current ELSE Last(outputs) = tip

LEMMA LastInvHolds == Spec => []LastInv
<1>1. Init => LastInv
  BY DEF Init, LastInv
<1>2. IInv /\ LastInv /\ [Next]_vars => LastInv'
  <2> SUFFICES ASSUME IInv, LastInv, [Next]_vars
               PROVE  LastInv'
    OBVIOUS
  <2>1. ASSUME NEW in \in Inputs, Down(in)
        PROVE  LastInv'
    BY <2>1 DEF Down, LastInv
  <2>2. ASSUME NEW in \in Inputs, NEW event \in {"move", "up"}, StartPath(event, in)
        PROVE  LastInv'
    BY <2>2 DEF StartPath, LastInv
  <2>3. CASE Predict
    BY <2>3 DEF Predict, LastInv
  <2>4. ASSUME NEW position \in Points, PathStep(position)
        PROVE  LastInv'
    <3> DEFINE state == [position |-> position, time |-> PathTime(call, call.i)]
    <3>1. /\ call # NoCall /\ call.loop = "path" /\ tip' = state
          /\ call' = [call EXCEPT !.i = @ + 1] /\ outputs' = Append(outputs, state)
      BY <2>4 DEF PathStep
    <3>2. outputs \in Seq(TipStates) /\ tip' \in TipStates /\ call \in CallType
      BY <2>4, <3>1, PathStepIInv DEF IInv, TypeOK
    <3>3. Last(outputs') = tip'
      BY <3>1, <3>2, LastAppended
    <3>4. call'.loop = "path"
      BY <3>1, <3>2 DEF CallType
    <3> QED
      BY <3>3, <3>4 DEF LastInv
  <2>5. CASE PathDone
    <3>1. CASE call' = NoCall
      BY <3>1 DEF LastInv
    <3>2. CASE call.event = "up"
      <4>1. /\ call # NoCall /\ call.loop = "path" /\ call \in CallType
            /\ call' = [call EXCEPT !.loop = "end", !.i = 0]
            /\ tip' = tip /\ outputs' = outputs
        BY <2>5, <3>2 DEF PathDone, IInv, TypeOK
      <4>2. call.copy = NoCopy
        BY <3>2, <4>1 DEF IInv, CallInv
      <4>3. call'.loop = "end" /\ call'.copy = NoCopy
        BY <4>1, <4>2 DEF CallType
      <4> QED
        BY <4>1, <4>3 DEF LastInv, Current
    <3> QED
      BY <2>5, <3>1, <3>2 DEF PathDone
  <2>6. CASE EndOfStroke
    <3>1. call # NoCall /\ call.loop = "end"
      BY <2>6 DEF EndOfStroke
    <3>2. /\ call \in CallType /\ outputs \in Seq(TipStates)
          /\ \/ call.event = "up" /\ call.copy = NoCopy /\ Current = tip
             \/ call.event = "predict" /\ call.copy # NoCopy /\ Current = call.copy
      BY <3>1, EndKnown
    <3>3. CASE call' = NoCall
      BY <3>3 DEF LastInv
    <3>4. ASSUME NEW candidate, Retry(candidate)
          PROVE  LastInv'
      <4>1. /\ call' = [call EXCEPT !.i = @ + 1, !.delta = @ \div 2]
            /\ tip' = tip /\ outputs' = outputs
        BY <3>4 DEF Retry
      <4>2. call'.copy = call.copy /\ call'.loop = "end"
        BY <3>1, <3>2, <4>1 DEF CallType
      <4> QED
        BY <3>1, <4>1, <4>2 DEF LastInv, Current
    <3>5. ASSUME NEW candidate \in TipStates, Continue(candidate)
          PROVE  LastInv'
      <4>1. /\ outputs' = Append(outputs, candidate)
            /\ \/ call.event = "up" /\ tip' = candidate /\ call' = [call EXCEPT !.i = @ + 1]
               \/ call.event = "predict"
                    /\ call' = [call EXCEPT !.i = @ + 1, !.copy = candidate]
        BY <3>5 DEF Continue
      <4>2. \/ tip' = candidate /\ call'.copy = NoCopy
            \/ call'.copy = candidate /\ candidate # NoCopy
        BY <3>2, <4>1, NamesAssumption DEF CallType
      <4>3. Current' = candidate /\ call'.loop = "end"
        BY <3>1, <3>2, <4>1, <4>2 DEF Current, CallType
      <4>4. Last(outputs') = candidate
        BY <3>2, <4>1, LastAppended
      <4> QED
        BY <4>3, <4>4 DEF LastInv
    <3>6. \A position \in Points :
            [position |-> position, time |-> Current.time + call.delta] \in TipStates
      BY <3>1, CandidateFollows
    <3>7. \/ call' = NoCall
          \/ \E candidate : Retry(candidate)
          \/ \E candidate \in TipStates : Continue(candidate)
      BY <2>6, <3>6 DEF EndOfStroke, EndStep, Finish
    <3> QED
      BY <3>3, <3>4, <3>5, <3>7
  <2>7. CASE Save
    BY <2>7 DEF Save, LastInv, Current
  <2>8. CASE Restore
    BY <2>8 DEF Restore, LastInv
  <2>9. CASE UNCHANGED vars
    BY <2>9 DEF vars, LastInv, Current
  <2> QED
    BY <2>1, <2>2, <2>3, <2>4, <2>5, <2>6, <2>7, <2>8, <2>9 DEF Next, Proceed
<1> QED
  BY <1>1, <1>2, IInvHolds, PTL DEF Spec

\* An Up gives at least one state, and leaves the tip near the last one it gave
\* (stroke_modeler.cc:254-265).
THEOREM UpCorrect == Spec => UpGivesTip
<1> DEFINE Given == /\ outputs' # <<>>
                    /\ Within(Last(outputs').position, tip'.position, StopDistance)
           Ends == call # NoCall /\ call' = NoCall /\ call.event = "up"
<1>1. ASSUME IInv, LastInv, Next, Ends
      PROVE  Given
  <2>1. call.loop = "end" /\ EndOfStroke
    <3>1. call \in CallType /\ call # NoCall
      BY <1>1 DEF IInv, TypeOK
    <3>2. ASSUME NEW position \in Points, PathStep(position)
          PROVE  FALSE
      <4>1. call' = [call EXCEPT !.i = @ + 1]
        BY <3>2 DEF PathStep
      <4>2. call.i + 1 \in Nat
        BY <3>1 DEF CallType
      <4>3. call' \in CallType
        BY <3>1, <4>1, <4>2 DEF CallType
      <4> QED
        BY <1>1, <4>3, NamesAssumption
    <3>3. CASE PathDone
      <4>1. call' = [call EXCEPT !.loop = "end", !.i = 0]
        BY <1>1, <3>3 DEF PathDone
      <4>2. call' \in CallType
        BY <3>1, <4>1 DEF CallType
      <4> QED
        BY <1>1, <4>2, NamesAssumption
    <3>4. EndOfStroke
      BY <1>1, <3>2, <3>3 DEF Next, Proceed, Down, StartPath, Predict, Save, Restore
    <3> QED
      BY <3>4 DEF EndOfStroke
  <2>2. /\ call \in CallType /\ outputs \in Seq(TipStates)
        /\ Current \in TipStates /\ Current.position \in Points
        /\ outputs # <<>> => Last(outputs) = Current
    BY <1>1, <2>1, EndKnown DEF LastInv, TipStates
  <2>3. ASSUME NEW current \in TipStates,
               Within(Current.position, current.position, StopDistance),
               Finish(current, outputs)
        PROVE  Given
    <3>1. tip' = current /\ outputs' = IF outputs = <<>> THEN <<current>> ELSE outputs
      BY <1>1, <2>3 DEF Finish
    <3>2. CASE outputs = <<>>
      <4>1. outputs' # <<>> /\ Last(outputs') = current
        BY <3>1, <3>2 DEF Last
      <4>2. current.position \in Points
        BY DEF TipStates
      <4> QED
        BY <3>1, <4>1, <4>2, WithinItself
    <3>3. CASE outputs # <<>>
      BY <2>2, <2>3, <3>1, <3>3
    <3> QED
      BY <3>2, <3>3
  <2>4. ASSUME ~ IterationsLeft, Finish(Current, outputs)
        PROVE  Given
    BY <2>2, <2>3, <2>4, WithinItself
  <2>5. ASSUME NEW position \in Points, EndStep(position)
        PROVE  Given
    <3> DEFINE candidate == [position |-> position, time |-> Current.time + call.delta]
    <3>1. candidate \in TipStates
      BY <1>1, <2>1, CandidateFollows
    <3>2. ~ Retry(candidate) /\ ~ Continue(candidate)
      <4> SUFFICES ASSUME Retry(candidate) \/ Continue(candidate) PROVE FALSE
        OBVIOUS
      <4>1. call' = [call EXCEPT !.i = @ + 1, !.delta = @ \div 2]
            \/ call' = [call EXCEPT !.i = @ + 1]
        BY <1>1 DEF Retry, Continue
      <4>2. call.i + 1 \in Nat /\ call.delta \div 2 \in Nat
        BY <2>2 DEF CallType
      <4>3. call' \in CallType
        BY <2>2, <4>1, <4>2 DEF CallType
      <4> QED
        BY <1>1, <4>3, NamesAssumption
    <3>3. \/ /\ Within(Current.position, position, StopDistance)
             /\ Finish(candidate, outputs)
          \/ Finish(candidate, Append(outputs, candidate))
      BY <2>5, <3>2 DEF EndStep
    <3>4. candidate.position = position
      OBVIOUS
    <3> HIDE DEF candidate
    <3>5. CASE /\ Within(Current.position, position, StopDistance)
               /\ Finish(candidate, outputs)
      BY <2>3, <3>1, <3>4, <3>5
    <3>6. CASE Finish(candidate, Append(outputs, candidate))
      <4>1. /\ Append(outputs, candidate) # <<>>
            /\ Last(Append(outputs, candidate)) = candidate
        BY <2>2, <3>1, LastAppended
      <4>2. tip' = candidate /\ outputs' = Append(outputs, candidate)
        BY <1>1, <3>6, <4>1 DEF Finish
      <4> QED
        BY <3>1, <4>1, <4>2, WithinItself DEF TipStates
    <3> QED
      BY <3>3, <3>5, <3>6
  <2> QED
    BY <2>1, <2>4, <2>5 DEF EndOfStroke
<1>2. IInv /\ LastInv /\ [Next]_vars => [Ends => Given]_vars
  BY <1>1
<1> QED
  BY <1>2, IInvHolds, LastInvHolds, PTL DEF Spec, UpGivesTip

-----------------------------------------------------------------------------
(* Every step of a call uses up what is left of it *)

\* The most steps a call can still take: the rest of its path and what comes
\* after it, or the iterations that are left and the one that ends the call.
Remaining ==
  IF call = NoCall THEN 0
  ELSE IF call.loop = "path" THEN (call.steps + 1 - call.i) + (MaxIterations + 2)
  ELSE MaxIterations - call.i + 1

LEMMA RemainingNat ==
  ASSUME IInv
  PROVE  /\ Remaining \in Nat
         /\ call # NoCall => Remaining > 0
<1>1. MaxIterations \in Nat
  BY ParamsAssumption
<1>2. CASE call = NoCall
  BY <1>2 DEF Remaining
<1>3. CASE call # NoCall /\ call.loop = "path"
  <2>1. call.steps \in Nat /\ call.i \in 1 .. call.steps + 1
    BY <1>3, CallKnown DEF IInv, PathInv
  <2> QED
    BY <1>1, <1>3, <2>1 DEF Remaining
<1>4. CASE call # NoCall /\ call.loop = "end"
  <2>1. call.i \in 0 .. MaxIterations
    BY <1>4, EndKnown
  <2> QED
    BY <1>1, <1>4, <2>1 DEF Remaining
<1> QED
  BY <1>2, <1>3, <1>4, CallKnown DEF IInv, CallType

\* No step of a call leaves as much of it as there was: retries count like any
\* iteration (position_modeler.h:100-127), and the end of a stroke, begun once
\* its path is done, does not lead back to a path.  So a call takes no more
\* steps than were left of it when it was made.
THEOREM EveryStepCounts ==
  Spec => /\ [](Remaining \in Nat)
          /\ [][call # NoCall => Remaining' < Remaining]_vars
<1>1. ASSUME IInv, Next, call # NoCall
      PROVE  Remaining' < Remaining
  <2>1. /\ call \in CallType /\ call.steps \in Nat /\ call.i \in Nat
        /\ MaxIterations \in Nat
        /\ call.loop \in {"path", "end"}
    BY <1>1, CallKnown, ParamsAssumption DEF IInv, CallType
  <2>2. ASSUME call' = NoCall
        PROVE  Remaining' < Remaining
    BY <1>1, <2>2, RemainingNat DEF Remaining
  <2>3. ASSUME call.loop = "path", NEW position \in Points, PathStep(position)
        PROVE  Remaining' < Remaining
    <3>1. /\ call'.loop = "path" /\ call'.steps = call.steps /\ call'.i = call.i + 1
      BY <2>1, <2>3 DEF PathStep, CallType
    <3>2. call' # NoCall
      <4>1. call' \in CallType
        BY <2>1, <2>3 DEF PathStep, CallType
      <4> QED
        BY <4>1, NamesAssumption
    <3> QED
      BY <1>1, <2>1, <2>3, <3>1, <3>2 DEF Remaining
  <2>4. ASSUME call.loop = "path", PathDone
        PROVE  Remaining' < Remaining
    <3>1. CASE call' = [call EXCEPT !.loop = "end", !.i = 0]
      <4>1. call'.loop = "end" /\ call'.i = 0 /\ call' \in CallType
        BY <2>1, <3>1 DEF CallType
      <4>2. call' # NoCall
        BY <4>1, NamesAssumption
      <4>3. call.i <= call.steps + 1
        BY <1>1, <2>4 DEF IInv, PathInv
      <4>4. Remaining' = MaxIterations + 1
        BY <2>1, <4>1, <4>2 DEF Remaining
      <4> QED
        BY <1>1, <2>1, <2>4, <4>3, <4>4 DEF Remaining
    <3> QED
      BY <2>2, <2>4, <3>1 DEF PathDone
  <2>5. ASSUME call.loop = "end", EndOfStroke
        PROVE  Remaining' < Remaining
    <3>1. CASE call' = NoCall
      BY <2>2, <3>1
    <3>2. CASE call' # NoCall
      <4>1. call'.i = call.i + 1 /\ call'.loop = "end"
        <5>1. PICK position \in Points : EndStep(position)
          BY <2>5, <3>2 DEF EndOfStroke, Finish
        <5>2. \E candidate : Retry(candidate) \/ Continue(candidate)
          BY <3>2, <5>1 DEF EndStep, Finish
        <5> QED
          BY <2>1, <2>5, <5>2 DEF Retry, Continue, CallType
      <4> QED
        BY <1>1, <2>1, <2>5, <3>2, <4>1 DEF Remaining
    <3> QED
      BY <3>1, <3>2
  <2>6. CASE call.loop = "end"
    BY <1>1, <2>5, <2>6, OnlyEndOfStroke
  <2>7. CASE call.loop = "path"
    <3>1. (\E position \in Points : PathStep(position)) \/ PathDone
      BY <1>1, <2>7 DEF Next, Proceed, Down, StartPath, Predict, EndOfStroke, Save, Restore
    <3> QED
      BY <2>3, <2>4, <2>7, <3>1
  <2> QED
    BY <2>1, <2>6, <2>7
<1>2. IInv /\ [Next]_vars => [call # NoCall => Remaining' < Remaining]_vars
  BY <1>1
<1>3. IInv => Remaining \in Nat
  BY RemainingNat
<1> QED
  BY <1>2, <1>3, IInvHolds, PTL DEF Spec
=============================================================================
