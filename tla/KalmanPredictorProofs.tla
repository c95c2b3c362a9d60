------------------------ MODULE KalmanPredictorProofs ------------------------
(***************************************************************************)
(* Theorems about KalmanPredictor, for every modulus, set of parameters,   *)
(* inputs and tips and every bound: what it keeps of a stroke; how many    *)
(* points a prediction has, at which times, and that they are on one       *)
(* smooth curve; and what the filter computes, whatever the stroke: an     *)
(* estimate that does not depend on the origin, by the gain of least       *)
(* variance.                                                               *)
(***************************************************************************)
EXTENDS KalmanPredictor, ModelerLemmas

-----------------------------------------------------------------------------
(* Numbers and sequences *)

\* The latest k times of a stroke.
LatestTimes(inputs, k) ==
  [i \in 1 .. k |-> inputs[Len(inputs) - k + i].time]

Window(inputs) ==
  LatestTimes(inputs, Min({Len(inputs), params.maxTimeSamples}))

LEMMA InputsType ==
  \A in \in Inputs : in.time \in 0 .. Prime - 1
BY InputsAssumption

LEMMA ParamsNat ==
  ASSUME params \in Params
  PROVE  /\ params.maxTimeSamples \in Nat \ {0}
         /\ params.minStableIteration \in Nat \ {0}
         /\ params.desiredNumberOfSamples \in Nat \ {0}
BY ParamsAssumption DEF ParamsType

LEMMA PrimeNat == Prime \in Nat /\ Prime > 6
BY PrimeAssumption

LEMMA LatestTimesType ==
  ASSUME NEW inputs \in Seq(Inputs), NEW k \in 0 .. Len(inputs)
  PROVE  /\ LatestTimes(inputs, k) \in Seq(Nat)
         /\ Len(LatestTimes(inputs, k)) = k
         /\ \A i \in 1 .. k :
              LatestTimes(inputs, k)[i] = inputs[Len(inputs) - k + i].time
<1>1. \A i \in 1 .. k : inputs[Len(inputs) - k + i].time \in Nat
  BY InputsType, PrimeNat
<1>2. LatestTimes(inputs, k) \in [1 .. k -> Nat]
  BY <1>1 DEF LatestTimes
<1>3. LatestTimes(inputs, k) \in Seq(Nat)
  BY <1>2, SeqDef
<1> QED
  BY <1>2, <1>3 DEF LatestTimes

\* One input more: the window grows by its time, or moves on by one.
LEMMA LatestTimesAppend ==
  ASSUME NEW inputs \in Seq(Inputs), NEW in \in Inputs,
         NEW k \in 0 .. Len(inputs)
  PROVE  /\ Append(LatestTimes(inputs, k), in.time)
              = LatestTimes(Append(inputs, in), k + 1)
         /\ k > 0 => Tail(Append(LatestTimes(inputs, k), in.time))
              = LatestTimes(Append(inputs, in), k)
<1> DEFINE n == Len(inputs)
           old == LatestTimes(inputs, k)
           all == Append(inputs, in)
           new == Append(old, in.time)
<1>1. /\ old \in Seq(Nat) /\ Len(old) = k
      /\ \A i \in 1 .. k : old[i] = inputs[n - k + i].time
  BY LatestTimesType
<1>2. /\ all \in Seq(Inputs) /\ Len(all) = n + 1
      /\ \A i \in 1 .. n : all[i] = inputs[i]
      /\ all[n + 1] = in
  BY AppendProperties
<1>3. in.time \in Nat
  BY InputsType, PrimeNat
<1>4. /\ new \in Seq(Nat) /\ Len(new) = k + 1 /\ new # <<>>
      /\ \A i \in 1 .. k : new[i] = old[i]
      /\ new[k + 1] = in.time
  <2> HIDE DEF old
  <2>1. /\ new \in Seq(Nat) /\ Len(new) = k + 1
        /\ \A i \in 1 .. k : new[i] = old[i]
        /\ new[k + 1] = in.time
    BY <1>1, <1>3, AppendProperties
  <2>2. new # <<>>
    BY <1>1, <1>3, AppendProperties
  <2> QED
    BY <2>1, <2>2
<1>5. n \in Nat /\ k \in Nat /\ k <= n
  BY LenProperties
<1> HIDE DEF n, old, all, new
<1>6. \A i \in 1 .. k + 1 : new[i] = all[n - k + i].time
  <2> SUFFICES ASSUME NEW i \in 1 .. k + 1
               PROVE  new[i] = all[n - k + i].time
    OBVIOUS
  <2>1. CASE i = k + 1
    <3>1. n - k + i = n + 1
      BY <2>1, <1>5
    <3> QED
      BY <2>1, <3>1, <1>2, <1>4
  <2>2. CASE i # k + 1
    <3>1. i \in 1 .. k /\ n - k + i \in 1 .. n
      BY <2>2, <1>5
    <3> QED
      BY <3>1, <1>1, <1>2, <1>4
  <2> QED
    BY <2>1, <2>2
<1>7. new = LatestTimes(all, k + 1)
  <2>1. k + 1 \in 0 .. Len(all)
    BY <1>2, <1>5
  <2>2. /\ LatestTimes(all, k + 1) \in Seq(Nat)
        /\ Len(LatestTimes(all, k + 1)) = k + 1
        /\ \A i \in 1 .. k + 1 :
             LatestTimes(all, k + 1)[i] = all[Len(all) - (k + 1) + i].time
    BY <2>1, <1>2, LatestTimesType
  <2>3. \A i \in 1 .. k + 1 : Len(all) - (k + 1) + i = n - k + i
    BY <1>2, <1>5
  <2>4. \A i \in 1 .. Len(new) : new[i] = LatestTimes(all, k + 1)[i]
    BY <1>4, <1>6, <2>2, <2>3
  <2> QED
    BY <1>4, <2>2, <2>4, SeqEqual
<1>8. ASSUME k > 0 PROVE Tail(new) = LatestTimes(all, k)
  <2>1. k \in 0 .. Len(all)
    BY <1>2, <1>5
  <2>2. /\ LatestTimes(all, k) \in Seq(Nat)
        /\ Len(LatestTimes(all, k)) = k
        /\ \A i \in 1 .. k : LatestTimes(all, k)[i] = all[Len(all) - k + i].time
    BY <2>1, <1>2, LatestTimesType
  <2>3. /\ Tail(new) \in Seq(Nat) /\ Len(Tail(new)) = k
        /\ \A i \in 1 .. k : Tail(new)[i] = new[i + 1]
    BY <1>4, <1>5, HeadTailProperties
  <2>4. ASSUME NEW i \in 1 .. k PROVE Tail(new)[i] = LatestTimes(all, k)[i]
    <3>1. i + 1 \in 1 .. k + 1
      BY <1>5
    <3>2. n - k + (i + 1) = Len(all) - k + i
      BY <1>2, <1>5
    <3> QED
      BY <1>6, <2>2, <2>3, <3>1, <3>2
  <2> QED
    BY <2>2, <2>3, <2>4, SeqEqual
<1> QED
  BY <1>7, <1>8 DEF old, all, new

LEMMA PushTimeWindow ==
  ASSUME params \in Params, NEW inputs \in Seq(Inputs), NEW in \in Inputs
  PROVE  PushTime(Window(inputs), in.time) = Window(Append(inputs, in))
<1> DEFINE max == params.maxTimeSamples
           n == Len(inputs)
           k == IF n <= max THEN n ELSE max
           old == LatestTimes(inputs, k)
           new == Append(inputs, in)
<1>1. max \in Nat \ {0} /\ n \in Nat
  BY ParamsNat, LenProperties
<1>2. Window(inputs) = old
  BY <1>1, MinOfTwo DEF Window
<1>3. Len(new) = n + 1
  BY AppendProperties
<1>4. Window(new) = LatestTimes(new, IF n + 1 <= max THEN n + 1 ELSE max)
  BY <1>1, <1>3, MinOfTwo DEF Window
<1>5. k \in 0 .. n
  BY <1>1
<1>6. Len(Append(old, in.time)) = k + 1
  <2>1. old \in Seq(Nat) /\ Len(old) = k
    BY <1>5, LatestTimesType
  <2>2. in.time \in Nat
    BY InputsType, PrimeNat
  <2> HIDE DEF old, k
  <2> QED
    BY <2>1, <2>2, AppendProperties
<1>7. /\ Append(old, in.time) = LatestTimes(new, k + 1)
      /\ k > 0 => Tail(Append(old, in.time)) = LatestTimes(new, k)
  BY <1>5, LatestTimesAppend
<1>8. PushTime(old, in.time) = IF k + 1 > max THEN Tail(Append(old, in.time))
                               ELSE Append(old, in.time)
  BY <1>6 DEF PushTime
<1>9. CASE n < max
  <2>1. k = n /\ (IF n + 1 <= max THEN n + 1 ELSE max) = k + 1 /\ ~(k + 1 > max)
    BY <1>1, <1>9
  <2> HIDE DEF old, new, n, max, k
  <2> QED
    BY <1>2, <1>4, <1>7, <1>8, <2>1 DEF new
<1>10. CASE n >= max
  <2>1. k = max /\ (IF n + 1 <= max THEN n + 1 ELSE max) = k /\ k + 1 > max /\ k > 0
    BY <1>1, <1>10
  <2> HIDE DEF old, new, n, max, k
  <2> QED
    BY <1>2, <1>4, <1>7, <1>8, <2>1 DEF new
<1> QED
  BY <1>1, <1>9, <1>10

-----------------------------------------------------------------------------
(* What the predictor knows of a stroke: the number of its inputs, their   *)
(* latest times and the time of the last one.                              *)

Knows(f, s, last, inputs) ==
  /\ inputs \in Seq(Inputs)
  /\ "iterations" \in DOMAIN f /\ f.iterations = Len(inputs)
  /\ s = Window(inputs)
  /\ last # NoStroke => inputs # <<>> /\ last \in Nat

StrokeInv ==
  /\ params \in Params
  /\ history = [now |-> history.now, saved |-> history.saved]
  /\ Knows(filter, times, lastTime, history.now)
  /\ saved # NoSave => Knows(saved.filter, saved.times, saved.lastTime, history.saved)

\* An Update counts one input, whatever it does to the estimate.
LEMMA UpdateCounts ==
  ASSUME NEW f, NEW observation, "iterations" \in DOMAIN f
  PROVE  /\ "iterations" \in DOMAIN FilterUpdate(f, observation)
         /\ FilterUpdate(f, observation).iterations = f.iterations + 1
<1>1. DOMAIN FilterPredict(f) = DOMAIN f
  BY DEF FilterPredict
<1>2. \A g : DOMAIN Corrected(g, observation) = DOMAIN g
  BY DEF Corrected
<1> DEFINE updated == IF f.iterations = 0
                      THEN [f EXCEPT !.estimate[1] = observation]
                      ELSE Corrected(FilterPredict(f), observation)
<1>3. DOMAIN updated = DOMAIN f
  BY <1>1, <1>2
<1>4. FilterUpdate(f, observation) = [updated EXCEPT !.iterations = f.iterations + 1]
  BY DEF FilterUpdate
<1> HIDE DEF updated
<1> QED
  BY <1>3, <1>4

LEMMA ResetCounts ==
  ASSUME NEW f, "iterations" \in DOMAIN f
  PROVE  "iterations" \in DOMAIN FilterReset(f) /\ FilterReset(f).iterations = 0
BY DEF FilterReset

LEMMA EmptyWindow ==
  ASSUME params \in Params
  PROVE  <<>> \in Seq(Inputs) /\ Window(<<>>) = <<>>
<1>1. <<>> \in Seq(Inputs) /\ Len(<<>>) = 0
  BY EmptySeq
<1>2. Min({0, params.maxTimeSamples}) = 0
  BY ParamsNat, MinOfTwo
<1>3. Window(<<>>) \in Seq(Nat) /\ Len(Window(<<>>)) = 0
  <2>1. Window(<<>>) = LatestTimes(<<>>, 0)
    BY <1>1, <1>2 DEF Window
  <2>2. 0 \in 0 .. Len(<<>>)
    BY <1>1
  <2> QED
    BY <1>1, <2>1, <2>2, LatestTimesType
<1> QED
  BY <1>1, <1>3, EmptySeq

\* An accepted input is one more the predictor knows.
LEMMA KnowsOneMore ==
  ASSUME params \in Params, NEW f, NEW s, NEW last, NEW inputs, NEW in \in Inputs,
         Knows(f, s, last, inputs)
  PROVE  Knows(FilterUpdate(f, in.position), PushTime(s, in.time), in.time,
               Append(inputs, in))
<1>1. inputs \in Seq(Inputs)
  BY DEF Knows
<1>2. /\ Append(inputs, in) \in Seq(Inputs)
      /\ Len(Append(inputs, in)) = Len(inputs) + 1
      /\ Append(inputs, in) # <<>>
  BY <1>1, AppendProperties
<1>3. PushTime(s, in.time) = Window(Append(inputs, in))
  BY <1>1, PushTimeWindow DEF Knows
<1>4. /\ "iterations" \in DOMAIN FilterUpdate(f, in.position)
      /\ FilterUpdate(f, in.position).iterations = Len(inputs) + 1
  BY UpdateCounts DEF Knows
<1>5. in.time \in Nat
  BY InputsType, PrimeNat
<1> QED
  BY <1>2, <1>3, <1>4, <1>5 DEF Knows

LEMMA StrokeInvHolds == Spec => []StrokeInv
<1>1. Init => StrokeInv
  <2> SUFFICES ASSUME Init PROVE StrokeInv
    OBVIOUS
  <2>1. params \in Params /\ <<>> \in Seq(Inputs) /\ Window(<<>>) = <<>>
    BY EmptyWindow DEF Init
  <2>2. "iterations" \in DOMAIN NewFilter /\ NewFilter.iterations = Len(<<>>)
    BY EmptySeq DEF NewFilter
  <2>3. Knows(filter, times, lastTime, history.now)
    BY <2>1, <2>2 DEF Init, Knows
  <2> QED
    BY <2>1, <2>3 DEF Init, StrokeInv
<1>2. StrokeInv /\ [Next]_vars => StrokeInv'
  <2> SUFFICES ASSUME StrokeInv, [Next]_vars
               PROVE  StrokeInv'
    OBVIOUS
  <2> USE DEF StrokeInv
  <2>1. ASSUME NEW in \in Inputs, ResetAndUpdate(in)
        PROVE  StrokeInv'
    <3>1. Knows(FilterReset(filter), <<>>, NoStroke, <<>>)
      BY EmptyWindow, EmptySeq, ResetCounts DEF Knows
    <3>2. Append(<<>>, in) = <<in>>
      OBVIOUS
    <3>3. Knows(FilterUpdate(FilterReset(filter), in.position),
                PushTime(<<>>, in.time), in.time, <<in>>)
      BY <3>1, <3>2, KnowsOneMore
    <3> QED
      BY <2>1, <3>3 DEF ResetAndUpdate, Knows, Window
  <2>2. ASSUME NEW in \in Inputs, Update(in)
        PROVE  StrokeInv'
    <3>1. Knows(FilterUpdate(filter, in.position), PushTime(times, in.time),
                in.time, Append(history.now, in))
      BY KnowsOneMore
    <3> QED
      BY <2>2, <3>1 DEF Update, Knows, Window
  <2>3. ASSUME NEW tip \in Tips, ConstructPrediction(tip)
        PROVE  StrokeInv'
    BY <2>3 DEF ConstructPrediction, Knows, Window
  <2>4. CASE EndStroke
    BY <2>4 DEF EndStroke, Knows, Window
  <2>5. CASE Save
    BY <2>5 DEF Save, Knows, Window
  <2>6. CASE Restore
    BY <2>6 DEF Restore, Knows, Window
  <2>7. CASE UNCHANGED vars
    BY <2>7 DEF vars, Knows, Window
  <2> QED
    BY <2>1, <2>2, <2>3, <2>4, <2>5, <2>6, <2>7 DEF Next
<1> QED
  BY <1>1, <1>2, PTL DEF Spec

\* The deque of times holds the latest times of the stroke the predictor is in,
\* after any Reset, Save and Restore (kalman_predictor.cc:53-67).
THEOREM TimesCorrect == Spec => []WindowIsLatestTimes
<1>1. StrokeInv => WindowIsLatestTimes
  BY DEF StrokeInv, Knows, Window, LatestTimes, WindowIsLatestTimes
<1> QED
  BY <1>1, StrokeInvHolds, PTL

-----------------------------------------------------------------------------
(* The prediction *)

LEMMA ConcatFunctions ==
  ASSUME NEW m \in Nat, NEW n \in Nat, NEW f, NEW g,
         f = [i \in 1 .. m |-> f[i]], g = [i \in 1 .. n |-> g[i]]
  PROVE  /\ Len(f \o g) = m + n
         /\ DOMAIN (f \o g) = 1 .. m + n
         /\ \A i \in 1 .. m + n :
              (f \o g)[i] = IF i <= m THEN f[i] ELSE g[i - m]
<1> DEFINE S == {f[i] : i \in 1 .. m} \cup {g[i] : i \in 1 .. n}
<1>1. f \in [1 .. m -> S] /\ g \in [1 .. n -> S]
  OBVIOUS
<1> HIDE DEF S
<1>2. f \in Seq(S) /\ Len(f) = m
  BY <1>1, SeqDef
<1>3. g \in Seq(S) /\ Len(g) = n
  BY <1>1, SeqDef
<1>4. /\ f \o g \in Seq(S) /\ Len(f \o g) = m + n
      /\ \A i \in 1 .. m + n :
           (f \o g)[i] = IF i <= m THEN f[i] ELSE g[i - m]
  BY <1>2, <1>3, ConcatProperties
<1> QED
  BY <1>4, LenProperties

\* A part of a duration of n steps is as many steps.
LEMMA WholeSteps ==
  ASSUME NEW n \in Nat \ {0}, NEW i \in Nat, NEW step \in Nat
  PROVE  ((n * step) * i) \div n = i * step
<1> DEFINE m == i * step
           x == ((n * step) * i) \div n
<1>1. m \in Int /\ (n * step) * i = m * n
  OBVIOUS
<1> HIDE DEF m
<1>2. (m * n) \div n = m
  <2> DEFINE q == (m * n) \div n
  <2>1. q \in Int /\ q * n <= m * n /\ m * n < (q + 1) * n
    BY <1>1
  <2> HIDE DEF q
  <2>2. q <= m
    <3> SUFFICES ASSUME q >= m + 1 PROVE FALSE
      BY <1>1, <2>1
    <3>1. q * n >= (m + 1) * n /\ (m + 1) * n = m * n + n
      BY <1>1, <2>1
    <3> QED
      BY <1>1, <2>1, <3>1
  <2>3. q >= m
    <3> SUFFICES ASSUME q + 1 <= m PROVE FALSE
      BY <1>1, <2>1
    <3>1. (q + 1) * n <= m * n
      BY <1>1, <2>1
    <3> QED
      BY <1>1, <2>1, <3>1
  <2> QED
    BY <1>1, <2>1, <2>2, <2>3 DEF q
<1> QED
  BY <1>1, <1>2 DEF m

\* The connector's points, and where the second cubic starts.
LEMMA ConnectorPoints ==
  ASSUME lastTime \in Nat, NEW tip, NEW estimate, NEW n \in Nat \ {0}
  PROVE  LET c == Connector(tip, estimate, n)
         IN  /\ c = [i \in 1 .. n |-> c[i]]
             /\ \A i \in 1 .. n : c[i].time = lastTime + i * Tick
             /\ StartAfter(c) = lastTime + n * Tick
<1> DEFINE c == Connector(tip, estimate, n)
<1>1. Tick \in Nat
  BY ParamsAssumption, PrimeNat
<1>2. c = [i \in 1 .. n |-> c[i]]
  BY DEF Connector
<1>3. \A i \in 1 .. n : c[i].time = TimeAlong(n * Tick, i, n)
  BY DEF Connector, Point
<1>4. \A i \in 1 .. n : c[i].time = lastTime + i * Tick
  <2> SUFFICES ASSUME NEW i \in 1 .. n PROVE c[i].time = lastTime + i * Tick
    OBVIOUS
  <2>1. ((n * Tick) * i) \div n = i * Tick
    BY <1>1, WholeSteps
  <2> HIDE DEF c
  <2> QED
    BY <1>3, <2>1 DEF TimeAlong
<1>5. Len(c) = n /\ c # <<>>
  <2> DEFINE S == {c[i] : i \in 1 .. n}
  <2>1. c \in [1 .. n -> S]
    BY <1>2
  <2> HIDE DEF S, c
  <2>2. c \in Seq(S) /\ Len(c) = n
    BY <2>1, SeqDef
  <2> QED
    BY <2>2, EmptySeq
<1>6. StartAfter(c) = c[n].time
  <2> HIDE DEF c
  <2> QED
    BY <1>5 DEF StartAfter, Last
<1> HIDE DEF c
<1>7. StartAfter(c) = lastTime + n * Tick
  BY <1>4, <1>6
<1> QED
  BY <1>2, <1>4, <1>7 DEF c

\* What the loop of ConstructCubicPrediction goes through.
LoopUpTo(f, n, s, start) ==
  f = [k \in 0 .. n |->
         IF k = 0 THEN [state |-> s, time |-> start]
         ELSE [state |-> EvaluateCubic(f[k - 1].state, Tick),
               time  |-> f[k - 1].time + Tick]]

LEMMA LoopExists ==
  ASSUME NEW s, NEW start
  PROVE  \A n \in Nat : \E f : LoopUpTo(f, n, s, start)
<1> DEFINE T == {n \in Nat : \E f : LoopUpTo(f, n, s, start)}
           first == [state |-> s, time |-> start]
           After(f, k) == [state |-> EvaluateCubic(f[k - 1].state, Tick),
                           time  |-> f[k - 1].time + Tick]
<1>1. 0 \in T
  <2> DEFINE f == [k \in 0 .. 0 |-> first]
  <2>1. LoopUpTo(f, 0, s, start)
    BY DEF LoopUpTo
  <2> HIDE DEF f
  <2> QED
    BY <2>1
<1>2. ASSUME NEW n \in T
      PROVE  n + 1 \in T
  <2>1. n \in Nat
    OBVIOUS
  <2>2. PICK f : LoopUpTo(f, n, s, start)
    OBVIOUS
  <2> DEFINE g == [k \in 0 .. n + 1 |-> IF k = 0 THEN first ELSE After(f, k)]
  <2>3. \A k \in 0 .. n : f[k] = IF k = 0 THEN first ELSE After(f, k)
    BY <2>1, <2>2 DEF LoopUpTo
  <2>4. \A k \in 0 .. n : g[k] = f[k]
    <3>1. \A k \in 0 .. n : k \in 0 .. n + 1
      BY <2>1
    <3> HIDE DEF After, first
    <3> QED
      BY <2>3, <3>1
  <2>5. \A k \in 0 .. n + 1 : k # 0 => g[k - 1] = f[k - 1]
    <3>1. \A k \in 0 .. n + 1 : k # 0 => k - 1 \in 0 .. n
      BY <2>1
    <3> HIDE DEF g
    <3> QED
      BY <2>4, <3>1, Zenon
  <2>6. g = [k \in 0 .. n + 1 |-> IF k = 0 THEN first ELSE After(g, k)]
    BY <2>5, Zenon
  <2> HIDE DEF g
  <2>7. LoopUpTo(g, n + 1, s, start)
    BY <2>6 DEF LoopUpTo
  <2> QED
    BY <2>1, <2>7
<1> HIDE DEF T
<1>3. T = Nat
  <2>1. T \in SUBSET Nat
    BY DEF T
  <2> QED
    BY <1>1, <1>2, <2>1, NatInduct
<1> QED
  BY <1>3 DEF T

\* f is what the loop of the second cubic goes through.
BeyondRun(f, s, start, count) ==
  /\ Beyond(s, start, count)
       = [k \in 1 .. count |-> Point(f[k].state.position, f[k].state.velocity, f[k].time)]
  /\ f[0].state = s /\ f[0].time = start
  /\ \A k \in 1 .. count : /\ f[k].state = EvaluateCubic(f[k - 1].state, Tick)
                          /\ f[k].time = f[k - 1].time + Tick

LEMMA BeyondLoop ==
  ASSUME NEW s, NEW start, NEW count \in Nat
  PROVE  \E f : BeyondRun(f, s, start, count)
<1> DEFINE f == CHOOSE f : LoopUpTo(f, count, s, start)
<1>1. LoopUpTo(f, count, s, start)
  BY LoopExists, Zenon
<1>2. Beyond(s, start, count)
        = [k \in 1 .. count |-> Point(f[k].state.position, f[k].state.velocity,
                                     f[k].time)]
  BY Zenon DEF Beyond, LoopUpTo
<1> HIDE DEF f
<1>3. /\ f[0].state = s /\ f[0].time = start
      /\ \A k \in 1 .. count : /\ f[k].state = EvaluateCubic(f[k - 1].state, Tick)
                              /\ f[k].time = f[k - 1].time + Tick
  BY <1>1 DEF LoopUpTo
<1>4. BeyondRun(f, s, start, count)
  BY <1>2, <1>3 DEF BeyondRun
<1> QED
  BY <1>4

\* The times that the second cubic adds up.
LEMMA BeyondPoints ==
  ASSUME NEW estimate, NEW start \in Int, NEW count \in Nat
  PROVE  LET c == Beyond(estimate, start, count)
         IN  /\ c = [i \in 1 .. count |-> c[i]]
             /\ \A i \in 1 .. count : c[i].time = start + i * Tick
<1> DEFINE c == Beyond(estimate, start, count)
<1>0. PICK f : BeyondRun(f, estimate, start, count)
  BY BeyondLoop
<1>1. /\ c = [k \in 1 .. count |-> Point(f[k].state.position, f[k].state.velocity,
                                         f[k].time)]
      /\ f[0].time = start
      /\ \A k \in 1 .. count : f[k].time = f[k - 1].time + Tick
  BY <1>0 DEF BeyondRun
<1> HIDE DEF c
<1>2. Tick \in Int
  BY ParamsAssumption, PrimeNat
<1> DEFINE T == {k \in Nat : k <= count => f[k].time = start + k * Tick}
<1>3. 0 \in T
  <2>1. 0 * Tick = 0
    BY <1>2
  <2> QED
    BY <1>1, <2>1
<1>4. ASSUME NEW k \in T
      PROVE  k + 1 \in T
  <2>1. k \in Nat /\ k + 1 \in Nat
    OBVIOUS
  <2> SUFFICES ASSUME k + 1 <= count PROVE f[k + 1].time = start + (k + 1) * Tick
    BY <2>1
  <2>2. k + 1 \in 1 .. count /\ (k + 1) - 1 = k /\ f[k].time = start + k * Tick
    BY <2>1
  <2>3. f[k + 1].time = (start + k * Tick) + Tick
    BY <1>1, <2>2
  <2>4. k * Tick \in Int /\ k * Tick + Tick = (k + 1) * Tick
    BY <1>2, <2>1
  <2> QED
    BY <1>2, <2>3, <2>4
<1> HIDE DEF T
<1>5. T = Nat
  <2>1. T \in SUBSET Nat
    BY DEF T
  <2> QED
    BY <1>3, <1>4, <2>1, NatInduct
<1>6. \A k \in 1 .. count : f[k].time = start + k * Tick
  BY <1>5 DEF T
<1>7. \A k \in 1 .. count : c[k].time = start + k * Tick
  BY <1>1, <1>6 DEF Point
<1>8. c = [i \in 1 .. count |-> c[i]]
  BY <1>1
<1> QED
  BY <1>7, <1>8 DEF c

\* A prediction is none before the filter is stable; then it has the points of
\* the connector and as many beyond them as PredictedCounts allows.
LEMMA PredictionPoints ==
  ASSUME NEW tip, ConstructPrediction(tip), lastTime \in Nat
  PROVE  \/ /\ ~ IsStable
            /\ output'.points = <<>> /\ output'.connector = 0
         \/ /\ IsStable
            /\ \E n \in ConnectorSizes, count \in PredictedCounts :
                 /\ output'.connector = n
                 /\ count \in Nat =>
                      /\ Len(output'.points) = n + count
                      /\ DOMAIN output'.points = 1 .. n + count
                      /\ \A k \in 1 .. n + count :
                           output'.points[k].time = lastTime + k * Tick
<1>1. CASE ~ IsStable
  BY <1>1 DEF ConstructPrediction
<1>2. CASE IsStable
  <2> DEFINE estimate == IF Span = 0 THEN NotFinite ELSE EstimatedState
  <2>1. PICK n \in ConnectorSizes, count \in PredictedCounts :
          LET c == Connector(tip, estimate, n)
          IN  output' = [tip |-> tip, estimate |-> estimate, connector |-> n,
                         points |-> c \o Beyond(estimate, StartAfter(c), count)]
    BY <1>2 DEF ConstructPrediction
  <2> HIDE DEF estimate
  <2>2. SUFFICES ASSUME count \in Nat
                 PROVE  /\ Len(output'.points) = n + count
                        /\ DOMAIN output'.points = 1 .. n + count
                        /\ \A k \in 1 .. n + count :
                             output'.points[k].time = lastTime + k * Tick
    BY <1>2, <2>1
  <2>3. n \in Nat \ {0} /\ Tick \in Nat
    BY InputsAssumption, ParamsAssumption, PrimeNat
  <2> DEFINE c == Connector(tip, estimate, n)
             start == StartAfter(c)
             b == Beyond(estimate, start, count)
  <2>4. /\ c = [i \in 1 .. n |-> c[i]]
        /\ \A i \in 1 .. n : c[i].time = lastTime + i * Tick
        /\ start = lastTime + n * Tick
    BY <2>3, ConnectorPoints
  <2>5. /\ b = [i \in 1 .. count |-> b[i]]
        /\ \A i \in 1 .. count : b[i].time = (lastTime + n * Tick) + i * Tick
    <3>1. start \in Int
      BY <2>3, <2>4
    <3>2. start = lastTime + n * Tick
      BY <2>4
    <3> HIDE DEF start
    <3>3. /\ b = [i \in 1 .. count |-> b[i]]
          /\ \A i \in 1 .. count : b[i].time = start + i * Tick
      BY <2>2, <3>1, BeyondPoints
    <3> HIDE DEF b
    <3> QED
      BY <3>2, <3>3
  <2> DEFINE all == c \o b
  <2>6. output'.points = all
    BY <2>1
  <2> HIDE DEF c, b, start
  <2>7. /\ Len(all) = n + count
        /\ DOMAIN all = 1 .. n + count
        /\ \A i \in 1 .. n + count : all[i] = IF i <= n THEN c[i] ELSE b[i - n]
    BY <2>2, <2>3, <2>4, <2>5, ConcatFunctions
  <2> HIDE DEF all
  <2>8. ASSUME NEW k \in 1 .. n + count
        PROVE  all[k].time = lastTime + k * Tick
    <3>0. k \in Int /\ n \in Int /\ count \in Int /\ 1 <= k /\ k <= n + count
      BY <2>2, <2>3
    <3>1. CASE k <= n
      <4>1. k \in 1 .. n
        BY <3>0, <3>1
      <4> QED
        BY <2>4, <2>7, <3>1, <4>1
    <3>2. CASE k > n
      <4>1. k - n \in 1 .. count /\ ~ (k <= n)
        BY <3>0, <3>2
      <4>2. all[k] = b[k - n]
        BY <2>7, <4>1
      <4>3. b[k - n].time = (lastTime + n * Tick) + (k - n) * Tick
        BY <2>5, <4>1
      <4>4. n * Tick + (k - n) * Tick = k * Tick
        BY <2>3, <3>0
      <4>5. n * Tick \in Nat /\ (k - n) * Tick \in Nat
        BY <2>3, <4>1
      <4> QED
        BY <4>2, <4>3, <4>4, <4>5
    <3>3. k <= n \/ k > n
      BY <3>0
    <3> QED
      BY <3>1, <3>2, <3>3
  <2> QED
    BY <2>6, <2>7, <2>8
<1> QED
  BY <1>1, <1>2

LEMMA CountsAreNat ==
  ASSUME params \in Params, filter.iterations \in Nat
  PROVE  PredictedCounts \subseteq Nat
<1>1. /\ params.desiredNumberOfSamples \in Nat \ {0}
      /\ Interval \in Nat \ {0} /\ Tick \in Nat \ {0}
  BY ParamsNat, ParamsAssumption, PrimeNat
<1> DEFINE d == params.desiredNumberOfSamples
           n == IF filter.iterations <= d THEN filter.iterations ELSE d
           most == CeilDiv(Interval * n, Tick * d)
<1>2. n \in Nat
  BY <1>1
<1>3. PredictedCounts = IF Span = 0 THEN {0} ELSE 0 .. most
  BY <1>1, MinOfTwo DEF PredictedCounts
<1>4. Tick * d \in Nat \ {0} /\ Interval * n \in Nat
  BY <1>1, <1>2
<1>5. most \in Int
  BY <1>4 DEF CeilDiv
<1> HIDE DEF most
<1> QED
  BY <1>3, <1>5

OutputInv == PredictsFromStableOn /\ PredictionAdvances

LEMMA PredictionMeetsOutputInv ==
  ASSUME StrokeInv, NEW tip, ConstructPrediction(tip)
  PROVE  OutputInv'
<1>1. /\ params' = params /\ lastTime' = lastTime /\ history' = history
      /\ lastTime \in Nat
  BY DEF ConstructPrediction, StrokeInv, Knows
<1>2. /\ Len(history.now) = filter.iterations /\ filter.iterations \in Nat
  BY LenProperties DEF StrokeInv, Knows
<1>3. params \in Params
  BY DEF StrokeInv
<1>4. Len(<<>>) = 0 /\ DOMAIN <<>> = {}
  BY EmptySeq
<1>6. CASE ~ IsStable
  <2>1. output'.points = <<>> /\ output'.connector = 0
    BY <1>1, <1>6, PredictionPoints
  <2>2. PredictsFromStableOn'
    BY <1>1, <1>2, <1>6, <2>1 DEF PredictsFromStableOn, IsStable
  <2>3. PredictionAdvances'
    BY <1>4, <2>1 DEF PredictionAdvances
  <2> QED
    BY <2>2, <2>3 DEF OutputInv
<1>7. CASE IsStable
  <2>1. PICK n \in ConnectorSizes, count \in PredictedCounts :
          /\ output'.connector = n
          /\ count \in Nat =>
               /\ Len(output'.points) = n + count
               /\ DOMAIN output'.points = 1 .. n + count
               /\ \A k \in 1 .. n + count :
                    output'.points[k].time = lastTime + k * Tick
    BY <1>1, <1>7, PredictionPoints
  <2>2. count \in Nat
    BY <1>2, <1>3, CountsAreNat
  <2>3. n \in Nat \ {0}
    BY InputsAssumption, PrimeNat
  <2>4. Len(output'.points) = n + count
    BY <2>1, <2>2
  <2>5. output'.points # <<>>
    BY <1>4, <2>2, <2>3, <2>4
  <2>6. PredictsFromStableOn'
    BY <1>1, <1>2, <1>7, <2>5 DEF PredictsFromStableOn, IsStable
  <2>7. PredictionAdvances'
    BY <1>1, <2>1, <2>2 DEF PredictionAdvances
  <2> QED
    BY <2>6, <2>7 DEF OutputInv
<1> QED
  BY <1>6, <1>7

LEMMA OutputInvHolds == Spec => []OutputInv
<1>1. Init => OutputInv
  BY DEF Init, OutputInv, PredictsFromStableOn, PredictionAdvances
<1>2. StrokeInv /\ OutputInv /\ [Next]_vars => OutputInv'
  <2> SUFFICES ASSUME StrokeInv, OutputInv, [Next]_vars
               PROVE  OutputInv'
    OBVIOUS
  <2>1. ASSUME NEW tip \in Tips, ConstructPrediction(tip)
        PROVE  OutputInv'
    BY <2>1, PredictionMeetsOutputInv
  <2>2. ASSUME output' = NoOutput
        PROVE  OutputInv'
    BY <2>2 DEF OutputInv, PredictsFromStableOn, PredictionAdvances
  <2>3. \/ output' = NoOutput
        \/ \E tip \in Tips : ConstructPrediction(tip)
        \/ UNCHANGED vars
    BY DEF Next, ResetAndUpdate, Update, EndStroke, Save, Restore
  <2>4. CASE UNCHANGED vars
    BY <2>4 DEF vars, OutputInv, PredictsFromStableOn, PredictionAdvances
  <2> QED
    BY <2>1, <2>2, <2>3, <2>4
<1> QED
  BY <1>1, <1>2, StrokeInvHolds, PTL DEF Spec

\* There is a prediction exactly from min_stable_iteration inputs of the stroke
\* on, whatever strokes, Saves and Restores were before
\* (kalman_predictor.cc:109-116).
THEOREM StableCorrect == Spec => []PredictsFromStableOn
BY OutputInvHolds, PTL DEF OutputInv

\* The points are one step of the output rate apart from the tip on, although the
\* connector divides its duration and the cubic beyond it adds up steps from where
\* the connector ended (kalman_predictor.cc:118-136, 214-220).
THEOREM AdvancesCorrect == Spec => []PredictionAdvances
BY OutputInvHolds, PTL DEF OutputInv

-----------------------------------------------------------------------------
(* The field *)

\* Equal in the field.
Same(a, b) == Congruent(a, b, Prime)

LEMMA SameIs ==
  ASSUME NEW a \in Int
  PROVE  /\ a % Prime \in Field /\ a % Prime \in Int
         /\ Same(a, a) /\ Same(a % Prime, a) /\ Same(a, a % Prime)
<1>1. Prime \in Nat \ {0}
  BY PrimeNat
<1> QED
  BY <1>1, CongruentIs DEF Same, Field

LEMMA SameTrans ==
  ASSUME NEW a \in Int, NEW b \in Int, NEW c \in Int, Same(a, b), Same(b, c)
  PROVE  Same(a, c)
<1>1. Prime \in Nat \ {0}
  BY PrimeNat
<1> QED
  BY <1>1, CongruentTrans DEF Same

LEMMA SameSym ==
  ASSUME NEW a \in Int, NEW b \in Int, Same(a, b)
  PROVE  Same(b, a)
<1>1. Prime \in Nat \ {0}
  BY PrimeNat
<1> QED
  BY <1>1, CongruentSym DEF Same

LEMMA SameOf ==
  ASSUME NEW a \in Int, NEW b \in Int, NEW c \in Int, NEW d \in Int, Same(a, b), Same(c, d)
  PROVE  Same(a + c, b + d) /\ Same(a - c, b - d) /\ Same(a * c, b * d)
<1>1. Prime \in Nat \ {0}
  BY PrimeNat
<1> QED
  BY <1>1, CongruentOf DEF Same

\* In the field, what is the same is equal.
LEMMA SameInField ==
  /\ \A a, b \in Field : Same(a, b) => a = b
  /\ \A a, b \in Int : Same(a, b) => a % Prime = b % Prime
  /\ \A a \in Field : a \in Int /\ a % Prime = a
<1>1. Prime \in Nat \ {0}
  BY PrimeNat
<1>2. \A a, b \in Field : Same(a, b) => a = b
  BY <1>1, CongruentSmall DEF Same, Field
<1>3. \A a, b \in Int : Same(a, b) => a % Prime = b % Prime
  BY <1>1, SameRemainder DEF Same
<1>4. \A a \in Field : a \in Int
  BY <1>1 DEF Field
<1>5. \A a \in Field : a % Prime = a
  BY <1>2, <1>4, SameIs
<1> QED
  BY <1>2, <1>3, <1>4, <1>5

\* All but 0 have an inverse: the least that had none would leave a smaller one,
\* the remainder of Prime, without.
LEMMA InverseExists ==
  \A a \in 1 .. Prime - 1 : \E b \in Field : (a * b) % Prime = 1
<1> DEFINE Lone == {a \in 1 .. Prime - 1 : ~ \E b \in Field : (a * b) % Prime = 1}
<1>1. SUFFICES ASSUME Lone # {} PROVE FALSE
  OBVIOUS
<1>2. Prime \in Nat /\ Prime > 6
  BY PrimeNat
<1>3. PICK m \in Lone : \A y \in Lone : m <= y
  <2>1. Lone \in SUBSET Nat
    BY <1>2
  <2>2. \A V \in SUBSET Nat : V # {} => \E v \in V : \A y \in V : v <= y
    BY LeastOf
  <2> HIDE DEF Lone
  <2> QED
    BY <1>1, <2>1, <2>2
<1>4. m \in 1 .. Prime - 1 /\ m \in Nat \ {0}
  BY <1>2
<1>5. m # 1
  <2>1. 1 \in Field /\ 1 * 1 = 1
    BY <1>2 DEF Field
  <2>2. (1 * 1) % Prime = 1
    BY <2>1, SameInField
  <2> QED
    BY <1>3, <2>1, <2>2
<1> DEFINE r == Prime % m
<1>6. PICK q \in Int : Prime = q * m + r
  <2>1. Prime \in Int
    BY <1>2
  <2> QED
    BY <1>4, <2>1, RemainderIs, Zenon
<1>7. r \in 1 .. m - 1
  <2>1. r \in 0 .. m - 1
    BY <1>2, <1>4, RemainderIs
  <2>2. r # 0
    <3>1. m \in 2 .. Prime - 1
      BY <1>2, <1>4, <1>5
    <3> HIDE DEF Lone
    <3> QED
      BY <3>1, PrimeAssumption, Zenon
  <2> HIDE DEF r
  <2> QED
    BY <2>1, <2>2
<1> HIDE DEF r
<1>8. r \in 1 .. Prime - 1 /\ r \notin Lone /\ r \in Int
  <2>1. r \in 1 .. Prime - 1 /\ r \in Int /\ ~ (m <= r)
    BY <1>2, <1>4, <1>7
  <2> HIDE DEF Lone
  <2> QED
    BY <1>3, <2>1
<1>9. PICK s \in Field : (r * s) % Prime = 1
  BY <1>8
<1>10. s \in Int
  BY SameInField
<1> DEFINE c == (-q) * s
           b == c % Prime
<1>11. c \in Int /\ b \in Field /\ b \in Int /\ Same(b, c)
  <2>1. c \in Int
    BY <1>10
  <2> QED
    BY <2>1, SameIs
<1>12. m * c = r * s + (-s) * Prime
  BY <1>2, <1>4, <1>6, <1>8, <1>10
<1> HIDE DEF b, c
<1>13. Same(m * b, m * c)
  BY <1>4, <1>11, SameIs, SameOf
<1>14. Same(m * c, r * s)
  <2>1. -s \in Int
    BY <1>10
  <2> QED
    BY <1>12, <2>1 DEF Same, Congruent
<1>15. m * b \in Int /\ m * c \in Int /\ r * s \in Int
  BY <1>4, <1>8, <1>10, <1>11
<1>16. Same(m * b, r * s)
  BY <1>13, <1>14, <1>15, SameTrans
<1>17. (m * b) % Prime = 1
  BY <1>9, <1>15, <1>16, SameInField
<1> QED
  BY <1>3, <1>11, <1>17

LEMMA ReciprocalIs ==
  \A a \in Field : /\ Reciprocal[a] \in Field /\ Reciprocal[a] \in Int
                   /\ a # 0 => Same(a * Reciprocal[a], 1)
                   /\ a = 0 => Reciprocal[a] = 0
<1> SUFFICES ASSUME NEW a \in Field
             PROVE  /\ Reciprocal[a] \in Field /\ Reciprocal[a] \in Int
                    /\ a # 0 => Same(a * Reciprocal[a], 1)
                    /\ a = 0 => Reciprocal[a] = 0
  OBVIOUS
<1>1. CASE a = 0
  <2>1. Reciprocal[a] = 0
    BY <1>1 DEF Reciprocal
  <2>2. 0 \in Field
    BY PrimeNat DEF Field
  <2> QED
    BY <1>1, <2>1, <2>2
<1>2. CASE a # 0
  <2>1. a \in 1 .. Prime - 1 /\ a \in Int
    BY <1>2, PrimeNat DEF Field
  <2>2. Reciprocal[a] = CHOOSE b \in Field : (a * b) % Prime = 1
    BY <1>2 DEF Reciprocal
  <2>3. \E b \in Field : (a * b) % Prime = 1
    BY <2>1, InverseExists
  <2> DEFINE b == Reciprocal[a]
  <2>4. b \in Field /\ (a * b) % Prime = 1
    BY <2>2, <2>3
  <2> HIDE DEF b
  <2>5. b \in Int /\ a * b \in Int
    BY <2>1, <2>4, SameInField
  <2>6. Same(a * b, 1)
    <3>1. Same(a * b, (a * b) % Prime)
      BY <2>5, SameIs
    <3> QED
      BY <2>4, <3>1
  <2> QED
    BY <1>2, <2>4, <2>5, <2>6 DEF b
<1> QED
  BY <1>1, <1>2

\* Quotients.
LEMMA OverIs ==
  ASSUME NEW a \in Int, NEW b \in Int
  PROVE  /\ Over(a, b) \in Field /\ Over(a, b) \in Int
         /\ Same(Over(a, b), a * Reciprocal[b % Prime])
         /\ Reciprocal[b % Prime] \in Int
<1>1. Reciprocal[b % Prime] \in Int
  BY SameIs, ReciprocalIs
<1> DEFINE c == a * Reciprocal[b % Prime]
<1>2. c \in Int
  BY <1>1
<1>3. Over(a, b) = c % Prime
  BY DEF Over
<1> HIDE DEF c
<1>4. Over(a, b) \in Field /\ Over(a, b) \in Int /\ Same(Over(a, b), c)
  BY <1>2, <1>3, SameIs
<1> QED
  BY <1>1, <1>4 DEF c


-----------------------------------------------------------------------------
(* Vectors and matrices *)

VecType == [1 .. 4 -> Field]
MatrixType == [1 .. 4 -> VecType]

LEMMA UpToFour == \A i \in 1 .. 4 : i = 1 \/ i = 2 \/ i = 3 \/ i = 4
OBVIOUS

LEMMA Vec4Is ==
  ASSUME NEW S, NEW f, \A i \in 1 .. 4 : f[i] \in S
  PROVE  Vec4(f) \in [1 .. 4 -> S] /\ \A i \in 1 .. 4 : Vec4(f)[i] = f[i]
<1>1. \A a, b, c, d \in S :
        <<a, b, c, d>> \in [1 .. 4 -> S]
  OBVIOUS
<1>2. Vec4(f) \in [1 .. 4 -> S]
  BY <1>1 DEF Vec4
<1>3. \A i \in 1 .. 4 : Vec4(f)[i] = f[i]
  BY UpToFour DEF Vec4
<1> QED
  BY <1>2, <1>3

LEMMA Matrix4Is ==
  ASSUME NEW f, \A i, j \in 1 .. 4 : f[i][j] \in Field
  PROVE  /\ Matrix4(f) \in MatrixType
         /\ \A i, j \in 1 .. 4 : Matrix4(f)[i][j] = f[i][j]
<1> DEFINE Row(i) == Vec4(f[i])
<1>2. \A a, b, c, d \in VecType : <<a, b, c, d>> \in MatrixType
  BY DEF MatrixType
<1>3. \A i \in 1 .. 4 : Row(i) \in VecType
  BY Vec4Is DEF VecType
<1>4. \A i, j \in 1 .. 4 : Row(i)[j] = f[i][j]
  BY Vec4Is
<1>5. Matrix4(f) = <<Row(1), Row(2), Row(3), Row(4)>>
  BY DEF Matrix4
<1> HIDE DEF Row
<1>6. Matrix4(f) \in MatrixType
  <2>1. Row(1) \in VecType /\ Row(2) \in VecType /\ Row(3) \in VecType /\ Row(4) \in VecType
    BY <1>3
  <2> QED
    BY <1>2, <1>5, <2>1
<1>7. \A i \in 1 .. 4 : Matrix4(f)[i] = Row(i)
  BY <1>5, UpToFour
<1> QED
  BY <1>4, <1>6, <1>7

LEMMA EntryIs ==
  /\ \A v \in VecType : \A i \in 1 .. 4 : v[i] \in Field /\ v[i] \in Int
  /\ \A m \in MatrixType : \A i, j \in 1 .. 4 :
        m[i] \in VecType /\ m[i][j] \in Field /\ m[i][j] \in Int
BY SameInField DEF VecType, MatrixType

LEMMA VecEqual ==
  ASSUME NEW u \in VecType, NEW v \in VecType, \A i \in 1 .. 4 : u[i] = v[i]
  PROVE  u = v
BY DEF VecType

LEMMA MatrixEqual ==
  ASSUME NEW m \in MatrixType, NEW n \in MatrixType,
         \A i, j \in 1 .. 4 : m[i][j] = n[i][j]
  PROVE  m = n
<1>1. \A i \in 1 .. 4 : m[i] = n[i]
  BY VecEqual, EntryIs
<1> QED
  BY <1>1 DEF MatrixType

\* The entries of what the operators give.
LEMMA VecPlusIs ==
  ASSUME NEW u \in VecType, NEW v \in VecType
  PROVE  VecPlus(u, v) \in VecType /\ \A i \in 1 .. 4 : VecPlus(u, v)[i] = (u[i] + v[i]) % Prime
<1> DEFINE f == [i \in 1 .. 4 |-> (u[i] + v[i]) % Prime]
<1>1. \A i \in 1 .. 4 : f[i] = (u[i] + v[i]) % Prime
  OBVIOUS
<1>2. \A i \in 1 .. 4 : (u[i] + v[i]) % Prime \in Field
  <2>1. \A i \in 1 .. 4 : u[i] + v[i] \in Int
    BY EntryIs
  <2> QED
    BY <2>1, SameIs
<1>3. VecPlus(u, v) = Vec4(f)
  BY DEF VecPlus
<1> HIDE DEF f
<1> QED
  BY <1>1, <1>2, <1>3, Vec4Is DEF VecType

LEMMA VecScaledIs ==
  ASSUME NEW v \in VecType, NEW k \in Int
  PROVE  VecScaled(v, k) \in VecType /\ \A i \in 1 .. 4 : VecScaled(v, k)[i] = (v[i] * k) % Prime
<1> DEFINE f == [i \in 1 .. 4 |-> (v[i] * k) % Prime]
<1>1. \A i \in 1 .. 4 : f[i] = (v[i] * k) % Prime
  OBVIOUS
<1>2. \A i \in 1 .. 4 : (v[i] * k) % Prime \in Field
  <2>1. \A i \in 1 .. 4 : v[i] * k \in Int
    BY EntryIs
  <2> QED
    BY <2>1, SameIs
<1>3. VecScaled(v, k) = Vec4(f)
  BY DEF VecScaled
<1> HIDE DEF f
<1> QED
  BY <1>1, <1>2, <1>3, Vec4Is DEF VecType

LEMMA TransposeIs ==
  ASSUME NEW m \in MatrixType
  PROVE  /\ Transpose(m) \in MatrixType
         /\ \A i, j \in 1 .. 4 : Transpose(m)[i][j] = m[j][i]
<1> DEFINE f == [i \in 1 .. 4 |-> [j \in 1 .. 4 |-> m[j][i]]]
<1>1. \A i, j \in 1 .. 4 : f[i][j] = m[j][i]
  OBVIOUS
<1>2. Transpose(m) = Matrix4(f)
  BY DEF Transpose
<1> HIDE DEF f
<1>3. \A i, j \in 1 .. 4 : f[i][j] \in Field
  BY <1>1, EntryIs
<1> QED
  BY <1>1, <1>2, <1>3, Matrix4Is

LEMMA IdentityIs ==
  /\ IdentityMatrix \in MatrixType
  /\ \A i, j \in 1 .. 4 : IdentityMatrix[i][j] = IF i = j THEN 1 ELSE 0
<1> DEFINE f == [i \in 1 .. 4 |-> [j \in 1 .. 4 |-> IF i = j THEN 1 ELSE 0]]
<1>1. \A i, j \in 1 .. 4 : f[i][j] = IF i = j THEN 1 ELSE 0
  OBVIOUS
<1>2. IdentityMatrix = Matrix4(f)
  BY DEF IdentityMatrix
<1> HIDE DEF f
<1>3. \A i, j \in 1 .. 4 : f[i][j] \in Field
  BY <1>1, PrimeNat DEF Field
<1> QED
  BY <1>1, <1>2, <1>3, Matrix4Is

LEMMA OuterProductIs ==
  ASSUME NEW u \in VecType, NEW v \in VecType
  PROVE  /\ OuterProduct(u, v) \in MatrixType
         /\ \A i, j \in 1 .. 4 : OuterProduct(u, v)[i][j] = (u[i] * v[j]) % Prime
<1> DEFINE f == [i \in 1 .. 4 |-> [j \in 1 .. 4 |-> (u[i] * v[j]) % Prime]]
<1>1. \A i, j \in 1 .. 4 : f[i][j] = (u[i] * v[j]) % Prime
  OBVIOUS
<1>2. OuterProduct(u, v) = Matrix4(f)
  BY DEF OuterProduct
<1> HIDE DEF f
<1>3. \A i, j \in 1 .. 4 : f[i][j] \in Field
  <2>1. \A i, j \in 1 .. 4 : u[i] * v[j] \in Int
    BY EntryIs
  <2> QED
    BY <1>1, <2>1, SameIs
<1> QED
  BY <1>1, <1>2, <1>3, Matrix4Is

LEMMA MatrixPlusIs ==
  ASSUME NEW m \in MatrixType, NEW n \in MatrixType
  PROVE  /\ MatrixPlus(m, n) \in MatrixType
         /\ \A i, j \in 1 .. 4 : MatrixPlus(m, n)[i][j] = (m[i][j] + n[i][j]) % Prime
<1> DEFINE f == [i \in 1 .. 4 |-> [j \in 1 .. 4 |-> (m[i][j] + n[i][j]) % Prime]]
<1>1. \A i, j \in 1 .. 4 : f[i][j] = (m[i][j] + n[i][j]) % Prime
  OBVIOUS
<1>2. MatrixPlus(m, n) = Matrix4(f)
  BY DEF MatrixPlus
<1> HIDE DEF f
<1>3. \A i, j \in 1 .. 4 : f[i][j] \in Field
  <2>1. \A i, j \in 1 .. 4 : m[i][j] + n[i][j] \in Int
    BY EntryIs
  <2> QED
    BY <1>1, <2>1, SameIs
<1> QED
  BY <1>1, <1>2, <1>3, Matrix4Is

LEMMA MatrixMinusIs ==
  ASSUME NEW m \in MatrixType, NEW n \in MatrixType
  PROVE  /\ MatrixMinus(m, n) \in MatrixType
         /\ \A i, j \in 1 .. 4 : MatrixMinus(m, n)[i][j] = (m[i][j] - n[i][j]) % Prime
<1> DEFINE f == [i \in 1 .. 4 |-> [j \in 1 .. 4 |-> (m[i][j] - n[i][j]) % Prime]]
<1>1. \A i, j \in 1 .. 4 : f[i][j] = (m[i][j] - n[i][j]) % Prime
  OBVIOUS
<1>2. MatrixMinus(m, n) = Matrix4(f)
  BY DEF MatrixMinus
<1> HIDE DEF f
<1>3. \A i, j \in 1 .. 4 : f[i][j] \in Field
  <2>1. \A i, j \in 1 .. 4 : m[i][j] - n[i][j] \in Int
    BY EntryIs
  <2> QED
    BY <1>1, <2>1, SameIs
<1> QED
  BY <1>1, <1>2, <1>3, Matrix4Is

LEMMA MatrixScaledIs ==
  ASSUME NEW m \in MatrixType, NEW k \in Int
  PROVE  /\ MatrixScaled(m, k) \in MatrixType
         /\ \A i, j \in 1 .. 4 : MatrixScaled(m, k)[i][j] = (m[i][j] * k) % Prime
<1> DEFINE f == [i \in 1 .. 4 |-> [j \in 1 .. 4 |-> (m[i][j] * k) % Prime]]
<1>1. \A i, j \in 1 .. 4 : f[i][j] = (m[i][j] * k) % Prime
  OBVIOUS
<1>2. MatrixScaled(m, k) = Matrix4(f)
  BY DEF MatrixScaled
<1> HIDE DEF f
<1>3. \A i, j \in 1 .. 4 : f[i][j] \in Field
  <2>1. \A i, j \in 1 .. 4 : m[i][j] * k \in Int
    BY EntryIs
  <2> QED
    BY <1>1, <2>1, SameIs
<1> QED
  BY <1>1, <1>2, <1>3, Matrix4Is

LEMMA DotProductIs ==
  ASSUME NEW u \in VecType, NEW v \in VecType
  PROVE  /\ DotProduct(u, v) \in Field
         /\ u[1] * v[1] + u[2] * v[2] + u[3] * v[3] + u[4] * v[4] \in Int
         /\ Same(DotProduct(u, v), u[1] * v[1] + u[2] * v[2] + u[3] * v[3] + u[4] * v[4])
<1> DEFINE sum == u[1] * v[1] + u[2] * v[2] + u[3] * v[3] + u[4] * v[4]
<1>1. sum \in Int
  <2>1. /\ u[1] \in Int /\ u[2] \in Int /\ u[3] \in Int /\ u[4] \in Int
        /\ v[1] \in Int /\ v[2] \in Int /\ v[3] \in Int /\ v[4] \in Int
    BY EntryIs
  <2> QED
    BY <2>1
<1>2. DotProduct(u, v) = sum % Prime
  BY DEF DotProduct
<1> HIDE DEF sum
<1>3. DotProduct(u, v) \in Field /\ Same(DotProduct(u, v), sum)
  BY <1>1, <1>2, SameIs
<1> QED
  BY <1>1, <1>3 DEF sum

LEMMA TimesIs ==
  ASSUME NEW m \in MatrixType, NEW n \in MatrixType
  PROVE  /\ Times(m, n) \in MatrixType
         /\ \A i, j \in 1 .. 4 : Times(m, n)[i][j] = DotProduct(m[i], Transpose(n)[j])
<1> DEFINE t == Transpose(n)
           f == [i \in 1 .. 4 |-> [j \in 1 .. 4 |-> DotProduct(m[i], t[j])]]
<1>1. \A i, j \in 1 .. 4 : f[i][j] = DotProduct(m[i], t[j])
  OBVIOUS
<1>2. Times(m, n) = Matrix4(f)
  BY DEF Times
<1>3. t \in MatrixType
  BY TransposeIs
<1> HIDE DEF f, t
<1>4. \A i, j \in 1 .. 4 : f[i][j] \in Field
  BY <1>1, <1>3, EntryIs, DotProductIs
<1> QED
  BY <1>1, <1>2, <1>4, Matrix4Is DEF t

LEMMA TimesVecIs ==
  ASSUME NEW m \in MatrixType, NEW v \in VecType
  PROVE  /\ TimesVec(m, v) \in VecType
         /\ \A i \in 1 .. 4 : TimesVec(m, v)[i] = DotProduct(m[i], v)
<1> DEFINE f == [i \in 1 .. 4 |-> DotProduct(m[i], v)]
<1>1. \A i \in 1 .. 4 : f[i] = DotProduct(m[i], v)
  OBVIOUS
<1>2. TimesVec(m, v) = Vec4(f)
  BY DEF TimesVec
<1> HIDE DEF f
<1>3. \A i \in 1 .. 4 : f[i] \in Field
  BY <1>1, EntryIs, DotProductIs
<1> QED
  BY <1>1, <1>2, <1>3, Vec4Is DEF VecType

LEMMA VecTimesIs ==
  ASSUME NEW v \in VecType, NEW m \in MatrixType
  PROVE  /\ VecTimes(v, m) \in VecType
         /\ \A i \in 1 .. 4 : VecTimes(v, m)[i] = DotProduct(v, Transpose(m)[i])
<1> DEFINE t == Transpose(m)
           f == [i \in 1 .. 4 |-> DotProduct(v, t[i])]
<1>1. \A i \in 1 .. 4 : f[i] = DotProduct(v, t[i])
  OBVIOUS
<1>2. VecTimes(v, m) = Vec4(f)
  BY DEF VecTimes
<1>3. t \in MatrixType
  BY TransposeIs
<1> HIDE DEF f, t
<1>4. \A i \in 1 .. 4 : f[i] \in Field
  BY <1>1, <1>3, EntryIs, DotProductIs
<1> QED
  BY <1>1, <1>2, <1>4, Vec4Is DEF VecType, t


-----------------------------------------------------------------------------
(* The filter *)

LEMMA FilterConstants ==
  /\ StateTransition \in MatrixType /\ ProcessNoiseCovariance \in MatrixType
  /\ MeasurementVector \in VecType /\ <<0, 0, 0, 0>> \in VecType
  /\ MeasurementNoise \in Int
<1>1. \A a, b, c, d \in Field : <<a, b, c, d>> \in VecType
  BY DEF VecType
<1>2. \A a, b, c, d \in VecType : <<a, b, c, d>> \in MatrixType
  BY DEF MatrixType
<1>3. 0 \in Field /\ 1 \in Field /\ 2 \in Field /\ 6 \in Field
  BY PrimeNat DEF Field
<1>4. Half \in Field /\ Sixth \in Field
  BY <1>3, ReciprocalIs DEF Half, Sixth
<1>5. ProcessNoise \in Int /\ MeasurementNoise \in Int
  BY NoiseAssumption, PrimeNat
<1>6. StateTransition \in MatrixType
  <2>1. /\ <<1, 1, Half, Sixth>> \in VecType /\ <<0, 1, 1, Half>> \in VecType
        /\ <<0, 0, 1, 1>> \in VecType /\ <<0, 0, 0, 1>> \in VecType
    BY <1>1, <1>3, <1>4
  <2> QED
    BY <1>2, <2>1 DEF StateTransition
<1>7. ProcessNoiseVector \in VecType
  BY <1>1, <1>3, <1>4 DEF ProcessNoiseVector
<1>8. ProcessNoiseCovariance \in MatrixType
  BY <1>5, <1>7, OuterProductIs, MatrixScaledIs DEF ProcessNoiseCovariance
<1>9. MeasurementVector \in VecType /\ <<0, 0, 0, 0>> \in VecType
  BY <1>1, <1>3 DEF MeasurementVector
<1> QED
  BY <1>5, <1>6, <1>8, <1>9

LEMMA FilterFields ==
  \A f \in FilterType :
    f.estimate \in VecType /\ f.covariance \in MatrixType /\ f.iterations \in Nat
BY DEF FilterType, VecType, MatrixType

LEMMA FilterOf ==
  ASSUME NEW e \in VecType, NEW c \in MatrixType, NEW n \in Nat
  PROVE  [estimate |-> e, covariance |-> c, iterations |-> n] \in FilterType
BY DEF FilterType, VecType, MatrixType

LEMMA FilterEqual ==
  ASSUME NEW f \in FilterType, NEW g \in FilterType, f.estimate = g.estimate,
         f.covariance = g.covariance, f.iterations = g.iterations
  PROVE  f = g
BY DEF FilterType

LEMMA NewFilterIs ==
  NewFilter \in FilterType /\ NewFilter.iterations = 0
<1>1. NewFilter \in FilterType
  BY FilterConstants, IdentityIs, FilterOf DEF NewFilter
<1> QED
  BY <1>1 DEF NewFilter

\* Whatever the filter was, Reset makes it a new one.
LEMMA ResetIsNew ==
  ASSUME NEW f \in FilterType
  PROVE  FilterReset(f) = NewFilter
<1>1. /\ FilterReset(f) \in FilterType
      /\ FilterReset(f).estimate = <<0, 0, 0, 0>>
      /\ FilterReset(f).covariance = IdentityMatrix
      /\ FilterReset(f).iterations = 0
  <2>1. <<0, 0, 0, 0>> \in VecType /\ IdentityMatrix \in MatrixType
    BY FilterConstants, IdentityIs
  <2> QED
    BY <2>1 DEF FilterReset, FilterType, VecType, MatrixType
<1>2. /\ NewFilter.estimate = <<0, 0, 0, 0>>
      /\ NewFilter.covariance = IdentityMatrix /\ NewFilter.iterations = 0
  BY DEF NewFilter
<1> QED
  BY <1>1, <1>2, NewFilterIs, FilterEqual

\* The parts of a filter after each step.
PredictedCovariance(P) ==
  MatrixPlus(Times(Times(StateTransition, P), Transpose(StateTransition)),
             ProcessNoiseCovariance)

LEMMA PredictIs ==
  ASSUME NEW f \in FilterType
  PROVE  /\ FilterPredict(f) \in FilterType
         /\ FilterPredict(f).estimate = TimesVec(StateTransition, f.estimate)
         /\ FilterPredict(f).covariance = PredictedCovariance(f.covariance)
         /\ FilterPredict(f).iterations = f.iterations
<1> DEFINE e == TimesVec(StateTransition, f.estimate)
           c == PredictedCovariance(f.covariance)
<1>1. e \in VecType
  BY FilterConstants, FilterFields, TimesVecIs
<1>2. c \in MatrixType
  BY FilterConstants, FilterFields, TimesIs, TransposeIs, MatrixPlusIs
     DEF PredictedCovariance
<1>3. FilterPredict(f) = [f EXCEPT !.estimate = e, !.covariance = c]
  BY DEF FilterPredict, PredictedCovariance
<1> HIDE DEF e, c
<1>4. /\ FilterPredict(f) \in FilterType
      /\ FilterPredict(f).estimate = e /\ FilterPredict(f).covariance = c
      /\ FilterPredict(f).iterations = f.iterations
  BY <1>1, <1>2, <1>3 DEF FilterType, VecType, MatrixType
<1> QED
  BY <1>4 DEF e, c

Gain(P) ==
  VecScaled(VecTimes(MeasurementVector, P), Reciprocal[InnovationVariance(P)])
Rest(P) == MatrixMinus(IdentityMatrix, OuterProduct(Gain(P), MeasurementVector))
Residual(e, observation) == (observation - DotProduct(MeasurementVector, e)) % Prime
JosephForm(P) ==
  MatrixPlus(Times(Times(Rest(P), P), Transpose(Rest(P))),
             MatrixScaled(OuterProduct(Gain(P), Gain(P)), MeasurementNoise))

LEMMA GainIs ==
  ASSUME NEW P \in MatrixType
  PROVE  /\ InnovationVariance(P) \in Field
         /\ Gain(P) \in VecType /\ Rest(P) \in MatrixType /\ JosephForm(P) \in MatrixType
<1>1. InnovationVariance(P) \in Field
  <2>1. DotProduct(VecTimes(MeasurementVector, P), MeasurementVector) \in Int
    BY FilterConstants, VecTimesIs, DotProductIs, SameInField
  <2>2. DotProduct(VecTimes(MeasurementVector, P), MeasurementVector)
          + MeasurementNoise \in Int
    BY <2>1, FilterConstants
  <2> QED
    BY <2>2, SameIs DEF InnovationVariance
<1>2. Gain(P) \in VecType
  BY <1>1, FilterConstants, ReciprocalIs, VecTimesIs, VecScaledIs DEF Gain
<1>3. Rest(P) \in MatrixType
  BY <1>2, FilterConstants, IdentityIs, OuterProductIs, MatrixMinusIs DEF Rest
<1>4. JosephForm(P) \in MatrixType
  BY <1>2, <1>3, FilterConstants, TimesIs, TransposeIs, OuterProductIs, MatrixScaledIs,
     MatrixPlusIs DEF JosephForm
<1> QED
  BY <1>1, <1>2, <1>3, <1>4

LEMMA CorrectedIs ==
  ASSUME NEW f \in FilterType, NEW observation \in Int
  PROVE  LET P == f.covariance
             residual == Residual(f.estimate, observation)
             g == Corrected(f, observation)
         IN  /\ residual \in Field
             /\ g \in FilterType
             /\ g.estimate = VecPlus(f.estimate, VecScaled(Gain(P), residual))
             /\ g.covariance = JosephForm(P)
             /\ g.iterations = f.iterations
<1> DEFINE P == f.covariance
           residual == Residual(f.estimate, observation)
           e == VecPlus(f.estimate, VecScaled(Gain(P), residual))
           c == JosephForm(P)
<1>1. f.estimate \in VecType /\ P \in MatrixType
  BY FilterFields
<1>2. residual \in Field /\ residual \in Int
  <2>1. DotProduct(MeasurementVector, f.estimate) \in Int
    BY <1>1, FilterConstants, DotProductIs, SameInField
  <2>2. observation - DotProduct(MeasurementVector, f.estimate) \in Int
    BY <2>1
  <2> QED
    BY <2>2, SameIs DEF Residual
<1>3. Corrected(f, observation) = [f EXCEPT !.estimate = e, !.covariance = c]
  BY DEF Corrected, Residual, Gain, Rest, JosephForm
<1> HIDE DEF P, residual
<1>4. e \in VecType /\ c \in MatrixType
  BY <1>1, <1>2, GainIs, VecScaledIs, VecPlusIs
<1> HIDE DEF e, c
<1>5. /\ Corrected(f, observation) \in FilterType
      /\ Corrected(f, observation).estimate = e
      /\ Corrected(f, observation).covariance = c
      /\ Corrected(f, observation).iterations = f.iterations
  BY <1>3, <1>4 DEF FilterType, VecType, MatrixType
<1> QED
  BY <1>2, <1>5 DEF e, c, P, residual

\* An Update of a filter that has observed nothing, and of one that has.
LEMMA UpdateIs ==
  ASSUME NEW f \in FilterType, NEW observation \in Field
  PROVE  LET g == FilterUpdate(f, observation)
             h == Corrected(FilterPredict(f), observation)
         IN  /\ g \in FilterType /\ g.iterations = f.iterations + 1
             /\ f.iterations = 0 =>
                  /\ g.estimate = [f.estimate EXCEPT ![1] = observation]
                  /\ g.covariance = f.covariance
             /\ f.iterations # 0 =>
                  g.estimate = h.estimate /\ g.covariance = h.covariance
<1> DEFINE h == Corrected(FilterPredict(f), observation)
           e == [f.estimate EXCEPT ![1] = observation]
           u == IF f.iterations = 0 THEN [f EXCEPT !.estimate[1] = observation] ELSE h
           g == FilterUpdate(f, observation)
<1>1. h \in FilterType
  BY PredictIs, CorrectedIs, SameInField
<1>2. g = [u EXCEPT !.iterations = f.iterations + 1]
  BY DEF FilterUpdate
<1>3. e \in VecType
  BY FilterFields DEF VecType
<1>4. f.iterations + 1 \in Nat
  BY FilterFields
<1>5. u \in FilterType
  BY <1>1, <1>3 DEF FilterType, VecType, MatrixType
<1>6. g \in FilterType /\ g.iterations = f.iterations + 1
  <2> HIDE DEF u
  <2> QED
    BY <1>2, <1>4, <1>5 DEF FilterType
<1>7. g.estimate = u.estimate /\ g.covariance = u.covariance
  <2> HIDE DEF u
  <2> QED
    BY <1>2, <1>5 DEF FilterType
<1>8. f.iterations = 0 => u.estimate = e /\ u.covariance = f.covariance
  BY DEF FilterType
<1> HIDE DEF g, h, e
<1> QED
  BY <1>6, <1>7, <1>8 DEF g, h, e


-----------------------------------------------------------------------------
(* The filter after a stroke *)

Observed(inputs, shift, k) == (inputs[k].position + shift) % Prime

LEMMA ObservedIs ==
  ASSUME NEW inputs \in Seq(Inputs), NEW shift \in Int
  PROVE  \A k \in 1 .. Len(inputs) :
           /\ inputs[k] \in Inputs /\ inputs[k].position \in Field
           /\ Observed(inputs, shift, k) \in Field
           /\ shift = 0 => Observed(inputs, shift, k) = inputs[k].position
<1> SUFFICES ASSUME NEW k \in 1 .. Len(inputs)
             PROVE  /\ inputs[k] \in Inputs /\ inputs[k].position \in Field
                    /\ Observed(inputs, shift, k) \in Field
                    /\ shift = 0 => Observed(inputs, shift, k) = inputs[k].position
  OBVIOUS
<1>1. inputs[k] \in Inputs
  BY ElementOfSeq
<1>2. inputs[k].position \in Field
  BY <1>1, InputsAssumption
<1> DEFINE p == inputs[k].position
<1>3. p \in Field /\ p \in Int /\ Observed(inputs, shift, k) = (p + shift) % Prime
  BY <1>2, SameInField DEF Observed
<1> HIDE DEF p
<1>4. Observed(inputs, shift, k) \in Field
  <2>1. p + shift \in Int
    BY <1>3
  <2> QED
    BY <1>3, <2>1, SameIs
<1>5. shift = 0 => Observed(inputs, shift, k) = p
  <2>1. shift = 0 => p + shift = p
    BY <1>3
  <2> QED
    BY <1>3, <2>1, SameInField
<1> QED
  BY <1>1, <1>2, <1>4, <1>5 DEF p

\* f holds the filters after the first n inputs.
RunUpTo(f, n, inputs, shift) ==
  f = [k \in 0 .. n |-> IF k = 0 THEN NewFilter
                        ELSE FilterUpdate(f[k - 1], Observed(inputs, shift, k))]

LEMMA RunsExist ==
  ASSUME NEW inputs, NEW shift
  PROVE  \A n \in Nat : \E f : RunUpTo(f, n, inputs, shift)
<1> DEFINE T == {n \in Nat : \E f : RunUpTo(f, n, inputs, shift)}
           After(f, k) == FilterUpdate(f[k - 1], Observed(inputs, shift, k))
<1>1. 0 \in T
  <2> DEFINE f == [k \in 0 .. 0 |-> NewFilter]
  <2>1. RunUpTo(f, 0, inputs, shift)
    BY DEF RunUpTo
  <2> HIDE DEF f
  <2> QED
    BY <2>1
<1>2. ASSUME NEW n \in T
      PROVE  n + 1 \in T
  <2>1. n \in Nat
    OBVIOUS
  <2>2. PICK f : RunUpTo(f, n, inputs, shift)
    OBVIOUS
  <2> DEFINE g == [k \in 0 .. n + 1 |-> IF k = 0 THEN NewFilter ELSE After(f, k)]
  <2>3. \A k \in 0 .. n : f[k] = IF k = 0 THEN NewFilter ELSE After(f, k)
    BY <2>1, <2>2 DEF RunUpTo
  <2>4. \A k \in 0 .. n : g[k] = f[k]
    <3>1. \A k \in 0 .. n : k \in 0 .. n + 1
      BY <2>1
    <3> HIDE DEF After
    <3> QED
      BY <2>3, <3>1
  <2>5. \A k \in 0 .. n + 1 : k # 0 => g[k - 1] = f[k - 1]
    <3>1. \A k \in 0 .. n + 1 : k # 0 => k - 1 \in 0 .. n
      BY <2>1
    <3> HIDE DEF g
    <3> QED
      BY <2>4, <3>1, Zenon
  <2>6. g = [k \in 0 .. n + 1 |-> IF k = 0 THEN NewFilter ELSE After(g, k)]
    BY <2>5, Zenon
  <2> HIDE DEF g
  <2>7. RunUpTo(g, n + 1, inputs, shift)
    BY <2>6 DEF RunUpTo
  <2> QED
    BY <2>1, <2>7
<1> HIDE DEF T
<1>3. T = Nat
  <2>1. T \in SUBSET Nat
    BY DEF T
  <2> QED
    BY <1>1, <1>2, <2>1, NatInduct
<1> QED
  BY <1>3 DEF T

\* f goes from filter to filter through the inputs.
IsRun(f, n, inputs, shift) ==
  /\ f[0] = NewFilter
  /\ \A k \in 1 .. n : f[k] = FilterUpdate(f[k - 1], Observed(inputs, shift, k))

LEMMA FilteredIs ==
  ASSUME NEW inputs \in Seq(Inputs), NEW shift
  PROVE  \E f : /\ IsRun(f, Len(inputs), inputs, shift)
                /\ Filtered(inputs, shift) = f[Len(inputs)]
<1> DEFINE n == Len(inputs)
           f == CHOOSE f : RunUpTo(f, n, inputs, shift)
<1>1. n \in Nat
  BY LenProperties
<1>2. RunUpTo(f, n, inputs, shift)
  BY <1>1, RunsExist, Zenon
<1>3. Filtered(inputs, shift) = f[n]
  BY Zenon DEF Filtered, RunUpTo, Observed
<1> HIDE DEF f, n
<1>4. \A k \in 0 .. n : f[k] = IF k = 0 THEN NewFilter
                               ELSE FilterUpdate(f[k - 1], Observed(inputs, shift, k))
  BY <1>2 DEF RunUpTo
<1>5. IsRun(f, n, inputs, shift)
  BY <1>1, <1>4 DEF IsRun
<1> QED
  BY <1>3, <1>5 DEF n

\* Any two runs agree, and consist of filters.
LEMMA RunsAgree ==
  ASSUME NEW inputs, NEW shift, NEW n \in Nat, NEW f, NEW g,
         IsRun(f, n, inputs, shift), IsRun(g, n, inputs, shift)
  PROVE  f[n] = g[n]
<1> DEFINE T == {k \in Nat : k <= n => f[k] = g[k]}
<1>1. 0 \in T
  BY DEF IsRun
<1>2. ASSUME NEW k \in T
      PROVE  k + 1 \in T
  <2>1. k \in Nat /\ k + 1 \in Nat
    OBVIOUS
  <2> SUFFICES ASSUME k + 1 <= n PROVE f[k + 1] = g[k + 1]
    BY <2>1
  <2>2. k + 1 \in 1 .. n /\ (k + 1) - 1 = k /\ f[k] = g[k]
    BY <2>1
  <2> QED
    BY <2>2 DEF IsRun
<1> HIDE DEF T
<1>3. T = Nat
  <2>1. T \in SUBSET Nat
    BY DEF T
  <2> QED
    BY <1>1, <1>2, <2>1, NatInduct
<1>4. n \in T
  BY <1>3
<1> QED
  BY <1>4 DEF T

LEMMA FilteredBy ==
  ASSUME NEW inputs \in Seq(Inputs), NEW shift, NEW g,
         IsRun(g, Len(inputs), inputs, shift)
  PROVE  Filtered(inputs, shift) = g[Len(inputs)]
<1>1. Len(inputs) \in Nat
  BY LenProperties
<1> QED
  BY <1>1, FilteredIs, RunsAgree

LEMMA FilteredEmpty ==
  ASSUME NEW shift
  PROVE  Filtered(<<>>, shift) = NewFilter
<1>1. <<>> \in Seq(Inputs) /\ Len(<<>>) = 0
  BY EmptySeq
<1> QED
  BY <1>1, FilteredIs DEF IsRun

\* One input more is one Update more.
LEMMA FilteredAppend ==
  ASSUME NEW inputs \in Seq(Inputs), NEW in \in Inputs, NEW shift
  PROVE  Filtered(Append(inputs, in), shift)
           = FilterUpdate(Filtered(inputs, shift), (in.position + shift) % Prime)
<1> DEFINE n == Len(inputs)
           longer == Append(inputs, in)
<1>1. n \in Nat
  BY LenProperties
<1>2. PICK f : IsRun(f, n, inputs, shift) /\ Filtered(inputs, shift) = f[n]
  BY FilteredIs
<1>3. /\ longer \in Seq(Inputs) /\ Len(longer) = n + 1 /\ longer[n + 1] = in
      /\ \A k \in 1 .. n : longer[k] = inputs[k]
  BY AppendProperties
<1>4. /\ Observed(longer, shift, n + 1) = (in.position + shift) % Prime
      /\ \A k \in 1 .. n : Observed(longer, shift, k) = Observed(inputs, shift, k)
  BY <1>3 DEF Observed
<1> HIDE DEF longer, n
<1> DEFINE last == FilterUpdate(f[n], Observed(longer, shift, n + 1))
           g == [k \in 0 .. n + 1 |-> IF k = n + 1 THEN last ELSE f[k]]
<1>5. g[n + 1] = last /\ \A k \in 0 .. n : g[k] = f[k]
  <2> HIDE DEF last
  <2> QED
    BY <1>1
<1> HIDE DEF g
<1>6. IsRun(g, n + 1, longer, shift)
  <2>1. g[0] = NewFilter
    BY <1>1, <1>2, <1>5 DEF IsRun
  <2>2. ASSUME NEW k \in 1 .. n + 1
        PROVE  g[k] = FilterUpdate(g[k - 1], Observed(longer, shift, k))
    <3>1. CASE k = n + 1
      <4>1. k - 1 = n /\ n \in 0 .. n
        BY <1>1, <3>1
      <4> QED
        BY <1>5, <3>1, <4>1
    <3>2. CASE k # n + 1
      <4>1. k \in 1 .. n /\ k \in 0 .. n /\ k - 1 \in 0 .. n
        BY <1>1, <3>2
      <4>2. f[k] = FilterUpdate(f[k - 1], Observed(longer, shift, k))
        BY <1>2, <1>4, <4>1 DEF IsRun
      <4> QED
        BY <1>5, <4>1, <4>2
    <3> QED
      BY <3>1, <3>2
  <2> QED
    BY <2>1, <2>2 DEF IsRun
<1>7. Filtered(longer, shift) = g[n + 1]
  BY <1>3, <1>6, FilteredBy
<1>8. last = FilterUpdate(Filtered(inputs, shift), (in.position + shift) % Prime)
  BY <1>2, <1>4
<1> QED
  BY <1>5, <1>7, <1>8 DEF longer

LEMMA UpdateFiltered ==
  ASSUME NEW inputs \in Seq(Inputs), NEW in \in Inputs
  PROVE  FilterUpdate(Filtered(inputs, 0), in.position) = Filtered(Append(inputs, in), 0)
<1>1. in.position \in Field
  BY InputsAssumption
<1> DEFINE p == in.position
<1> HIDE DEF p
<1>2. (p + 0) % Prime = p
  <2>1. p + 0 = p
    BY <1>1, SameInField DEF p
  <2> QED
    BY <1>1, <2>1, SameInField DEF p
<1> QED
  BY <1>2, FilteredAppend DEF p

\* The filter after a stroke is a filter.
LEMMA RunType ==
  ASSUME NEW inputs \in Seq(Inputs), NEW shift \in Int, NEW f,
         IsRun(f, Len(inputs), inputs, shift)
  PROVE  \A k \in 0 .. Len(inputs) : f[k] \in FilterType /\ f[k].iterations = k
<1> DEFINE n == Len(inputs)
           T == {k \in Nat : k <= n => f[k] \in FilterType /\ f[k].iterations = k}
<1>1. n \in Nat
  BY LenProperties
<1> HIDE DEF n
<1>2. 0 \in T
  BY NewFilterIs DEF IsRun
<1>3. ASSUME NEW k \in T
      PROVE  k + 1 \in T
  <2>1. k \in Nat /\ k + 1 \in Nat
    OBVIOUS
  <2> SUFFICES ASSUME k + 1 <= n
               PROVE  f[k + 1] \in FilterType /\ f[k + 1].iterations = k + 1
    BY <2>1
  <2>2. k + 1 \in 1 .. n /\ (k + 1) - 1 = k /\ f[k] \in FilterType /\ f[k].iterations = k
    BY <1>1, <2>1
  <2>3. Observed(inputs, shift, k + 1) \in Field
    BY <2>2, ObservedIs DEF n
  <2>4. f[k + 1] = FilterUpdate(f[k], Observed(inputs, shift, k + 1))
    BY <2>2 DEF IsRun, n
  <2> QED
    BY <2>2, <2>3, <2>4, UpdateIs
<1> HIDE DEF T
<1>4. T = Nat
  <2>1. T \in SUBSET Nat
    BY DEF T
  <2> QED
    BY <1>2, <1>3, <2>1, NatInduct
<1>5. \A k \in 0 .. n : k \in T /\ k <= n
  BY <1>1, <1>4
<1> QED
  BY <1>5 DEF T, n

LEMMA FilteredType ==
  ASSUME NEW inputs \in Seq(Inputs), NEW shift \in Int
  PROVE  /\ Filtered(inputs, shift) \in FilterType
         /\ Filtered(inputs, shift).iterations = Len(inputs)
<1>1. Len(inputs) \in 0 .. Len(inputs)
  BY LenProperties
<1> QED
  BY <1>1, FilteredIs, RunType


\* The filter is that of the inputs of the stroke, and so is the saved one.
FilterInv ==
  /\ filter = Filtered(history.now, 0)
  /\ saved # NoSave => saved.filter = Filtered(history.saved, 0)

LEMMA FilterInvHolds == Spec => []FilterInv
<1>1. Init => FilterInv
  BY FilteredEmpty DEF Init, FilterInv
<1>2. StrokeInv /\ FilterInv /\ [Next]_vars => FilterInv'
  <2> SUFFICES ASSUME StrokeInv, FilterInv, [Next]_vars
               PROVE  FilterInv'
    OBVIOUS
  <2>1. history.now \in Seq(Inputs)
    BY DEF StrokeInv, Knows
  <2>2. history = [now |-> history.now, saved |-> history.saved]
    BY DEF StrokeInv
  <2>3. filter \in FilterType
    BY <2>1, FilteredType DEF FilterInv
  <2>4. ASSUME NEW in \in Inputs, ResetAndUpdate(in)
        PROVE  FilterInv'
    <3>1. filter' = FilterUpdate(Filtered(<<>>, 0), in.position)
      BY <2>3, <2>4, ResetIsNew, FilteredEmpty DEF ResetAndUpdate
    <3>2. filter' = Filtered(Append(<<>>, in), 0)
      <4>1. <<>> \in Seq(Inputs)
        BY EmptySeq
      <4> QED
        BY <3>1, <4>1, UpdateFiltered
    <3>3. Append(<<>>, in) = <<in>>
      OBVIOUS
    <3>4. history'.now = <<in>> /\ history'.saved = history.saved /\ saved' = saved
      BY <2>2, <2>4 DEF ResetAndUpdate
    <3> QED
      BY <3>2, <3>3, <3>4 DEF FilterInv
  <2>5. ASSUME NEW in \in Inputs, Update(in)
        PROVE  FilterInv'
    <3>1. filter' = Filtered(Append(history.now, in), 0)
      BY <2>1, <2>5, UpdateFiltered DEF Update, FilterInv
    <3>2. /\ history'.now = Append(history.now, in) /\ history'.saved = history.saved
          /\ saved' = saved
      BY <2>2, <2>5 DEF Update
    <3> QED
      BY <3>1, <3>2 DEF FilterInv
  <2>6. ASSUME NEW tip \in Tips, ConstructPrediction(tip)
        PROVE  FilterInv'
    BY <2>6 DEF ConstructPrediction, FilterInv
  <2>7. CASE EndStroke
    BY <2>7 DEF EndStroke, FilterInv
  <2>8. CASE Save
    BY <2>2, <2>8 DEF Save, FilterInv
  <2>9. CASE Restore
    BY <2>2, <2>9 DEF Restore, FilterInv
  <2>10. CASE UNCHANGED vars
    BY <2>10 DEF vars, FilterInv
  <2> QED
    BY <2>4, <2>5, <2>6, <2>7, <2>8, <2>9, <2>10 DEF Next
<1> QED
  BY <1>1, <1>2, StrokeInvHolds, PTL DEF Spec

\* Both filters start over with every stroke, and a copy that is restored is that
\* of the stroke it was made of (kalman_filter.cc:72-76, stroke_modeler.cc:214-217).
THEOREM OfThisStroke == Spec => []FilterIsOfThisStroke
<1>1. FilterInv => FilterIsOfThisStroke
  BY DEF FilterInv, FilterIsOfThisStroke
<1> QED
  BY <1>1, FilterInvHolds, PTL

LEMMA WindowType ==
  ASSUME params \in Params, NEW inputs \in Seq(Inputs)
  PROVE  /\ Window(inputs) \in Seq(Nat) /\ Len(Window(inputs)) <= params.maxTimeSamples
         /\ inputs # <<>> => Window(inputs) # <<>> /\ Len(inputs) > 0
<1> DEFINE n == Len(inputs)
           max == params.maxTimeSamples
           k == IF n <= max THEN n ELSE max
<1>1. n \in Nat /\ max \in Nat \ {0}
  BY LenProperties, ParamsNat
<1>2. Window(inputs) = LatestTimes(inputs, k)
  BY <1>1, MinOfTwo DEF Window
<1>3. k \in 0 .. n /\ k <= max /\ (n > 0 => k > 0)
  BY <1>1
<1> HIDE DEF k
<1>4. LatestTimes(inputs, k) \in Seq(Nat) /\ Len(LatestTimes(inputs, k)) = k
  BY <1>3, LatestTimesType
<1>5. inputs # <<>> => n > 0
  BY <1>1, EmptySeq
<1>6. k > 0 => LatestTimes(inputs, k) # <<>>
  BY <1>4, EmptySeq
<1> QED
  BY <1>2, <1>3, <1>4, <1>5, <1>6

\* The state keeps its types, whatever the arithmetic of the filter gives.
THEOREM TypeCorrect == Spec => []TypeOK
<1>1. StrokeInv /\ FilterInv => TypeOK
  <2> SUFFICES ASSUME StrokeInv, FilterInv PROVE TypeOK
    OBVIOUS
  <2>1. /\ params \in Params /\ history.now \in Seq(Inputs)
        /\ times = Window(history.now)
        /\ lastTime # NoStroke => history.now # <<>> /\ lastTime \in Nat
    BY DEF StrokeInv, Knows
  <2>2. filter \in FilterType /\ filter.iterations = Len(history.now)
    BY <2>1, FilteredType DEF FilterInv
  <2>3. /\ times \in Seq(Nat) /\ Len(times) <= params.maxTimeSamples
        /\ history.now # <<>> => times # <<>> /\ Len(history.now) > 0
    BY <2>1, WindowType
  <2> QED
    BY <2>1, <2>2, <2>3 DEF TypeOK
<1> QED
  BY <1>1, StrokeInvHolds, FilterInvHolds, PTL


-----------------------------------------------------------------------------
(* The same stroke elsewhere *)

\* MeasurementVector measures the position.
LEMMA MeasuredPosition ==
  ASSUME NEW u \in VecType
  PROVE  DotProduct(MeasurementVector, u) = u[1]
<1>1. /\ u[1] \in Field /\ u[1] \in Int /\ u[2] \in Int /\ u[3] \in Int /\ u[4] \in Int
  BY EntryIs
<1> DEFINE sum == 1 * u[1] + 0 * u[2] + 0 * u[3] + 0 * u[4]
<1>2. DotProduct(MeasurementVector, u) = sum % Prime
  BY DEF DotProduct, MeasurementVector
<1>3. sum = u[1]
  BY <1>1
<1> HIDE DEF sum
<1> QED
  BY <1>1, <1>2, <1>3, SameInField

\* v is u but for its position, which is greater by this.
ShiftedVec(u, v, by) ==
  v[1] = (u[1] + by) % Prime /\ \A i \in 2 .. 4 : v[i] = u[i]

ShiftedFilter(f, g, by) ==
  /\ ShiftedVec(f.estimate, g.estimate, by)
  /\ g.covariance = f.covariance /\ g.iterations = f.iterations

LEMMA ShiftedTransition ==
  ASSUME NEW u \in VecType, NEW v \in VecType, NEW by \in Int, ShiftedVec(u, v, by)
  PROVE  ShiftedVec(TimesVec(StateTransition, u), TimesVec(StateTransition, v), by)
<1> DEFINE su == TimesVec(StateTransition, u)
           sv == TimesVec(StateTransition, v)
<1>1. /\ u[1] \in Int /\ u[2] \in Int /\ u[3] \in Int /\ u[4] \in Int
      /\ v[1] \in Int /\ v[2] = u[2] /\ v[3] = u[3] /\ v[4] = u[4]
  BY EntryIs DEF ShiftedVec
<1>2. /\ su \in VecType /\ sv \in VecType
      /\ \A i \in 1 .. 4 : su[i] = DotProduct(StateTransition[i], u)
      /\ \A i \in 1 .. 4 : sv[i] = DotProduct(StateTransition[i], v)
  BY FilterConstants, TimesVecIs
<1>3. Half \in Int /\ Sixth \in Int
  <2>1. 2 \in Field /\ 6 \in Field
    BY PrimeNat DEF Field
  <2> QED
    BY <2>1, ReciprocalIs DEF Half, Sixth
<1> HIDE DEF su, sv
<1>4. sv[1] = (su[1] + by) % Prime
  <2> DEFINE rest == 1 * u[2] + Half * u[3] + Sixth * u[4]
  <2>1. rest \in Int
    BY <1>1, <1>3
  <2>2. su[1] = (1 * u[1] + 1 * u[2] + Half * u[3] + Sixth * u[4]) % Prime
    BY <1>2 DEF DotProduct, StateTransition
  <2>3. sv[1] = (1 * v[1] + 1 * u[2] + Half * u[3] + Sixth * u[4]) % Prime
    BY <1>1, <1>2 DEF DotProduct, StateTransition
  <2>4. 1 * u[1] + 1 * u[2] + Half * u[3] + Sixth * u[4] = u[1] + rest
    BY <1>1, <1>3
  <2>5. 1 * v[1] + 1 * u[2] + Half * u[3] + Sixth * u[4] = v[1] + rest
    BY <1>1, <1>3
  <2> HIDE DEF rest
  <2>6. su[1] \in Int /\ sv[1] \in Field /\ sv[1] \in Int
    BY <1>2, EntryIs
  <2>7. u[1] + rest \in Int /\ v[1] + rest \in Int /\ u[1] + by \in Int /\ su[1] + by \in Int
        /\ (u[1] + by) + rest \in Int /\ (u[1] + rest) + by \in Int
        /\ (u[1] + by) + rest = (u[1] + rest) + by
    BY <1>1, <2>1, <2>6
  <2>8. Same(v[1], u[1] + by)
    BY <2>7, SameIs DEF ShiftedVec
  <2>9. Same(v[1] + rest, (u[1] + rest) + by)
    <3>1. Same(rest, rest)
      BY <2>1, SameIs
    <3>2. Same(v[1] + rest, (u[1] + by) + rest)
      BY <1>1, <2>1, <2>7, <2>8, <3>1, SameOf
    <3> QED
      BY <2>7, <3>2
  <2>10. Same(u[1] + rest, su[1])
    BY <2>2, <2>4, <2>7, SameIs
  <2>11. Same((u[1] + rest) + by, su[1] + by)
    <3>1. Same(by, by)
      BY SameIs
    <3> QED
      BY <2>6, <2>7, <2>10, <3>1, SameOf
  <2>12. Same(v[1] + rest, su[1] + by)
    BY <2>7, <2>9, <2>11, SameTrans
  <2>13. (v[1] + rest) % Prime = (su[1] + by) % Prime
    BY <2>7, <2>12, SameInField
  <2> QED
    BY <2>3, <2>5, <2>13
<1>5. ASSUME NEW i \in 2 .. 4 PROVE sv[i] = su[i]
  <2>1. StateTransition[i][1] = 0
    BY DEF StateTransition
  <2>2. StateTransition[i] \in VecType
    BY FilterConstants, EntryIs
  <2> DEFINE row == StateTransition[i]
  <2>3. row[1] = 0
    BY <2>1
  <2>4. /\ su[i] = (row[1] * u[1] + row[2] * u[2] + row[3] * u[3] + row[4] * u[4]) % Prime
        /\ sv[i] = (row[1] * v[1] + row[2] * u[2] + row[3] * u[3] + row[4] * u[4]) % Prime
    BY <1>1, <1>2 DEF DotProduct
  <2> HIDE DEF row
  <2>5. row[1] * u[1] = row[1] * v[1]
    BY <1>1, <2>3
  <2> QED
    BY <2>4, <2>5
<1> QED
  BY <1>4, <1>5 DEF ShiftedVec, su, sv

\* The residual stays what it was, so that the correction is the same.
LEMMA ShiftedCorrection ==
  ASSUME NEW f \in FilterType, NEW g \in FilterType, NEW by \in Int,
         ShiftedFilter(f, g, by), NEW o \in Field, NEW p \in Field, p = (o + by) % Prime
  PROVE  ShiftedFilter(Corrected(f, o), Corrected(g, p), by)
<1> DEFINE e == f.estimate
           d == g.estimate
           P == f.covariance
           r == Residual(e, o)
           c == VecScaled(Gain(P), r)
<1>1. e \in VecType /\ d \in VecType /\ P \in MatrixType /\ g.covariance = P
  BY FilterFields DEF ShiftedFilter
<1>2. ShiftedVec(e, d, by)
  BY DEF ShiftedFilter
<1> HIDE DEF e, d, P
<1>3. e[1] \in Int /\ d[1] \in Int /\ o \in Int /\ p \in Int
  BY <1>1, EntryIs, SameInField
<1>4. d[1] = (e[1] + by) % Prime
  BY <1>2 DEF ShiftedVec
<1>5. Residual(d, p) = r
  <2>1. o + by \in Int /\ e[1] + by \in Int /\ p - d[1] \in Int /\ o - e[1] \in Int
        /\ (o + by) - (e[1] + by) = o - e[1]
    BY <1>3
  <2>2. Same(p, o + by) /\ Same(d[1], e[1] + by)
    BY <1>4, <2>1, SameIs
  <2>3. Same(p - d[1], (o + by) - (e[1] + by))
    BY <1>3, <2>1, <2>2, SameOf
  <2>4. (p - d[1]) % Prime = (o - e[1]) % Prime
    BY <2>1, <2>3, SameInField
  <2> QED
    BY <1>1, <2>4, MeasuredPosition DEF Residual
<1>6. /\ r \in Field
      /\ Corrected(f, o).estimate = VecPlus(e, c)
      /\ Corrected(f, o).covariance = JosephForm(P)
      /\ Corrected(f, o).iterations = f.iterations
  BY <1>3, CorrectedIs DEF e, P
<1>7. /\ Corrected(g, p).estimate = VecPlus(d, c)
      /\ Corrected(g, p).covariance = JosephForm(P)
      /\ Corrected(g, p).iterations = g.iterations
  BY <1>1, <1>3, <1>5, CorrectedIs DEF d
<1>8. c \in VecType
  BY <1>1, <1>6, GainIs, VecScaledIs, SameInField
<1> HIDE DEF c, r
<1>9. /\ \A i \in 1 .. 4 : VecPlus(e, c)[i] = (e[i] + c[i]) % Prime
      /\ \A i \in 1 .. 4 : VecPlus(d, c)[i] = (d[i] + c[i]) % Prime
      /\ VecPlus(e, c) \in VecType
  BY <1>1, <1>8, VecPlusIs
<1>10. VecPlus(d, c)[1] = (VecPlus(e, c)[1] + by) % Prime
  <2> DEFINE s == VecPlus(e, c)[1]
             x == c[1]
  <2>1. x \in Int /\ s \in Int
    BY <1>8, <1>9, EntryIs
  <2>2. s = (e[1] + x) % Prime /\ VecPlus(d, c)[1] = (d[1] + x) % Prime
    BY <1>9
  <2> HIDE DEF s, x
  <2>3. /\ d[1] + x \in Int /\ (e[1] + by) + x \in Int /\ e[1] + x \in Int /\ s + by \in Int
        /\ e[1] + by \in Int /\ (e[1] + x) + by = (e[1] + by) + x
    BY <1>3, <2>1
  <2>4. Same(d[1], e[1] + by) /\ Same(x, x) /\ Same(by, by) /\ Same(e[1] + x, s)
    BY <1>4, <2>1, <2>2, <2>3, SameIs
  <2>5. Same(d[1] + x, (e[1] + by) + x)
    BY <1>3, <2>1, <2>3, <2>4, SameOf
  <2>6. Same((e[1] + x) + by, s + by)
    BY <2>1, <2>3, <2>4, SameOf
  <2>7. Same(d[1] + x, s + by)
    BY <2>3, <2>5, <2>6, SameTrans
  <2>8. (d[1] + x) % Prime = (s + by) % Prime
    BY <2>3, <2>7, SameInField
  <2> QED
    BY <2>2, <2>8 DEF s, x
<1>11. \A i \in 2 .. 4 : VecPlus(d, c)[i] = VecPlus(e, c)[i]
  <2>1. \A i \in 2 .. 4 : i \in 1 .. 4 /\ d[i] = e[i]
    BY <1>2 DEF ShiftedVec
  <2> QED
    BY <1>9, <2>1
<1>12. ShiftedVec(VecPlus(e, c), VecPlus(d, c), by)
  BY <1>10, <1>11 DEF ShiftedVec
<1> QED
  BY <1>6, <1>7, <1>12 DEF ShiftedFilter

LEMMA ShiftedUpdate ==
  ASSUME NEW f \in FilterType, NEW g \in FilterType, NEW by \in Int,
         f.iterations # 0, ShiftedFilter(f, g, by),
         NEW o \in Field, NEW p \in Field, p = (o + by) % Prime
  PROVE  ShiftedFilter(FilterUpdate(f, o), FilterUpdate(g, p), by)
<1>1. FilterPredict(f) \in FilterType /\ FilterPredict(g) \in FilterType
  BY PredictIs
<1>2. ShiftedFilter(FilterPredict(f), FilterPredict(g), by)
  BY PredictIs, ShiftedTransition, FilterFields DEF ShiftedFilter
<1>3. ShiftedFilter(Corrected(FilterPredict(f), o), Corrected(FilterPredict(g), p), by)
  BY <1>1, <1>2, ShiftedCorrection
<1>4. g.iterations = f.iterations
  BY DEF ShiftedFilter
<1> DEFINE F == FilterUpdate(f, o)
           G == FilterUpdate(g, p)
           H == Corrected(FilterPredict(f), o)
           I == Corrected(FilterPredict(g), p)
<1>5. F.estimate = H.estimate /\ F.covariance = H.covariance /\ F.iterations = f.iterations + 1
  BY UpdateIs
<1>6. G.estimate = I.estimate /\ G.covariance = I.covariance /\ G.iterations = g.iterations + 1
  BY <1>4, UpdateIs
<1>7. ShiftedVec(H.estimate, I.estimate, by) /\ I.covariance = H.covariance
  BY <1>3 DEF ShiftedFilter
<1> HIDE DEF F, G, H, I
<1>8. ShiftedFilter(F, G, by)
  BY <1>4, <1>5, <1>6, <1>7 DEF ShiftedFilter
<1> QED
  BY <1>8 DEF F, G

\* The first observation sets the position.
LEMMA ShiftedFirst ==
  ASSUME NEW by \in Int, NEW o \in Field, NEW p \in Field, p = (o + by) % Prime
  PROVE  ShiftedFilter(FilterUpdate(NewFilter, o), FilterUpdate(NewFilter, p), by)
<1> DEFINE e == NewFilter.estimate
<1>1. e \in VecType
  BY NewFilterIs, FilterFields
<1>2. /\ FilterUpdate(NewFilter, o).estimate = [e EXCEPT ![1] = o]
      /\ FilterUpdate(NewFilter, p).estimate = [e EXCEPT ![1] = p]
      /\ FilterUpdate(NewFilter, o).covariance = NewFilter.covariance
      /\ FilterUpdate(NewFilter, p).covariance = NewFilter.covariance
      /\ FilterUpdate(NewFilter, o).iterations = NewFilter.iterations + 1
      /\ FilterUpdate(NewFilter, p).iterations = NewFilter.iterations + 1
  BY NewFilterIs, UpdateIs
<1>3. ShiftedVec([e EXCEPT ![1] = o], [e EXCEPT ![1] = p], by)
  BY <1>1 DEF ShiftedVec, VecType
<1> QED
  BY <1>2, <1>3 DEF ShiftedFilter

LEMMA ShiftedRuns ==
  ASSUME NEW inputs \in Seq(Inputs), inputs # <<>>, NEW by \in Int
  PROVE  ShiftedFilter(Filtered(inputs, 0), Filtered(inputs, by), by)
<1> DEFINE n == Len(inputs)
<1>1. n \in Nat /\ n # 0
  BY LenProperties, EmptySeq
<1>2. PICK f : IsRun(f, n, inputs, 0) /\ Filtered(inputs, 0) = f[n]
  BY FilteredIs
<1>3. PICK g : IsRun(g, n, inputs, by) /\ Filtered(inputs, by) = g[n]
  BY FilteredIs
<1>4. /\ \A k \in 0 .. n : f[k] \in FilterType /\ f[k].iterations = k
      /\ \A k \in 0 .. n : g[k] \in FilterType /\ g[k].iterations = k
  BY <1>2, <1>3, RunType
<1>5. \A k \in 1 .. n :
        /\ Observed(inputs, 0, k) \in Field /\ Observed(inputs, by, k) \in Field
        /\ Observed(inputs, by, k) = (Observed(inputs, 0, k) + by) % Prime
  BY ObservedIs DEF Observed
<1> HIDE DEF n
<1> DEFINE T == {k \in Nat : k + 1 <= n => ShiftedFilter(f[k + 1], g[k + 1], by)}
<1>6. 0 \in T
  <2>1. 1 \in 1 .. n
    BY <1>1
  <2>2. /\ f[1] = FilterUpdate(NewFilter, Observed(inputs, 0, 1))
        /\ g[1] = FilterUpdate(NewFilter, Observed(inputs, by, 1))
    BY <1>2, <1>3, <2>1 DEF IsRun
  <2>3. ShiftedFilter(f[1], g[1], by)
    BY <1>5, <2>1, <2>2, ShiftedFirst
  <2> QED
    BY <2>3
<1>7. ASSUME NEW k \in T
      PROVE  k + 1 \in T
  <2> DEFINE m == k + 1
  <2>1. k \in Nat /\ m \in Nat
    OBVIOUS
  <2> SUFFICES ASSUME m + 1 <= n PROVE ShiftedFilter(f[m + 1], g[m + 1], by)
    BY <2>1
  <2>2. ShiftedFilter(f[m], g[m], by)
    BY <1>1, <2>1
  <2>3. m \in 0 .. n /\ m + 1 \in 1 .. n /\ (m + 1) - 1 = m /\ m # 0
    BY <1>1, <2>1
  <2> HIDE DEF m
  <2>4. /\ f[m + 1] = FilterUpdate(f[m], Observed(inputs, 0, m + 1))
        /\ g[m + 1] = FilterUpdate(g[m], Observed(inputs, by, m + 1))
    BY <1>2, <1>3, <2>3 DEF IsRun
  <2>5. f[m] \in FilterType /\ g[m] \in FilterType /\ f[m].iterations # 0
    BY <1>4, <2>3
  <2> QED
    BY <1>5, <2>2, <2>3, <2>4, <2>5, ShiftedUpdate
<1> HIDE DEF T
<1>8. T = Nat
  <2>1. T \in SUBSET Nat
    BY DEF T
  <2> QED
    BY <1>6, <1>7, <2>1, NatInduct
<1>9. n - 1 \in T /\ (n - 1) + 1 = n /\ n <= n
  BY <1>1, <1>8
<1>10. ShiftedFilter(f[n], g[n], by)
  BY <1>9 DEF T
<1> QED
  BY <1>2, <1>3, <1>10

\* Where the origin is does not matter to the filter (kalman_filter.cc:44-69).
THEOREM ShiftsCorrect == Spec => []EstimateShifts
<1>1. StrokeInv /\ FilterInv => EstimateShifts
  <2> SUFFICES ASSUME StrokeInv, FilterInv, history.now # <<>>
               PROVE  Filtered(history.now, 5)
                        = [filter EXCEPT !.estimate[1] = (@ + 5) % Prime]
    BY DEF EstimateShifts
  <2> DEFINE g == Filtered(history.now, 5)
             f == filter
             h == [f EXCEPT !.estimate[1] = (@ + 5) % Prime]
  <2>1. history.now \in Seq(Inputs)
    BY DEF StrokeInv, Knows
  <2>2. f \in FilterType /\ g \in FilterType /\ ShiftedFilter(f, g, 5)
    BY <2>1, FilteredType, ShiftedRuns DEF FilterInv
  <2> HIDE DEF f, g
  <2>3. f.estimate \in VecType /\ g.estimate \in VecType /\ f.estimate[1] \in Int
    BY <2>2, FilterFields, EntryIs
  <2>4. (f.estimate[1] + 5) % Prime \in Field
    BY <2>3, SameIs
  <2>5. /\ h \in FilterType
        /\ h.estimate = [f.estimate EXCEPT ![1] = (f.estimate[1] + 5) % Prime]
        /\ h.covariance = f.covariance /\ h.iterations = f.iterations
    BY <2>2, <2>4 DEF FilterType
  <2>6. \A i \in 1 .. 4 : h.estimate[i] = g.estimate[i]
    <3>1. /\ h.estimate[1] = (f.estimate[1] + 5) % Prime
          /\ \A i \in 2 .. 4 : h.estimate[i] = f.estimate[i]
      BY <2>3, <2>5 DEF VecType
    <3>2. \A i \in 1 .. 4 : i = 1 \/ i \in 2 .. 4
      OBVIOUS
    <3> HIDE DEF h
    <3> QED
      BY <2>2, <3>1, <3>2 DEF ShiftedFilter, ShiftedVec
  <2> HIDE DEF h
  <2>7. h.estimate = g.estimate
    BY <2>2, <2>5, <2>6, VecEqual, FilterFields
  <2>8. g.covariance = h.covariance /\ g.iterations = h.iterations
    BY <2>2, <2>5 DEF ShiftedFilter
  <2>9. g = h
    BY <2>2, <2>5, <2>7, <2>8, FilterEqual
  <2> QED
    BY <2>9 DEF f, g, h
<1> QED
  BY <1>1, StrokeInvHolds, FilterInvHolds, PTL


-----------------------------------------------------------------------------
(* The gain is optimal *)

Dot(x, y) == x[1] * y[1] + x[2] * y[2] + x[3] * y[3] + x[4] * y[4]

IntVec(x) == x[1] \in Int /\ x[2] \in Int /\ x[3] \in Int /\ x[4] \in Int

LEMMA DotType ==
  ASSUME NEW x, NEW y, IntVec(x), IntVec(y)
  PROVE  Dot(x, y) \in Int
BY DEF IntVec, Dot

LEMMA ProductSame ==
  ASSUME NEW a \in Int, NEW b \in Int, NEW c \in Int, Same(a, b)
  PROVE  Same(a * c, b * c) /\ Same(c * a, c * b) /\ Same(a + c, b + c) /\ Same(a - c, b - c)
         /\ Same(c - a, c - b)
<1>1. Same(c, c)
  BY SameIs
<1> QED
  BY <1>1, SameOf

LEMMA DotSame ==
  ASSUME NEW x, NEW y, NEW z, IntVec(x), IntVec(y), IntVec(z),
         \A i \in 1 .. 4 : Same(x[i], y[i])
  PROVE  Same(Dot(x, z), Dot(y, z))
<1>1. \A i \in 1 .. 4 : Same(x[i] * z[i], y[i] * z[i])
  <2>1. \A i \in 1 .. 4 : x[i] \in Int /\ y[i] \in Int /\ z[i] \in Int
    BY UpToFour DEF IntVec
  <2> QED
    BY <2>1, ProductSame
<1> DEFINE a == x[1] * z[1]
           b == x[2] * z[2]
           c == x[3] * z[3]
           d == x[4] * z[4]
           e == y[1] * z[1]
           f == y[2] * z[2]
           g == y[3] * z[3]
           h == y[4] * z[4]
<1>2. /\ a \in Int /\ b \in Int /\ c \in Int /\ d \in Int
      /\ e \in Int /\ f \in Int /\ g \in Int /\ h \in Int
  BY DEF IntVec
<1>3. Same(a, e) /\ Same(b, f) /\ Same(c, g) /\ Same(d, h)
  BY <1>1
<1>4. Dot(x, z) = a + b + c + d /\ Dot(y, z) = e + f + g + h
  BY DEF Dot
<1> HIDE DEF a, b, c, d, e, f, g, h
<1>5. a + b \in Int /\ e + f \in Int /\ Same(a + b, e + f)
  BY <1>2, <1>3, SameOf
<1>6. a + b + c \in Int /\ e + f + g \in Int /\ Same(a + b + c, e + f + g)
  BY <1>2, <1>3, <1>5, SameOf
<1>7. Same(a + b + c + d, e + f + g + h)
  BY <1>2, <1>3, <1>6, SameOf
<1> QED
  BY <1>4, <1>7

LEMMA RowInt ==
  /\ \A v \in VecType : IntVec(v)
  /\ \A m \in MatrixType : \A i \in 1 .. 4 : IntVec(m[i])
<1>1. \A v \in VecType : IntVec(v)
  BY EntryIs DEF IntVec
<1> QED
  BY <1>1, EntryIs

LEMMA DotProductSame ==
  ASSUME NEW u \in VecType, NEW v \in VecType
  PROVE  /\ DotProduct(u, v) \in Int /\ Dot(u, v) \in Int
         /\ DotProduct(u, v) = Dot(u, v) % Prime
         /\ Same(DotProduct(u, v), Dot(u, v))
<1>1. Dot(u, v) \in Int
  BY RowInt, DotType
<1>2. DotProduct(u, v) = Dot(u, v) % Prime
  BY DEF DotProduct, Dot
<1> QED
  BY <1>1, <1>2, SameIs

\* a P b = b P a, when P is symmetric.
LEMMA QuadraticSymmetric ==
  ASSUME NEW a1 \in Int, NEW a2 \in Int, NEW a3 \in Int, NEW a4 \in Int,
         NEW b1 \in Int, NEW b2 \in Int, NEW b3 \in Int, NEW b4 \in Int,
         NEW p11 \in Int, NEW p12 \in Int, NEW p13 \in Int, NEW p14 \in Int,
         NEW p22 \in Int, NEW p23 \in Int, NEW p24 \in Int,
         NEW p33 \in Int, NEW p34 \in Int, NEW p44 \in Int
  PROVE    (a1 * p11 + a2 * p12 + a3 * p13 + a4 * p14) * b1
         + (a1 * p12 + a2 * p22 + a3 * p23 + a4 * p24) * b2
         + (a1 * p13 + a2 * p23 + a3 * p33 + a4 * p34) * b3
         + (a1 * p14 + a2 * p24 + a3 * p34 + a4 * p44) * b4
         = (b1 * p11 + b2 * p12 + b3 * p13 + b4 * p14) * a1
         + (b1 * p12 + b2 * p22 + b3 * p23 + b4 * p24) * a2
         + (b1 * p13 + b2 * p23 + b3 * p33 + b4 * p34) * a3
         + (b1 * p14 + b2 * p24 + b3 * p34 + b4 * p44) * a4
OBVIOUS

Symmetric(m) == \A i, j \in 1 .. 4 : m[i][j] = m[j][i]

\* The entries of A P B^T.
LEMMA SandwichIs ==
  ASSUME NEW A \in MatrixType, NEW P \in MatrixType, NEW B \in MatrixType,
         NEW i \in 1 .. 4, NEW j \in 1 .. 4
  PROVE  LET Q == Times(Times(A, P), Transpose(B))
             mid == [k \in 1 .. 4 |-> Dot(A[i], Transpose(P)[k])]
         IN  /\ Q \in MatrixType /\ Times(A, P) \in MatrixType
             /\ Same(Q[i][j], Dot(Times(A, P)[i], B[j]))
             /\ \A k \in 1 .. 4 : Same(Times(A, P)[i][k], Dot(A[i], Transpose(P)[k]))
             /\ Same(Q[i][j], Dot(mid, B[j]))
<1> DEFINE M == Times(A, P)
           T == Transpose(B)
           U == Transpose(P)
           Q == Times(M, T)
           mid == [k \in 1 .. 4 |-> Dot(A[i], U[k])]
<1>1. M \in MatrixType /\ \A k \in 1 .. 4 : M[i][k] = DotProduct(A[i], U[k])
  BY TimesIs
<1>2. T \in MatrixType /\ U \in MatrixType
  BY TransposeIs
<1>3. Transpose(T)[j] = B[j]
  <2>1. Transpose(T) \in MatrixType /\ \A k \in 1 .. 4 : Transpose(T)[j][k] = T[k][j]
    BY <1>2, TransposeIs
  <2>2. \A k \in 1 .. 4 : T[k][j] = B[j][k]
    BY TransposeIs
  <2> QED
    BY <2>1, <2>2, EntryIs, VecEqual
<1> HIDE DEF M, T, U
<1>4. Q \in MatrixType /\ Q[i][j] = DotProduct(M[i], B[j])
  BY <1>1, <1>2, <1>3, TimesIs
<1>5. M[i] \in VecType /\ B[j] \in VecType
  BY <1>1, EntryIs
<1>6. /\ Same(Q[i][j], Dot(M[i], B[j])) /\ Q[i][j] \in Int /\ Dot(M[i], B[j]) \in Int
  BY <1>4, <1>5, DotProductSame, EntryIs
<1>7. \A k \in 1 .. 4 : /\ Same(M[i][k], Dot(A[i], U[k])) /\ Dot(A[i], U[k]) \in Int
  <2>1. \A k \in 1 .. 4 : U[k] \in VecType /\ A[i] \in VecType
    BY <1>2, EntryIs
  <2> QED
    BY <1>1, <2>1, DotProductSame
<1>8. IntVec(mid) /\ \A k \in 1 .. 4 : Same(M[i][k], mid[k])
  BY <1>7 DEF IntVec
<1> HIDE DEF mid, Q
<1>9. Same(Dot(M[i], B[j]), Dot(mid, B[j])) /\ Dot(mid, B[j]) \in Int
  BY <1>5, <1>8, RowInt, DotSame, DotType
<1>10. Same(Q[i][j], Dot(mid, B[j]))
  BY <1>6, <1>9, SameTrans
<1> QED
  BY <1>1, <1>4, <1>6, <1>7, <1>10 DEF M, T, U, Q, mid

LEMMA SandwichSymmetric ==
  ASSUME NEW A \in MatrixType, NEW P \in MatrixType, Symmetric(P),
         NEW i \in 1 .. 4, NEW j \in 1 .. 4
  PROVE  Times(Times(A, P), Transpose(A))[i][j] = Times(Times(A, P), Transpose(A))[j][i]
<1> DEFINE Q == Times(Times(A, P), Transpose(A))
           U == Transpose(P)
           mid(k) == [l \in 1 .. 4 |-> Dot(A[k], U[l])]
<1>1. /\ Q \in MatrixType
      /\ Same(Q[i][j], Dot(mid(i), A[j])) /\ Same(Q[j][i], Dot(mid(j), A[i]))
  BY SandwichIs
<1>2. U \in MatrixType /\ \A k, l \in 1 .. 4 : U[k][l] = P[l][k]
  BY TransposeIs
<1> HIDE DEF Q, U
<1> DEFINE a == A[i]
           b == A[j]
<1>3. Dot(mid(i), b) = Dot(mid(j), a) /\ Dot(mid(i), b) \in Int
  <2>1. /\ a[1] \in Int /\ a[2] \in Int /\ a[3] \in Int /\ a[4] \in Int
        /\ b[1] \in Int /\ b[2] \in Int /\ b[3] \in Int /\ b[4] \in Int
    BY EntryIs
  <2>2. /\ P[1][1] \in Int /\ P[1][2] \in Int /\ P[1][3] \in Int /\ P[1][4] \in Int
        /\ P[2][2] \in Int /\ P[2][3] \in Int /\ P[2][4] \in Int
        /\ P[3][3] \in Int /\ P[3][4] \in Int /\ P[4][4] \in Int
    BY EntryIs
  <2>3. /\ U[1][1] = P[1][1] /\ U[1][2] = P[1][2] /\ U[1][3] = P[1][3] /\ U[1][4] = P[1][4]
        /\ U[2][1] = P[1][2] /\ U[2][2] = P[2][2] /\ U[2][3] = P[2][3] /\ U[2][4] = P[2][4]
        /\ U[3][1] = P[1][3] /\ U[3][2] = P[2][3] /\ U[3][3] = P[3][3] /\ U[3][4] = P[3][4]
        /\ U[4][1] = P[1][4] /\ U[4][2] = P[2][4] /\ U[4][3] = P[3][4] /\ U[4][4] = P[4][4]
    BY <1>2 DEF Symmetric
  <2>4. \A k, l \in 1 .. 4 : mid(k)[l] = Dot(A[k], U[l])
    OBVIOUS
  <2>5. /\ mid(i)[1] = Dot(a, U[1]) /\ mid(i)[2] = Dot(a, U[2])
        /\ mid(i)[3] = Dot(a, U[3]) /\ mid(i)[4] = Dot(a, U[4])
        /\ mid(j)[1] = Dot(b, U[1]) /\ mid(j)[2] = Dot(b, U[2])
        /\ mid(j)[3] = Dot(b, U[3]) /\ mid(j)[4] = Dot(b, U[4])
    BY <2>4
  <2> HIDE DEF a, b, mid
  <2>6. Dot(mid(i), b) =
            (a[1] * P[1][1] + a[2] * P[1][2] + a[3] * P[1][3] + a[4] * P[1][4]) * b[1]
          + (a[1] * P[1][2] + a[2] * P[2][2] + a[3] * P[2][3] + a[4] * P[2][4]) * b[2]
          + (a[1] * P[1][3] + a[2] * P[2][3] + a[3] * P[3][3] + a[4] * P[3][4]) * b[3]
          + (a[1] * P[1][4] + a[2] * P[2][4] + a[3] * P[3][4] + a[4] * P[4][4]) * b[4]
    BY <2>3, <2>5 DEF Dot
  <2>7. Dot(mid(j), a) =
            (b[1] * P[1][1] + b[2] * P[1][2] + b[3] * P[1][3] + b[4] * P[1][4]) * a[1]
          + (b[1] * P[1][2] + b[2] * P[2][2] + b[3] * P[2][3] + b[4] * P[2][4]) * a[2]
          + (b[1] * P[1][3] + b[2] * P[2][3] + b[3] * P[3][3] + b[4] * P[3][4]) * a[3]
          + (b[1] * P[1][4] + b[2] * P[2][4] + b[3] * P[3][4] + b[4] * P[4][4]) * a[4]
    BY <2>3, <2>5 DEF Dot
  <2>8. Dot(mid(i), b) = Dot(mid(j), a)
    BY <2>1, <2>2, <2>6, <2>7, QuadraticSymmetric
  <2>9. Dot(mid(i), b) \in Int
    <3>1. IntVec(a) /\ IntVec(b) /\ \A k \in 1 .. 4 : IntVec(U[k])
      BY <1>2, RowInt DEF a, b
    <3>2. IntVec(mid(i))
      BY <2>5, <3>1, DotType DEF IntVec
    <3> QED
      BY <3>1, <3>2, DotType
  <2> QED
    BY <2>8, <2>9
<1> HIDE DEF mid, a, b
<1>4. Q[i][j] \in Field /\ Q[j][i] \in Field /\ Q[i][j] \in Int /\ Q[j][i] \in Int
  BY <1>1, EntryIs
<1>5. Same(Q[i][j], Q[j][i])
  <2>1. Same(Q[i][j], Dot(mid(i), b)) /\ Same(Q[j][i], Dot(mid(i), b))
    BY <1>1, <1>3 DEF a, b
  <2> QED
    BY <1>3, <1>4, <2>1, SameSym, SameTrans
<1> QED
  BY <1>4, <1>5, SameInField DEF Q

\* Symmetry is kept.
LEMMA PredictedSymmetric ==
  ASSUME NEW P \in MatrixType, Symmetric(P)
  PROVE  PredictedCovariance(P) \in MatrixType /\ Symmetric(PredictedCovariance(P))
<1> DEFINE A == StateTransition
           Q == Times(Times(A, P), Transpose(A))
           N == ProcessNoiseCovariance
           O == OuterProduct(ProcessNoiseVector, ProcessNoiseVector)
<1>1. A \in MatrixType /\ N \in MatrixType
  BY FilterConstants
<1>2. \A i, j \in 1 .. 4 : Q[i][j] = Q[j][i]
  BY <1>1, SandwichSymmetric
<1>3. Q \in MatrixType
  BY <1>1, TimesIs, TransposeIs
<1>4. \A i, j \in 1 .. 4 : N[i][j] = N[j][i]
  <2> DEFINE v == ProcessNoiseVector
  <2>1. v \in VecType
    <3>1. \A a, b, c, d \in Field : <<a, b, c, d>> \in VecType
      BY DEF VecType
    <3>2. 1 \in Field /\ 2 \in Field /\ 6 \in Field
      BY PrimeNat DEF Field
    <3>3. Half \in Field /\ Sixth \in Field
      BY <3>2, ReciprocalIs DEF Half, Sixth
    <3> QED
      BY <3>1, <3>2, <3>3 DEF ProcessNoiseVector
  <2>2. O \in MatrixType /\ \A i, j \in 1 .. 4 : O[i][j] = (v[i] * v[j]) % Prime
    BY <2>1, OuterProductIs
  <2>3. \A i, j \in 1 .. 4 : v[i] * v[j] = v[j] * v[i]
    <3>1. \A i \in 1 .. 4 : v[i] \in Int
      BY <2>1, EntryIs
    <3>2. \A a, b \in Int : a * b = b * a
      OBVIOUS
    <3> HIDE DEF v
    <3> QED
      BY <3>1, <3>2, Zenon
  <2>4. ProcessNoise \in Int
    BY NoiseAssumption, PrimeNat
  <2> HIDE DEF v, O
  <2>5. \A i, j \in 1 .. 4 : N[i][j] = (O[i][j] * ProcessNoise) % Prime
    BY <2>2, <2>4, MatrixScaledIs DEF ProcessNoiseCovariance, O
  <2> HIDE DEF N
  <2>6. \A i, j \in 1 .. 4 : O[i][j] = O[j][i]
    <3> SUFFICES ASSUME NEW i \in 1 .. 4, NEW j \in 1 .. 4 PROVE O[i][j] = O[j][i]
      OBVIOUS
    <3>1. v[i] * v[j] = v[j] * v[i]
      BY <2>3
    <3>2. O[i][j] = (v[i] * v[j]) % Prime /\ O[j][i] = (v[j] * v[i]) % Prime
      BY <2>2
    <3> QED
      BY <3>1, <3>2, Zenon
  <2> SUFFICES ASSUME NEW i \in 1 .. 4, NEW j \in 1 .. 4 PROVE N[i][j] = N[j][i]
    OBVIOUS
  <2>7. O[i][j] = O[j][i]
    BY <2>6
  <2>8. N[i][j] = (O[i][j] * ProcessNoise) % Prime /\ N[j][i] = (O[j][i] * ProcessNoise) % Prime
    BY <2>5
  <2> QED
    BY <2>7, <2>8, Zenon
<1> HIDE DEF A, Q, N
<1>5. /\ MatrixPlus(Q, N) \in MatrixType
      /\ \A i, j \in 1 .. 4 : MatrixPlus(Q, N)[i][j] = (Q[i][j] + N[i][j]) % Prime
  BY <1>1, <1>3, MatrixPlusIs
<1> DEFINE C == MatrixPlus(Q, N)
<1> HIDE DEF C
<1>6. Symmetric(C)
  <2> SUFFICES ASSUME NEW i \in 1 .. 4, NEW j \in 1 .. 4 PROVE C[i][j] = C[j][i]
    BY DEF Symmetric
  <2>1. C[i][j] = (Q[i][j] + N[i][j]) % Prime /\ C[j][i] = (Q[j][i] + N[j][i]) % Prime
    BY <1>5 DEF C
  <2>2. Q[i][j] = Q[j][i] /\ N[i][j] = N[j][i]
    BY <1>2, <1>4
  <2> QED
    BY <2>1, <2>2, Zenon
<1>7. PredictedCovariance(P) = MatrixPlus(Q, N)
  BY DEF PredictedCovariance, A, Q, N
<1> QED
  BY <1>5, <1>6, <1>7 DEF C

\* MeasurementVector takes the position out of either side of a product.
LEMMA MeasuredOf ==
  ASSUME NEW u \in VecType
  PROVE  DotProduct(u, MeasurementVector) = u[1]
<1>1. /\ u[1] \in Field /\ u[1] \in Int /\ u[2] \in Int /\ u[3] \in Int /\ u[4] \in Int
  BY EntryIs
<1> DEFINE sum == u[1] * 1 + u[2] * 0 + u[3] * 0 + u[4] * 0
<1>2. DotProduct(u, MeasurementVector) = sum % Prime
  BY DEF DotProduct, MeasurementVector
<1>3. sum = u[1]
  BY <1>1
<1> HIDE DEF sum
<1> QED
  BY <1>1, <1>2, <1>3, SameInField

\* The gain: the covariances with the position, over their sum with the noise.
LEMMA GainEntries ==
  ASSUME NEW P \in MatrixType
  PROVE  LET S == (P[1][1] + MeasurementNoise) % Prime
         IN  /\ S \in Field /\ InnovationVariance(P) = S
             /\ Reciprocal[S] \in Int
             /\ \A i \in 1 .. 4 : Gain(P)[i] = (P[1][i] * Reciprocal[S]) % Prime
<1> DEFINE row == VecTimes(MeasurementVector, P)
           S == (P[1][1] + MeasurementNoise) % Prime
<1>1. row \in VecType /\ \A i \in 1 .. 4 : row[i] = P[1][i]
  <2>1. Transpose(P) \in MatrixType /\ \A i, j \in 1 .. 4 : Transpose(P)[i][j] = P[j][i]
    BY TransposeIs
  <2>2. \A i \in 1 .. 4 : Transpose(P)[i] \in VecType
    BY <2>1, EntryIs
  <2>3. /\ row \in VecType
        /\ \A i \in 1 .. 4 : row[i] = DotProduct(MeasurementVector, Transpose(P)[i])
    BY FilterConstants, VecTimesIs
  <2> HIDE DEF row
  <2>4. \A i \in 1 .. 4 : row[i] = Transpose(P)[i][1]
    BY <2>2, <2>3, MeasuredPosition
  <2> QED
    BY <2>1, <2>3, <2>4
<1>2. InnovationVariance(P) = S
  BY <1>1, MeasuredOf DEF InnovationVariance
<1>3. S \in Field
  BY <1>2, GainIs
<1>4. Reciprocal[S] \in Int
  BY <1>3, ReciprocalIs
<1>5. Gain(P) = VecScaled(row, Reciprocal[S])
  BY <1>2 DEF Gain
<1> HIDE DEF row, S
<1>6. \A i \in 1 .. 4 : Gain(P)[i] = (P[1][i] * Reciprocal[S]) % Prime
  <2> DEFINE r == Reciprocal[S]
  <2>1. \A i \in 1 .. 4 : Gain(P)[i] = (row[i] * r) % Prime
    <3>1. r \in Int /\ row \in VecType /\ Gain(P) = VecScaled(row, r)
      BY <1>1, <1>4, <1>5
    <3> HIDE DEF r
    <3> QED
      BY <3>1, VecScaledIs
  <2> SUFFICES ASSUME NEW i \in 1 .. 4
               PROVE  Gain(P)[i] = (P[1][i] * Reciprocal[S]) % Prime
    OBVIOUS
  <2>2. row[i] = P[1][i] /\ Gain(P)[i] = (row[i] * Reciprocal[S]) % Prime
    BY <1>1, <2>1
  <2> QED
    BY <2>2, Zenon
<1> QED
  BY <1>2, <1>3, <1>4, <1>6 DEF S


\* What is left of the part that the gain g corrects: P - g P[1].
LEMMA RestEntries ==
  ASSUME NEW P \in MatrixType
  PROVE  /\ Rest(P) \in MatrixType /\ Gain(P) \in VecType
         /\ \A i, k \in 1 .. 4 :
              Same(Rest(P)[i][k],
                   (IF i = k THEN 1 ELSE 0) - (IF k = 1 THEN Gain(P)[i] ELSE 0))
<1> DEFINE g == Gain(P)
           R == Rest(P)
           I == IdentityMatrix
           O == OuterProduct(g, MeasurementVector)
<1>1. g \in VecType /\ R \in MatrixType
  BY GainIs
<1> HIDE DEF g
<1>2. O \in MatrixType /\ \A i, k \in 1 .. 4 : O[i][k] = (g[i] * MeasurementVector[k]) % Prime
  BY <1>1, FilterConstants, OuterProductIs
<1>3. \A i, k \in 1 .. 4 : O[i][k] = IF k = 1 THEN g[i] ELSE 0
  <2> SUFFICES ASSUME NEW i \in 1 .. 4, NEW k \in 1 .. 4
               PROVE  O[i][k] = IF k = 1 THEN g[i] ELSE 0
    OBVIOUS
  <2>1. O[i][k] = (g[i] * MeasurementVector[k]) % Prime
    BY <1>2
  <2>2. MeasurementVector[k] = IF k = 1 THEN 1 ELSE 0
    BY UpToFour DEF MeasurementVector
  <2>3. g[i] \in Field /\ g[i] \in Int /\ g[i] * 1 = g[i] /\ g[i] * 0 = 0
    BY <1>1, EntryIs
  <2>4. g[i] % Prime = g[i] /\ 0 % Prime = 0
    <3>1. 0 \in Field
      BY PrimeNat DEF Field
    <3> QED
      BY <2>3, <3>1, SameInField
  <2> HIDE DEF O
  <2>5. CASE k = 1
    BY <2>1, <2>2, <2>3, <2>4, <2>5
  <2>6. CASE k # 1
    BY <2>1, <2>2, <2>3, <2>4, <2>6
  <2> QED
    BY <2>5, <2>6
<1>4. I \in MatrixType /\ \A i, k \in 1 .. 4 : I[i][k] = IF i = k THEN 1 ELSE 0
  BY IdentityIs
<1>5. R = MatrixMinus(I, O)
  BY DEF Rest, g
<1> HIDE DEF R, I, O
<1>6. \A i, k \in 1 .. 4 : R[i][k] = (I[i][k] - O[i][k]) % Prime
  BY <1>2, <1>4, <1>5, MatrixMinusIs
<1>7. ASSUME NEW i \in 1 .. 4, NEW k \in 1 .. 4
      PROVE  Same(R[i][k], (IF i = k THEN 1 ELSE 0) - (IF k = 1 THEN g[i] ELSE 0))
  <2>1. I[i][k] \in Int /\ O[i][k] \in Int
    BY <1>2, <1>4, EntryIs
  <2>2. I[i][k] - O[i][k] \in Int
    BY <2>1
  <2>3. Same(R[i][k], I[i][k] - O[i][k])
    BY <1>6, <2>2, SameIs
  <2>4. I[i][k] = (IF i = k THEN 1 ELSE 0) /\ O[i][k] = (IF k = 1 THEN g[i] ELSE 0)
    BY <1>3, <1>4
  <2> QED
    BY <2>3, <2>4, Zenon
<1> QED
  BY <1>1, <1>7 DEF R, g

\* A row of what is left, times a vector.
LEMMA RestTimes ==
  ASSUME NEW P \in MatrixType, NEW i \in 1 .. 4, NEW x, IntVec(x)
  PROVE  /\ Dot(Rest(P)[i], x) \in Int /\ x[i] - Gain(P)[i] * x[1] \in Int
         /\ Same(Dot(Rest(P)[i], x), x[i] - Gain(P)[i] * x[1])
<1> DEFINE g == Gain(P)[i]
           row == Rest(P)[i]
           exact == [k \in 1 .. 4 |-> (IF i = k THEN 1 ELSE 0) - (IF k = 1 THEN g ELSE 0)]
<1>1. g \in Int /\ IntVec(row)
  BY RestEntries, EntryIs, RowInt
<1>2. \A k \in 1 .. 4 : Same(row[k], exact[k])
  BY RestEntries
<1> HIDE DEF g, row
<1>3. IntVec(exact)
  BY <1>1 DEF IntVec
<1>4. Dot(exact, x) = x[i] - g * x[1]
  <2>1. /\ exact[1] = (IF i = 1 THEN 1 ELSE 0) - g /\ exact[2] = (IF i = 2 THEN 1 ELSE 0) - 0
        /\ exact[3] = (IF i = 3 THEN 1 ELSE 0) - 0 /\ exact[4] = (IF i = 4 THEN 1 ELSE 0) - 0
    OBVIOUS
  <2>2. x[1] \in Int /\ x[2] \in Int /\ x[3] \in Int /\ x[4] \in Int
    BY DEF IntVec
  <2>3. \A y \in Int : 1 * y = y /\ 0 * y = 0 /\ (0 - g) * y = - (g * y)
                       /\ (1 - g) * y = y - g * y
    BY <1>1
  <2>4. (0 - g) * x[1] = - (g * x[1]) /\ (1 - g) * x[1] = x[1] - g * x[1] /\ g * x[1] \in Int
    BY <1>1, <2>2, <2>3
  <2> HIDE DEF exact
  <2>5. Dot(exact, x) = exact[1] * x[1] + exact[2] * x[2] + exact[3] * x[3] + exact[4] * x[4]
    BY DEF Dot
  <2>6. CASE i = 1
    <3>1. exact[1] = 1 - g /\ exact[2] = 0 /\ exact[3] = 0 /\ exact[4] = 0
      BY <1>1, <2>1, <2>6
    <3> QED
      BY <2>2, <2>4, <2>5, <2>6, <3>1
  <2>7. CASE i = 2
    <3>1. exact[1] = 0 - g /\ exact[2] = 1 /\ exact[3] = 0 /\ exact[4] = 0
      BY <1>1, <2>1, <2>7
    <3> QED
      BY <2>2, <2>4, <2>5, <2>7, <3>1
  <2>8. CASE i = 3
    <3>1. exact[1] = 0 - g /\ exact[2] = 0 /\ exact[3] = 1 /\ exact[4] = 0
      BY <1>1, <2>1, <2>8
    <3> QED
      BY <2>2, <2>4, <2>5, <2>8, <3>1
  <2>9. CASE i = 4
    <3>1. exact[1] = 0 - g /\ exact[2] = 0 /\ exact[3] = 0 /\ exact[4] = 1
      BY <1>1, <2>1, <2>9
    <3> QED
      BY <2>2, <2>4, <2>5, <2>9, <3>1
  <2> QED
    BY <2>6, <2>7, <2>8, <2>9, UpToFour
<1> HIDE DEF exact
<1>5. Same(Dot(row, x), Dot(exact, x)) /\ Dot(row, x) \in Int /\ Dot(exact, x) \in Int
  BY <1>1, <1>2, <1>3, DotSame, DotType
<1> QED
  BY <1>4, <1>5 DEF row, g

LEMMA DotCommutes ==
  ASSUME NEW x, NEW y, IntVec(x), IntVec(y)
  PROVE  Dot(x, y) = Dot(y, x)
<1>1. /\ x[1] * y[1] = y[1] * x[1] /\ x[2] * y[2] = y[2] * x[2]
      /\ x[3] * y[3] = y[3] * x[3] /\ x[4] * y[4] = y[4] * x[4]
  BY DEF IntVec
<1> QED
  BY <1>1 DEF Dot

\* The Joseph form, expanded.
LEMMA JosephEntries ==
  ASSUME NEW P \in MatrixType, NEW i \in 1 .. 4, NEW j \in 1 .. 4
  PROVE  LET g == Gain(P)
             exact == ((P[i][j] - g[i] * P[1][j]) - g[j] * (P[i][1] - g[i] * P[1][1]))
                        + g[i] * g[j] * MeasurementNoise
         IN  exact \in Int /\ JosephForm(P)[i][j] = exact % Prime
<1> DEFINE g == Gain(P)
           R == Rest(P)
           T == Times(R, P)
           U == Times(T, Transpose(R))
           O == OuterProduct(g, g)
           N == MatrixScaled(O, MeasurementNoise)
           col(k) == Transpose(P)[k]
<1>1. g \in VecType /\ R \in MatrixType
  BY GainIs
<1>2. g[i] \in Int /\ g[j] \in Int /\ MeasurementNoise \in Int
  BY <1>1, EntryIs, FilterConstants
<1>3. /\ T \in MatrixType /\ U \in MatrixType
      /\ Same(U[i][j], Dot(T[i], R[j]))
      /\ \A k \in 1 .. 4 : Same(T[i][k], Dot(R[i], col(k)))
  BY <1>1, SandwichIs
<1>4. /\ \A k \in 1 .. 4 : IntVec(col(k))
      /\ \A k, l \in 1 .. 4 : col(k)[l] = P[l][k]
  BY TransposeIs, RowInt
<1>5. O \in MatrixType /\ O[i][j] = (g[i] * g[j]) % Prime
  BY <1>1, OuterProductIs
<1>6. N \in MatrixType /\ N[i][j] = (O[i][j] * MeasurementNoise) % Prime
  BY <1>5, <1>2, MatrixScaledIs
<1>7. JosephForm(P) = MatrixPlus(U, N)
  BY DEF JosephForm
<1> HIDE DEF T, U, O, N, col
<1>8. JosephForm(P)[i][j] = (U[i][j] + N[i][j]) % Prime
  BY <1>3, <1>6, <1>7, MatrixPlusIs
<1>9. /\ P[i][j] \in Int /\ P[1][j] \in Int /\ P[i][1] \in Int /\ P[1][1] \in Int
      /\ T[i][1] \in Int /\ T[i][j] \in Int /\ U[i][j] \in Int /\ N[i][j] \in Int
      /\ O[i][j] \in Int
  BY <1>3, <1>5, <1>6, EntryIs
<1>10. \A k \in 1 .. 4 : /\ P[i][k] - g[i] * P[1][k] \in Int
                         /\ Same(T[i][k], P[i][k] - g[i] * P[1][k])
  <2> SUFFICES ASSUME NEW k \in 1 .. 4
               PROVE  /\ P[i][k] - g[i] * P[1][k] \in Int
                      /\ Same(T[i][k], P[i][k] - g[i] * P[1][k])
    OBVIOUS
  <2>1. IntVec(col(k)) /\ col(k)[i] = P[i][k] /\ col(k)[1] = P[1][k]
    BY <1>4
  <2>2. /\ Dot(R[i], col(k)) \in Int /\ col(k)[i] - g[i] * col(k)[1] \in Int
        /\ Same(Dot(R[i], col(k)), col(k)[i] - g[i] * col(k)[1])
    BY <2>1, RestTimes
  <2>3. T[i][k] \in Int /\ Same(T[i][k], Dot(R[i], col(k)))
    BY <1>3, EntryIs
  <2>4. Same(T[i][k], col(k)[i] - g[i] * col(k)[1])
    BY <2>2, <2>3, SameTrans
  <2> QED
    BY <2>1, <2>2, <2>4
<1>11. Dot(T[i], R[j]) \in Int /\ Same(Dot(T[i], R[j]), T[i][j] - g[j] * T[i][1])
  <2>1. IntVec(T[i]) /\ IntVec(R[j])
    BY <1>1, <1>3, RowInt
  <2>2. Dot(R[j], T[i]) \in Int /\ Same(Dot(R[j], T[i]), T[i][j] - g[j] * T[i][1])
    BY <2>1, RestTimes
  <2>3. Dot(T[i], R[j]) = Dot(R[j], T[i])
    BY <2>1, DotCommutes
  <2> QED
    BY <2>2, <2>3
<1> HIDE DEF g, R
<1> DEFINE a == P[i][j] - g[i] * P[1][j]
           b == P[i][1] - g[i] * P[1][1]
           c == a - g[j] * b
           t == T[i][j] - g[j] * T[i][1]
           q == g[i] * g[j]
           n == q * MeasurementNoise
<1>12. /\ a \in Int /\ b \in Int /\ c \in Int /\ t \in Int /\ q \in Int /\ n \in Int
       /\ g[j] * b \in Int /\ g[j] * T[i][1] \in Int
  BY <1>2, <1>9
<1>13. Same(T[i][j], a) /\ Same(T[i][1], b)
  BY <1>10
<1>14. Same(U[i][j], t)
  BY <1>3, <1>9, <1>11, <1>12, SameTrans
<1>15. Same(N[i][j], n)
  <2>1. Same(O[i][j], q)
    BY <1>5, <1>12, SameIs
  <2>2. O[i][j] * MeasurementNoise \in Int
    BY <1>2, <1>9
  <2> HIDE DEF q
  <2>3. Same(O[i][j] * MeasurementNoise, n)
    BY <1>2, <1>9, <1>12, <2>1, ProductSame
  <2>4. Same(N[i][j], O[i][j] * MeasurementNoise)
    BY <1>6, <2>2, SameIs
  <2> QED
    BY <1>9, <1>12, <2>2, <2>3, <2>4, SameTrans
<1> HIDE DEF a, b, n
<1>16. Same(t, c)
  <2>1. Same(g[j] * T[i][1], g[j] * b)
    BY <1>2, <1>9, <1>12, <1>13, ProductSame
  <2> QED
    BY <1>9, <1>12, <1>13, <2>1, SameOf
<1> HIDE DEF c, t
<1>17. Same(U[i][j], c)
  BY <1>9, <1>12, <1>14, <1>16, SameTrans
<1> HIDE DEF q
<1>18. Same(U[i][j] + N[i][j], c + n) /\ U[i][j] + N[i][j] \in Int /\ c + n \in Int
  <2> DEFINE u == U[i][j]
             m == N[i][j]
  <2>1. u \in Int /\ m \in Int /\ c \in Int /\ n \in Int /\ Same(u, c) /\ Same(m, n)
    BY <1>9, <1>12, <1>15, <1>17
  <2> HIDE DEF u, m
  <2>2. Same(u + m, c + n) /\ u + m \in Int /\ c + n \in Int
    BY <2>1, SameOf
  <2> QED
    BY <2>2 DEF u, m
<1>19. JosephForm(P)[i][j] = (c + n) % Prime
  BY <1>8, <1>18, SameInField
<1> QED
  BY <1>18, <1>19 DEF c, n, a, b, q, g


\* In numbers: the expanded Joseph form with the gain of least variance.
LEMMA OptimalNumbers ==
  ASSUME NEW x \in Int, NEW y \in Int, NEW z \in Int, NEW p \in Int, NEW R \in Int,
         NEW r \in Int, NEW gy \in Int, NEW gz \in Int, NEW S \in Field,
         Same(gy, y * r), Same(gz, z * r), Same(S, p + R), r = Reciprocal[S]
  PROVE  /\ x - y * z * r \in Int
         /\ Same(((x - gy * z) - gz * (y - gy * p)) + gy * gz * R, x - y * z * r)
<1> DEFINE G == y * r
           H == z * r
           full == ((x - gy * z) - gz * (y - gy * p)) + gy * gz * R
           best == x - y * z * r
<1>1. S \in Int /\ p + R \in Int /\ G \in Int /\ H \in Int /\ gy * gz \in Int /\ G * H \in Int
      /\ gy * z \in Int /\ gz * y \in Int /\ G * z \in Int /\ H * y \in Int /\ S * r \in Int
      /\ y * z \in Int
  BY SameInField
<1>2. Same(gy * gz, G * H) /\ Same(gy * z, G * z) /\ Same(gz * y, H * y)
  <2> HIDE DEF G, H
  <2>1. Same(gy, G) /\ Same(gz, H)
    BY DEF G, H
  <2> QED
    BY <1>1, <2>1, SameOf, ProductSame
<1>3. Same(r * (S * r), r) /\ r * (S * r) \in Int
  <2>1. CASE S = 0
    <3>1. r = 0
      BY <2>1, ReciprocalIs
    <3>2. r * (S * r) = r
      BY <2>1, <3>1
    <3> QED
      BY <3>2, SameIs
  <2>2. CASE S # 0
    <3>1. Same(S * r, 1)
      BY <2>2, ReciprocalIs
    <3> DEFINE w == S * r
    <3>2. w \in Int /\ Same(w, 1)
      BY <1>1, <3>1
    <3> HIDE DEF w
    <3>3. 1 \in Int /\ r \in Int
      OBVIOUS
    <3>4. Same(r * w, r * 1)
      BY <3>2, <3>3, ProductSame
    <3>5. r * w \in Int /\ r * 1 = r
      BY <3>2
    <3> QED
      BY <3>4, <3>5 DEF w
  <2> QED
    BY <2>1, <2>2
<1>4. full = ((x - gy * z) - gz * y) + (gy * gz) * (p + R)
  <2>1. gz * (y - gy * p) = gz * y - (gy * gz) * p
    OBVIOUS
  <2>2. (gy * gz) * (p + R) = (gy * gz) * p + (gy * gz) * R
    BY <1>1
  <2>3. (gy * gz) * p \in Int /\ (gy * gz) * R \in Int
    BY <1>1
  <2> QED
    BY <1>1, <2>1, <2>2, <2>3
<1> DEFINE q == gy * gz
           gyz == gy * z
           gzy == gz * y
           Q == G * H
           Gz == G * z
           Hy == H * y
           P == p + R
           yz == y * z
           k == r * (S * r)
<1>5. full = ((x - gyz) - gzy) + q * P
  BY <1>4
<1>6. Q * S = yz * k /\ Gz = yz * r /\ Hy = yz * r /\ best = x - yz * r
  <2>1. Q * S = yz * k
    BY <1>1
  <2>2. Gz = yz * r
    OBVIOUS
  <2>3. Hy = yz * r
    OBVIOUS
  <2> QED
    BY <2>1, <2>2, <2>3
<1>7. /\ q \in Int /\ gyz \in Int /\ gzy \in Int /\ Q \in Int /\ Gz \in Int /\ Hy \in Int
      /\ P \in Int /\ yz \in Int /\ k \in Int /\ S \in Int
  BY <1>1, <1>3
<1>8. Same(q, Q) /\ Same(gyz, Gz) /\ Same(gzy, Hy) /\ Same(S, P) /\ Same(k, r)
  BY <1>2, <1>3
<1> HIDE DEF full, best, q, gyz, gzy, Q, Gz, Hy, P, yz, k
<1>9. Same(q * P, yz * r) /\ q * P \in Int /\ yz * r \in Int
  <2>1. Same(P, S)
    BY <1>7, <1>8, SameSym
  <2>2. Same(q * P, Q * S) /\ q * P \in Int /\ Q * S \in Int
    BY <1>7, <1>8, <2>1, SameOf
  <2>3. Same(yz * k, yz * r)
    <3>1. yz \in Int /\ k \in Int /\ r \in Int /\ Same(k, r)
      BY <1>7, <1>8
    <3> QED
      BY <3>1, ProductSame
  <2>4. yz * r \in Int
    BY <1>7
  <2> QED
    BY <1>6, <2>2, <2>3, <2>4, SameTrans
<1> DEFINE m == yz * r
           qP == q * P
<1>10. m \in Int /\ qP \in Int /\ Same(qP, m) /\ Same(gyz, m) /\ Same(gzy, m)
       /\ best = x - m /\ full = ((x - gyz) - gzy) + qP
  BY <1>5, <1>6, <1>8, <1>9
<1> HIDE DEF m, qP
<1>11. Same(x - gyz, x - m) /\ x - gyz \in Int /\ x - m \in Int
  <2>1. Same(x - gyz, x - m)
    <3>1. gyz \in Int /\ m \in Int /\ x \in Int /\ Same(gyz, m)
      BY <1>7, <1>10
    <3> QED
      BY <3>1, ProductSame
  <2> QED
    BY <1>7, <1>10, <2>1
<1>12. Same((x - gyz) - gzy, (x - m) - m) /\ (x - gyz) - gzy \in Int /\ (x - m) - m \in Int
  BY <1>7, <1>10, <1>11, SameOf
<1>13. Same(((x - gyz) - gzy) + qP, ((x - m) - m) + m)
  BY <1>10, <1>12, SameOf
<1>14. ((x - m) - m) + m = best /\ best \in Int
  BY <1>10
<1>15. Same(full, best) /\ best \in Int
  BY <1>10, <1>13, <1>14
<1> QED
  BY <1>15 DEF full, best

\* The covariance after a correction.
LEMMA OptimalCovariance ==
  ASSUME NEW P \in MatrixType, Symmetric(P), NEW i \in 1 .. 4, NEW j \in 1 .. 4
  PROVE  LET S == (P[1][1] + MeasurementNoise) % Prime
         IN  JosephForm(P)[i][j] = (P[i][j] - Over(P[i][1] * P[1][j], S)) % Prime
<1> DEFINE S == (P[1][1] + MeasurementNoise) % Prime
           r == Reciprocal[S]
           x == P[i][j]
           y == P[i][1]
           z == P[1][j]
           p == P[1][1]
           gy == Gain(P)[i]
           gz == Gain(P)[j]
           full == ((x - gy * z) - gz * (y - gy * p)) + gy * gz * MeasurementNoise
           best == x - y * z * r
           over == Over(y * z, S)
<1>1. S \in Field /\ r \in Int /\ \A k \in 1 .. 4 : Gain(P)[k] = (P[1][k] * r) % Prime
  BY GainEntries
<1>2. x \in Int /\ y \in Int /\ z \in Int /\ p \in Int /\ MeasurementNoise \in Int
  BY EntryIs, FilterConstants
<1>3. P[1][i] = y /\ P[1][j] = z
  BY DEF Symmetric
<1>4. gy = (y * r) % Prime /\ gz = (z * r) % Prime
  BY <1>1, <1>3
<1>5. S \in Int /\ S = (p + MeasurementNoise) % Prime /\ p + MeasurementNoise \in Int
  BY <1>1, <1>2, SameInField
<1>6. full \in Int /\ JosephForm(P)[i][j] = full % Prime
  BY JosephEntries
<1>7. over \in Int /\ Same(over, (y * z) * r) /\ (y * z) * r \in Int
  <2>1. y * z \in Int
    BY <1>2
  <2>2. S % Prime = S
    BY <1>1, SameInField
  <2> HIDE DEF S
  <2>3. over \in Int /\ Same(over, (y * z) * Reciprocal[S % Prime])
    BY <1>5, <2>1, OverIs
  <2>4. (y * z) * r \in Int
    BY <1>1, <2>1
  <2> QED
    BY <2>2, <2>3, <2>4
<1>8. r = Reciprocal[S]
  OBVIOUS
<1> HIDE DEF S, r, x, y, z, p, over
<1>9. gy \in Int /\ gz \in Int /\ Same(gy, y * r) /\ Same(gz, z * r)
  <2>1. y * r \in Int /\ z * r \in Int
    BY <1>1, <1>2
  <2> HIDE DEF gy, gz
  <2> QED
    BY <1>4, <2>1, SameIs
<1>10. Same(S, p + MeasurementNoise)
  BY <1>5, SameIs
<1> HIDE DEF gy, gz
<1>11. Same(full, best) /\ best \in Int
  BY <1>1, <1>2, <1>8, <1>9, <1>10, OptimalNumbers
<1>12. Same(best, x - over) /\ x - over \in Int
  <2>1. Same((y * z) * r, over)
    BY <1>7, SameSym
  <2>2. Same(x - (y * z) * r, x - over)
    BY <1>2, <1>7, <2>1, ProductSame
  <2>3. best = x - (y * z) * r
    OBVIOUS
  <2> QED
    BY <1>2, <1>7, <2>2, <2>3
<1> HIDE DEF full, best
<1>13. Same(full, x - over)
  BY <1>6, <1>11, <1>12, SameTrans
<1>14. JosephForm(P)[i][j] = (x - over) % Prime
  BY <1>6, <1>12, <1>13, SameInField
<1> QED
  BY <1>14 DEF x, over, y, z, S


LEMMA JosephSymmetric ==
  ASSUME NEW P \in MatrixType, Symmetric(P)
  PROVE  Symmetric(JosephForm(P))
<1> DEFINE S == (P[1][1] + MeasurementNoise) % Prime
<1> SUFFICES ASSUME NEW i \in 1 .. 4, NEW j \in 1 .. 4
             PROVE  JosephForm(P)[i][j] = JosephForm(P)[j][i]
  BY DEF Symmetric
<1>1. JosephForm(P)[i][j] = (P[i][j] - Over(P[i][1] * P[1][j], S)) % Prime
  BY OptimalCovariance
<1>2. JosephForm(P)[j][i] = (P[j][i] - Over(P[j][1] * P[1][i], S)) % Prime
  BY OptimalCovariance
<1>3. P[i][j] = P[j][i]
  BY DEF Symmetric
<1>4. P[i][1] * P[1][j] = P[j][1] * P[1][i]
  <2>1. P[i][1] = P[1][i] /\ P[j][1] = P[1][j] /\ P[1][i] \in Int /\ P[1][j] \in Int
    BY EntryIs DEF Symmetric
  <2> QED
    BY <2>1
<1> QED
  BY <1>1, <1>2, <1>3, <1>4, Zenon

LEMMA UpdateSymmetric ==
  ASSUME NEW f \in FilterType, Symmetric(f.covariance), NEW o \in Field
  PROVE  Symmetric(FilterUpdate(f, o).covariance)
<1> DEFINE g == FilterPredict(f)
<1>1. f.covariance \in MatrixType /\ o \in Int
  BY FilterFields, SameInField
<1>2. g \in FilterType /\ g.covariance = PredictedCovariance(f.covariance)
  BY PredictIs
<1>3. g.covariance \in MatrixType /\ Symmetric(g.covariance)
  BY <1>1, <1>2, PredictedSymmetric
<1>4. Corrected(g, o).covariance = JosephForm(g.covariance)
  BY <1>1, <1>2, CorrectedIs
<1>5. Symmetric(Corrected(g, o).covariance)
  BY <1>3, <1>4, JosephSymmetric
<1> HIDE DEF g
<1>6. \/ FilterUpdate(f, o).covariance = f.covariance
      \/ FilterUpdate(f, o).covariance = Corrected(g, o).covariance
  BY UpdateIs DEF g
<1> QED
  BY <1>5, <1>6

LEMMA NewSymmetric == Symmetric(NewFilter.covariance)
<1>1. NewFilter.covariance = IdentityMatrix
  BY DEF NewFilter
<1> QED
  BY <1>1, IdentityIs DEF Symmetric

LEMMA FilteredSymmetric ==
  ASSUME NEW inputs \in Seq(Inputs), NEW shift \in Int
  PROVE  Symmetric(Filtered(inputs, shift).covariance)
<1> DEFINE n == Len(inputs)
<1>1. n \in Nat
  BY LenProperties
<1>2. PICK f : IsRun(f, n, inputs, shift) /\ Filtered(inputs, shift) = f[n]
  BY FilteredIs
<1>3. \A k \in 0 .. n : f[k] \in FilterType
  BY <1>2, RunType
<1>4. \A k \in 1 .. n : Observed(inputs, shift, k) \in Field
  BY ObservedIs
<1> HIDE DEF n
<1> DEFINE T == {k \in Nat : k <= n => Symmetric(f[k].covariance)}
<1>5. 0 \in T
  BY <1>2, NewSymmetric DEF IsRun
<1>6. ASSUME NEW k \in T
      PROVE  k + 1 \in T
  <2>1. k \in Nat /\ k + 1 \in Nat
    OBVIOUS
  <2> SUFFICES ASSUME k + 1 <= n PROVE Symmetric(f[k + 1].covariance)
    BY <2>1
  <2>2. k + 1 \in 1 .. n /\ k \in 0 .. n /\ (k + 1) - 1 = k /\ Symmetric(f[k].covariance)
    BY <1>1, <2>1
  <2>3. f[k + 1] = FilterUpdate(f[k], Observed(inputs, shift, k + 1))
    BY <1>2, <2>2 DEF IsRun
  <2> QED
    BY <1>3, <1>4, <2>2, <2>3, UpdateSymmetric
<1> HIDE DEF T
<1>7. T = Nat
  <2>1. T \in SUBSET Nat
    BY DEF T
  <2> QED
    BY <1>5, <1>6, <2>1, NatInduct
<1>8. n \in T /\ n <= n
  BY <1>1, <1>7
<1> QED
  BY <1>2, <1>8 DEF T

\* One Update after others is the one of least variance.
LEMMA UpdateOptimal ==
  ASSUME NEW f \in FilterType, Symmetric(f.covariance), f.iterations # 0, NEW o \in Field
  PROVE  LET prior == FilterPredict(f)
             g == FilterUpdate(f, o)
             P == prior.covariance
             S == (P[1][1] + MeasurementNoise) % Prime
             residual == (o - prior.estimate[1]) % Prime
         IN  \A i \in 1 .. 4 :
               /\ g.estimate[i] = (prior.estimate[i] + Over(P[i][1] * residual, S)) % Prime
               /\ \A j \in 1 .. 4 :
                    /\ g.covariance[i][j] = (P[i][j] - Over(P[i][1] * P[1][j], S)) % Prime
                    /\ g.covariance[i][j] = g.covariance[j][i]
<1> DEFINE prior == FilterPredict(f)
           g == FilterUpdate(f, o)
           h == Corrected(prior, o)
           e == prior.estimate
           P == prior.covariance
           S == (P[1][1] + MeasurementNoise) % Prime
           r == Reciprocal[S]
           residual == (o - e[1]) % Prime
<1>1. prior \in FilterType /\ o \in Int
  BY PredictIs, SameInField
<1>2. e \in VecType /\ P \in MatrixType /\ Symmetric(P)
  <2>1. f.covariance \in MatrixType /\ P = PredictedCovariance(f.covariance)
    BY PredictIs, FilterFields
  <2> QED
    BY <1>1, <2>1, FilterFields, PredictedSymmetric
<1>3. Residual(e, o) = residual
  BY <1>2, MeasuredPosition DEF Residual
<1>4. /\ residual \in Field
      /\ h.estimate = VecPlus(e, VecScaled(Gain(P), residual))
      /\ h.covariance = JosephForm(P)
  BY <1>1, <1>3, CorrectedIs
<1>5. g.estimate = h.estimate /\ g.covariance = h.covariance
  BY UpdateIs
<1>6. Symmetric(g.covariance)
  BY UpdateSymmetric
<1> HIDE DEF prior, g, h
<1>7. ASSUME NEW i \in 1 .. 4, NEW j \in 1 .. 4
      PROVE  /\ g.covariance[i][j] = (P[i][j] - Over(P[i][1] * P[1][j], S)) % Prime
             /\ g.covariance[i][j] = g.covariance[j][i]
  <2>1. JosephForm(P)[i][j] = (P[i][j] - Over(P[i][1] * P[1][j], S)) % Prime
    BY <1>2, OptimalCovariance
  <2> HIDE DEF P, S
  <2> QED
    BY <1>4, <1>5, <1>6, <2>1 DEF Symmetric
<1>8. ASSUME NEW i \in 1 .. 4
      PROVE  g.estimate[i] = (e[i] + Over(P[i][1] * residual, S)) % Prime
  <2>1. S \in Field /\ r \in Int /\ \A k \in 1 .. 4 : Gain(P)[k] = (P[1][k] * r) % Prime
    BY <1>2, GainEntries
  <2>2. S \in Int /\ S % Prime = S
    BY <2>1, SameInField
  <2>3. e[i] \in Int /\ P[i][1] \in Int /\ residual \in Int /\ P[1][i] = P[i][1]
    BY <1>2, <1>4, EntryIs, SameInField DEF Symmetric
  <2> DEFINE a == Gain(P)[i]
             c == VecScaled(Gain(P), residual)
             p == P[i][1]
             over == Over(p * residual, S)
  <2>4. c \in VecType /\ c[i] = (a * residual) % Prime /\ a \in Int
    BY <1>2, <2>3, GainIs, VecScaledIs, EntryIs
  <2>5. g.estimate[i] = (e[i] + c[i]) % Prime
    BY <1>2, <1>4, <1>5, <2>4, VecPlusIs
  <2>6. a = (p * r) % Prime
    BY <2>1, <2>3
  <2>7. c[i] \in Int
    BY <2>4, EntryIs
  <2>8. p \in Int
    BY <2>3
  <2> HIDE DEF P, S, residual, e, a, c, p
  <2>9. over \in Int /\ Same(over, (p * residual) * Reciprocal[S % Prime])
    <3>1. p * residual \in Int
      BY <2>3, <2>8
    <3> QED
      BY <2>2, <3>1, OverIs
  <2>10. Same(over, (p * residual) * r)
    BY <2>2, <2>9
  <2> HIDE DEF r, over
  <2>11. Same(a, p * r) /\ p * r \in Int
    <3>1. p * r \in Int
      BY <2>1, <2>8
    <3> QED
      BY <2>6, <3>1, SameIs
  <2>12. Same(a * residual, (p * r) * residual) /\ a * residual \in Int
         /\ (p * r) * residual \in Int
    <3> DEFINE q == p * r
    <3>1. q \in Int /\ Same(a, q) /\ a \in Int /\ residual \in Int
      BY <2>3, <2>4, <2>11
    <3> HIDE DEF q
    <3>2. Same(a * residual, q * residual)
      BY <3>1, ProductSame
    <3>3. a * residual \in Int /\ q * residual \in Int
      BY <3>1
    <3> QED
      BY <3>2, <3>3 DEF q
  <2>13. (p * r) * residual = (p * residual) * r
    BY <2>1, <2>3, <2>8
  <2>14. Same(c[i], a * residual)
    BY <2>4, <2>12, SameIs
  <2> DEFINE x == (p * residual) * r
             y == a * residual
             z == c[i]
  <2>15. x \in Int /\ y \in Int /\ z \in Int /\ Same(z, y) /\ Same(y, x) /\ Same(over, x)
         /\ over \in Int
    BY <2>7, <2>9, <2>10, <2>12, <2>13, <2>14
  <2> HIDE DEF x, y, z
  <2>16. Same(z, over)
    BY <2>15, SameSym, SameTrans
  <2> DEFINE w == e[i]
  <2>17. w \in Int
    BY <2>3
  <2> HIDE DEF w
  <2>18. Same(w + z, w + over)
    BY <2>15, <2>16, <2>17, SameIs, SameOf
  <2>19. w + z \in Int /\ w + over \in Int
    BY <2>15, <2>17
  <2>20. (w + z) % Prime = (w + over) % Prime
    BY <2>18, <2>19, SameInField
  <2> QED
    BY <2>5, <2>20 DEF w, z, over, p
<1> QED
  BY <1>7, <1>8 DEF prior, g

\* The covariance stays symmetric, and the Joseph form is what the gain of least
\* variance gives (kalman_filter.cc:63-69).
THEOREM OptimalCorrect == Spec => []FilterIsOptimal
<1>1. StrokeInv /\ FilterInv => FilterIsOptimal
  <2> DEFINE all == history.now
             front == Front(all)
             in == Last(all)
             f == Filtered(front, 0)
             n == Len(all)
  <2> SUFFICES ASSUME StrokeInv, FilterInv, n > 1 PROVE FilterIsOptimal
    BY DEF FilterIsOptimal
  <2>1. all \in Seq(Inputs)
    BY DEF StrokeInv, Knows
  <2>2. n \in Nat
    BY <2>1, LenProperties
  <2>3. front \in Seq(Inputs) /\ Len(front) = n - 1 /\ in \in Inputs /\ Append(front, in) = all
    <3>1. 1 \in 1 .. n + 1 /\ n - 1 \in 0 .. n /\ n \in 1 .. n
      BY <2>2
    <3>2. front = SubSeq(all, 1, n - 1) /\ in = all[n]
      BY DEF Front, Last
    <3> HIDE DEF all, n
    <3>3. /\ front \in Seq(Inputs) /\ Len(front) = n - 1
          /\ \A k \in 1 .. n - 1 : front[k] = all[k]
      <4>1. /\ front \in Seq(Inputs)
            /\ Len(front) = IF 1 <= n - 1 THEN (n - 1) - 1 + 1 ELSE 0
            /\ \A k \in 1 .. (n - 1) - 1 + 1 : front[k] = all[1 + k - 1]
        BY <2>1, <3>1, <3>2, SubSeqProperties DEF n
      <4>2. Len(front) = n - 1 /\ (n - 1) - 1 + 1 = n - 1
        BY <2>2, <4>1
      <4>3. \A k \in 1 .. n - 1 : 1 + k - 1 = k
        BY <2>2
      <4> QED
        BY <4>1, <4>2, <4>3
    <3>4. in \in Inputs
      BY <2>1, <3>1, <3>2, ElementOfSeq DEF n
    <3> HIDE DEF front, in
    <3>5. /\ Append(front, in) \in Seq(Inputs) /\ Len(Append(front, in)) = (n - 1) + 1
          /\ \A k \in 1 .. n - 1 : Append(front, in)[k] = front[k]
          /\ Append(front, in)[(n - 1) + 1] = in
      BY <3>3, <3>4, AppendProperties
    <3>6. (n - 1) + 1 = n
      BY <2>2
    <3>7. \A k \in 1 .. n : Append(front, in)[k] = all[k]
      <4>1. \A k \in 1 .. n : k = n \/ k \in 1 .. n - 1
        BY <2>2
      <4> QED
        BY <3>2, <3>3, <3>5, <3>6, <4>1
    <3>8. Len(Append(front, in)) = Len(all)
      BY <3>5, <3>6 DEF n
    <3>9. Append(front, in) = all
      BY <2>1, <3>5, <3>6, <3>7, <3>8, SeqEqual
    <3> QED
      BY <3>3, <3>4, <3>9
  <2>4. in.position \in Field
    BY <2>3, InputsAssumption
  <2> HIDE DEF all, front, in, n
  <2>5. f \in FilterType /\ f.iterations # 0 /\ Symmetric(f.covariance)
    <3>1. f \in FilterType /\ f.iterations = n - 1 /\ Symmetric(f.covariance)
      BY <2>3, FilteredType, FilteredSymmetric
    <3>2. n - 1 # 0
      BY <2>2
    <3> QED
      BY <3>1, <3>2
  <2>6. filter = FilterUpdate(f, in.position)
    BY <2>3, UpdateFiltered DEF FilterInv, all
  <2> HIDE DEF f
  <2> QED
    BY <2>4, <2>5, <2>6, UpdateOptimal DEF FilterIsOptimal, f, all, front, in
<1> QED
  BY <1>1, StrokeInvHolds, FilterInvHolds, PTL


-----------------------------------------------------------------------------
(* The prediction is smooth *)

LEMMA HalfIs ==
  /\ Half \in Int /\ Sixth \in Int
  /\ Reciprocal[2 % Prime] = Half /\ Reciprocal[6 % Prime] = Sixth
  /\ Same(1 - 2 * Half, 0) /\ Same(Half - 3 * Sixth, 0)
<1>1. 2 \in Field /\ 6 \in Field /\ 2 # 0 /\ 6 # 0
  BY PrimeNat DEF Field
<1>2. /\ Half \in Int /\ Sixth \in Int /\ Same(2 * Half, 1) /\ Same(6 * Sixth, 1)
  BY <1>1, ReciprocalIs DEF Half, Sixth
<1>3. 2 % Prime = 2 /\ 6 % Prime = 6
  BY <1>1, SameInField
<1>4. Same(1 - 2 * Half, 0)
  <2> DEFINE d == 2 * Half
  <2>1. d \in Int /\ Same(d, 1) /\ 1 \in Int
    BY <1>2
  <2> HIDE DEF d
  <2>2. Same(1 - d, 1 - 1)
    BY <2>1, ProductSame
  <2> QED
    BY <2>2 DEF d
<1>5. Same(Half - 3 * Sixth, 0)
  <2> DEFINE d == 2 * Half
             s == 6 * Sixth
             h == Half
             t == 3 * Sixth
  <2>1. d \in Int /\ s \in Int /\ h \in Int /\ t \in Int /\ Same(d, 1) /\ Same(s, 1) /\ 1 \in Int
    BY <1>2
  <2>2. t * d = s * h /\ t * 1 = t /\ 1 * h = h /\ h - h = 0
    BY <1>2
  <2> HIDE DEF d, s, h, t
  <2>3. Same(t * d, t * 1) /\ Same(s * h, 1 * h)
    BY <2>1, ProductSame
  <2>4. Same(s * h, t) /\ Same(s * h, h) /\ s * h \in Int
    BY <2>1, <2>2, <2>3
  <2>5. Same(t, h)
    BY <2>1, <2>4, SameSym, SameTrans
  <2>6. Same(h - t, h - h)
    BY <2>1, <2>5, ProductSame
  <2> QED
    BY <2>2, <2>6 DEF h, t
<1> QED
  BY <1>2, <1>3, <1>4, <1>5 DEF Half, Sixth

PositionAt(p, v, a, j, t) == p + v * t + (a * (t * t)) * Half + (j * ((t * t) * t)) * Sixth
VelocityAt(v, a, j, t) == v + a * t + (j * (t * t)) * Half
AccelerationAt(a, j, t) == a + j * t

LEMMA CubicType ==
  ASSUME NEW p \in Int, NEW v \in Int, NEW a \in Int, NEW j \in Int, NEW t \in Int
  PROVE  /\ PositionAt(p, v, a, j, t) \in Int /\ VelocityAt(v, a, j, t) \in Int
         /\ AccelerationAt(a, j, t) \in Int
BY HalfIs DEF PositionAt, VelocityAt, AccelerationAt

SameCubic(p, v, a, q, w, b) == Same(p, q) /\ Same(v, w) /\ Same(a, b)

\* With what is the same, so is the cubic.
LEMMA CubicSame ==
  ASSUME NEW p \in Int, NEW v \in Int, NEW a \in Int, NEW j \in Int, NEW t \in Int,
         NEW q \in Int, NEW w \in Int, NEW b \in Int,
         SameCubic(p, v, a, q, w, b)
  PROVE  SameCubic(PositionAt(p, v, a, j, t), VelocityAt(v, a, j, t), AccelerationAt(a, j, t),
                   PositionAt(q, w, b, j, t), VelocityAt(w, b, j, t), AccelerationAt(b, j, t))
<1> USE DEF SameCubic
<1> DEFINE h == Half
           m == (j * ((t * t) * t)) * Sixth
           n == (j * (t * t)) * Half
           u == t * t
           k == j * t
<1>1. h \in Int /\ m \in Int /\ n \in Int /\ u \in Int /\ k \in Int
  BY HalfIs
<1>2. /\ PositionAt(p, v, a, j, t) = p + v * t + (a * u) * h + m
      /\ PositionAt(q, w, b, j, t) = q + w * t + (b * u) * h + m
      /\ VelocityAt(v, a, j, t) = v + a * t + n /\ VelocityAt(w, b, j, t) = w + b * t + n
      /\ AccelerationAt(a, j, t) = a + k /\ AccelerationAt(b, j, t) = b + k
  BY DEF PositionAt, VelocityAt, AccelerationAt
<1> HIDE DEF h, m, n, u, k
<1>3. Same(v * t, w * t) /\ Same(a * t, b * t) /\ Same(a * u, b * u)
  BY <1>1, ProductSame
<1> DEFINE vt == v * t
           wt == w * t
           at == a * t
           bt == b * t
           au == a * u
           bu == b * u
<1>4. vt \in Int /\ wt \in Int /\ at \in Int /\ bt \in Int /\ au \in Int /\ bu \in Int
  BY <1>1
<1>5. Same(vt, wt) /\ Same(at, bt) /\ Same(au, bu)
  BY <1>3
<1>6. /\ PositionAt(p, v, a, j, t) = p + vt + au * h + m
      /\ PositionAt(q, w, b, j, t) = q + wt + bu * h + m
      /\ VelocityAt(v, a, j, t) = v + at + n /\ VelocityAt(w, b, j, t) = w + bt + n
  BY <1>2
<1> HIDE DEF vt, wt, at, bt, au, bu
<1>7. Same(au * h, bu * h) /\ Same(p + vt, q + wt) /\ Same(v + at, w + bt) /\ Same(a + k, b + k)
  BY <1>1, <1>4, <1>5, ProductSame, SameOf
<1> DEFINE c == au * h
           d == bu * h
           e == p + vt
           f == q + wt
           x == v + at
           y == w + bt
<1>8. c \in Int /\ d \in Int /\ e \in Int /\ f \in Int /\ x \in Int /\ y \in Int
  BY <1>1, <1>4
<1>9. Same(c, d) /\ Same(e, f) /\ Same(x, y)
  BY <1>7
<1>10. /\ PositionAt(p, v, a, j, t) = e + c + m /\ PositionAt(q, w, b, j, t) = f + d + m
       /\ VelocityAt(v, a, j, t) = x + n /\ VelocityAt(w, b, j, t) = y + n
  BY <1>6
<1> HIDE DEF c, d, e, f, x, y
<1>11. Same(e + c, f + d) /\ Same(x + n, y + n) /\ e + c \in Int /\ f + d \in Int
  <2>1. Same(e + c, f + d)
    BY <1>8, <1>9, SameOf
  <2>2. Same(x + n, y + n)
    BY <1>1, <1>8, <1>9, ProductSame
  <2> QED
    BY <1>8, <2>1, <2>2
<1>12. Same((e + c) + m, (f + d) + m)
  BY <1>1, <1>11, ProductSame
<1> QED
  BY <1>2, <1>7, <1>10, <1>11, <1>12

\* Exactly, but for multiples of what is 0 in the field.
LEMMA CubicExact ==
  ASSUME NEW p \in Int, NEW v \in Int, NEW a \in Int, NEW j \in Int,
         NEW x \in Int, NEW y \in Int, NEW h \in Int, NEW s \in Int
  PROVE  LET P == p + v * x + (a * (x * x)) * h + (j * ((x * x) * x)) * s
             V == v + a * x + (j * (x * x)) * h
             A == a + j * x
             z == x + y
         IN  /\ P + V * y + (A * (y * y)) * h + (j * ((y * y) * y)) * s
                  = (p + v * z + (a * (z * z)) * h + (j * ((z * z) * z)) * s)
                    + (a * x * y) * (1 - 2 * h) + (j * x * x * y + j * x * y * y) * (h - 3 * s)
             /\ V + A * y + (j * (y * y)) * h
                  = (v + a * z + (j * (z * z)) * h) + (j * x * y) * (1 - 2 * h)
             /\ A + j * y = a + j * z
OBVIOUS

\* P, V and A are the cubic after a time of x.
CubicAfter(P, V, A, p, v, a, j, x) ==
  /\ P = PositionAt(p, v, a, j, x) /\ V = VelocityAt(v, a, j, x)
  /\ A = AccelerationAt(a, j, x)

CubicsAgree(P, V, A, p, v, a, j, y, z) ==
  /\ Same(PositionAt(P, V, A, j, y), PositionAt(p, v, a, j, z))
  /\ Same(VelocityAt(V, A, j, y), VelocityAt(v, a, j, z))
  /\ AccelerationAt(A, j, y) = AccelerationAt(a, j, z)

\* Evaluating twice is evaluating once, later.
LEMMA CubicTwice ==
  ASSUME NEW p \in Int, NEW v \in Int, NEW a \in Int, NEW j \in Int,
         NEW x \in Int, NEW y \in Int, NEW z \in Int, z = x + y,
         NEW P, NEW V, NEW A,
         CubicAfter(P, V, A, p, v, a, j, x)
  PROVE  CubicsAgree(P, V, A, p, v, a, j, y, z)
<1> DEFINE m == a * x * y
           n == j * x * x * y + j * x * y * y
           k == j * x * y
           d == 1 - 2 * Half
           e == Half - 3 * Sixth
           pos == PositionAt(p, v, a, j, z)
           vel == VelocityAt(v, a, j, z)
<1>1. d \in Int /\ e \in Int /\ Same(d, 0) /\ Same(e, 0) /\ Half \in Int /\ Sixth \in Int
  BY HalfIs
<1>2. m \in Int /\ n \in Int /\ k \in Int
  OBVIOUS
<1>3. /\ PositionAt(P, V, A, j, y) = pos + m * d + n * e
      /\ VelocityAt(V, A, j, y) = vel + k * d
      /\ AccelerationAt(A, j, y) = AccelerationAt(a, j, z)
  BY <1>1, CubicExact DEF PositionAt, VelocityAt, AccelerationAt, CubicAfter
<1>4. pos \in Int /\ vel \in Int
  BY CubicType
<1> HIDE DEF m, n, k, d, e, pos, vel
<1>5. ASSUME NEW i \in Int, NEW o \in Int, Same(o, 0)
      PROVE  Same(i * o, 0) /\ i * o \in Int
  <2>1. Same(i * o, i * 0)
    <3>1. 0 \in Int
      OBVIOUS
    <3> QED
      BY <1>5, <3>1, ProductSame
  <2> QED
    BY <2>1
<1>6. Same(m * d, 0) /\ Same(n * e, 0) /\ Same(k * d, 0)
      /\ m * d \in Int /\ n * e \in Int /\ k * d \in Int
  BY <1>1, <1>2, <1>5
<1> DEFINE md == m * d
           ne == n * e
           kd == k * d
<1>7. md \in Int /\ ne \in Int /\ kd \in Int /\ Same(md, 0) /\ Same(ne, 0) /\ Same(kd, 0)
      /\ 0 \in Int
  BY <1>6
<1> HIDE DEF md, ne, kd
<1>8. ASSUME NEW i \in Int, NEW o \in Int, Same(o, 0)
      PROVE  Same(i + o, i)
  <2>1. 0 \in Int /\ Same(i, i)
    BY SameIs
  <2>2. Same(i + o, i + 0)
    BY <1>8, <2>1, SameOf
  <2> QED
    BY <2>2
<1>9. Same(pos + md, pos) /\ pos + md \in Int /\ Same((pos + md) + ne, pos + md)
      /\ Same(vel + kd, vel) /\ (pos + md) + ne \in Int
  <2>1. pos + md \in Int /\ (pos + md) + ne \in Int
    BY <1>4, <1>7
  <2> QED
    BY <1>4, <1>7, <1>8, <2>1
<1>10. Same((pos + md) + ne, pos)
  BY <1>4, <1>9, SameTrans
<1> QED
  BY <1>3, <1>9, <1>10 DEF pos, vel, md, ne, kd, CubicsAgree


CubicState == [position : Field, velocity : Field, acceleration : Field, jerk : Field]

LEMMA CubicStateIs ==
  /\ \A s \in CubicState :
       /\ s.position \in Field /\ s.velocity \in Field /\ s.acceleration \in Field
       /\ s.jerk \in Field
       /\ s.position \in Int /\ s.velocity \in Int /\ s.acceleration \in Int /\ s.jerk \in Int
  /\ \A r, s \in CubicState :
       r.position = s.position /\ r.velocity = s.velocity
         /\ r.acceleration = s.acceleration /\ r.jerk = s.jerk => r = s
<1>1. \A s \in CubicState :
        /\ s.position \in Field /\ s.velocity \in Field /\ s.acceleration \in Field
        /\ s.jerk \in Field
  BY DEF CubicState
<1>2. \A r, s \in CubicState :
        r.position = s.position /\ r.velocity = s.velocity
          /\ r.acceleration = s.acceleration /\ r.jerk = s.jerk => r = s
  BY DEF CubicState
<1> QED
  BY <1>1, <1>2, SameInField

\* What the steps of EvaluateCubic add up to.
LEMMA CubicSums ==
  ASSUME NEW p \in Int, NEW v \in Int, NEW a \in Int, NEW j \in Int, NEW dt \in Int
  PROVE  LET dt2 == (dt * dt) % Prime
             dt3 == (dt2 * dt) % Prime
             pos == p + v * dt + Over(a * dt2, 2) + Over(j * dt3, 6)
             vel == v + a * dt + Over(j * dt2, 2)
         IN  /\ pos \in Int /\ Same(pos, PositionAt(p, v, a, j, dt))
             /\ vel \in Int /\ Same(vel, VelocityAt(v, a, j, dt))
<1> DEFINE q == dt * dt
           dt2 == q % Prime
           dt3 == (dt2 * dt) % Prime
           c == q * dt
<1>1. q \in Int /\ c \in Int
  OBVIOUS
<1>2. dt2 \in Int /\ Same(dt2, q)
  <2> HIDE DEF q
  <2> QED
    BY <1>1, SameIs
<1>3. dt3 \in Int /\ Same(dt3, c)
  <2> HIDE DEF q, dt2
  <2>1. dt2 * dt \in Int
    BY <1>2
  <2>2. dt3 \in Int /\ Same(dt3, dt2 * dt)
    BY <2>1, SameIs
  <2>3. Same(dt2 * dt, q * dt)
    BY <1>1, <1>2, ProductSame
  <2> QED
    BY <1>1, <2>1, <2>2, <2>3, SameTrans
<1> HIDE DEF q, dt2, dt3, c
<1>4. ASSUME NEW x \in Int, NEW y \in Int, NEW z \in Int, Same(y, z), NEW n \in Int,
             NEW r \in Int, Reciprocal[n % Prime] = r
      PROVE  Over(x * y, n) \in Int /\ Same(Over(x * y, n), (x * z) * r) /\ (x * z) * r \in Int
  <2>1. x * y \in Int /\ x * z \in Int /\ Same(x * y, x * z)
    <3>1. Same(x * y, x * z)
      BY <1>4, ProductSame
    <3> QED
      BY <3>1
  <2> DEFINE xy == x * y
             xz == x * z
  <2>2. xy \in Int /\ xz \in Int /\ Same(xy, xz)
    BY <2>1
  <2> HIDE DEF xy, xz
  <2>3. Over(xy, n) \in Int /\ Same(Over(xy, n), xy * r)
    BY <1>4, <2>2, OverIs
  <2>4. Same(xy * r, xz * r)
    BY <2>2, ProductSame
  <2>5. xy * r \in Int /\ xz * r \in Int
    BY <2>2
  <2>6. Same(Over(xy, n), xz * r)
    BY <2>3, <2>4, <2>5, SameTrans
  <2> QED
    BY <2>3, <2>5, <2>6 DEF xy, xz
<1> DEFINE oa == Over(a * dt2, 2)
           oj == Over(j * dt3, 6)
           ov == Over(j * dt2, 2)
           ea == (a * q) * Half
           ej == (j * c) * Sixth
           ev == (j * q) * Half
           vt == v * dt
           at == a * dt
<1>5. /\ oa \in Int /\ oj \in Int /\ ov \in Int /\ ea \in Int /\ ej \in Int /\ ev \in Int
      /\ Same(oa, ea) /\ Same(oj, ej) /\ Same(ov, ev)
  <2>1. /\ Half \in Int /\ Sixth \in Int /\ 2 \in Int /\ 6 \in Int
        /\ Reciprocal[2 % Prime] = Half /\ Reciprocal[6 % Prime] = Sixth
    BY HalfIs
  <2>2. oa \in Int /\ ea \in Int /\ Same(oa, ea)
    BY <1>1, <1>2, <1>4, <2>1
  <2>3. oj \in Int /\ ej \in Int /\ Same(oj, ej)
    BY <1>1, <1>3, <1>4, <2>1
  <2>4. ov \in Int /\ ev \in Int /\ Same(ov, ev)
    BY <1>1, <1>2, <1>4, <2>1
  <2> QED
    BY <2>2, <2>3, <2>4
<1>6. vt \in Int /\ at \in Int
  OBVIOUS
<1>7. PositionAt(p, v, a, j, dt) = p + vt + ea + ej /\ VelocityAt(v, a, j, dt) = v + at + ev
  BY DEF PositionAt, VelocityAt, q, c
<1> HIDE DEF oa, oj, ov, ea, ej, ev, vt, at
<1> DEFINE x == p + vt
           y == v + at
<1>8. x \in Int /\ y \in Int
  BY <1>6
<1> HIDE DEF x, y
<1>9. Same(x + oa, x + ea) /\ Same(y + ov, y + ev)
  BY <1>5, <1>8, SameIs, SameOf
<1>10. x + oa \in Int /\ x + ea \in Int /\ y + ov \in Int /\ y + ev \in Int
  BY <1>5, <1>8
<1>11. Same((x + oa) + oj, (x + ea) + ej)
  BY <1>5, <1>9, <1>10, SameOf
<1>12. (x + oa) + oj \in Int
  BY <1>5, <1>10
<1>13. /\ p + vt + oa + oj = (x + oa) + oj /\ v + at + ov = y + ov
       /\ p + vt + ea + ej = (x + ea) + ej /\ v + at + ev = y + ev
  BY DEF x, y
<1> QED
  BY <1>7, <1>9, <1>10, <1>11, <1>12, <1>13 DEF oa, oj, ov, vt, at, dt2, dt3, q

LEMMA EvaluateCubicIs ==
  ASSUME NEW s \in CubicState, NEW dt \in Int
  PROVE  LET g == EvaluateCubic(s, dt)
         IN  /\ g \in CubicState /\ g.jerk = s.jerk
             /\ Same(g.position, PositionAt(s.position, s.velocity, s.acceleration, s.jerk, dt))
             /\ Same(g.velocity, VelocityAt(s.velocity, s.acceleration, s.jerk, dt))
             /\ Same(g.acceleration, AccelerationAt(s.acceleration, s.jerk, dt))
<1> DEFINE p == s.position
           v == s.velocity
           a == s.acceleration
           j == s.jerk
           dt2 == (dt * dt) % Prime
           dt3 == (dt2 * dt) % Prime
           pos == p + v * dt + Over(a * dt2, 2) + Over(j * dt3, 6)
           vel == v + a * dt + Over(j * dt2, 2)
           acc == a + j * dt
           g == EvaluateCubic(s, dt)
<1>1. p \in Int /\ v \in Int /\ a \in Int /\ j \in Int
  BY CubicStateIs
<1>2. g = [s EXCEPT !.position = pos % Prime, !.velocity = vel % Prime,
                    !.acceleration = acc % Prime]
  BY DEF EvaluateCubic
<1>3. j = s.jerk
  OBVIOUS
<1> HIDE DEF p, v, a, j
<1>4. /\ pos \in Int /\ Same(pos, PositionAt(p, v, a, j, dt))
      /\ vel \in Int /\ Same(vel, VelocityAt(v, a, j, dt))
  BY <1>1, CubicSums
<1>5. acc \in Int /\ acc = AccelerationAt(a, j, dt)
  BY <1>1 DEF AccelerationAt
<1> HIDE DEF pos, vel, acc, g
<1>6. /\ pos % Prime \in Field /\ vel % Prime \in Field /\ acc % Prime \in Field
      /\ pos % Prime \in Int /\ vel % Prime \in Int /\ acc % Prime \in Int
      /\ Same(pos % Prime, pos) /\ Same(vel % Prime, vel) /\ Same(acc % Prime, acc)
  BY <1>4, <1>5, SameIs
<1>7. /\ g \in CubicState /\ g.jerk = j
      /\ g.position = pos % Prime /\ g.velocity = vel % Prime /\ g.acceleration = acc % Prime
  BY <1>2, <1>3, <1>6 DEF CubicState
<1>8. PositionAt(p, v, a, j, dt) \in Int /\ VelocityAt(v, a, j, dt) \in Int
  BY <1>1, CubicType
<1>9. /\ Same(g.position, PositionAt(p, v, a, j, dt))
      /\ Same(g.velocity, VelocityAt(v, a, j, dt))
      /\ Same(g.acceleration, AccelerationAt(a, j, dt))
  <2>1. Same(g.position, PositionAt(p, v, a, j, dt))
    BY <1>4, <1>6, <1>7, <1>8, SameTrans
  <2>2. Same(g.velocity, VelocityAt(v, a, j, dt))
    BY <1>4, <1>6, <1>7, <1>8, SameTrans
  <2> QED
    BY <1>5, <1>6, <1>7, <2>1, <2>2
<1> QED
  BY <1>7, <1>9 DEF g, p, v, a, j

LEMMA CubicStateEqual ==
  ASSUME NEW r \in CubicState, NEW s \in CubicState, Same(r.position, s.position),
         Same(r.velocity, s.velocity), Same(r.acceleration, s.acceleration), r.jerk = s.jerk
  PROVE  r = s
BY CubicStateIs, SameInField

LEMMA EvaluateNow ==
  ASSUME NEW s \in CubicState
  PROVE  EvaluateCubic(s, 0) = s
<1> DEFINE g == EvaluateCubic(s, 0)
           p == s.position
           v == s.velocity
           a == s.acceleration
           j == s.jerk
<1>1. p \in Int /\ v \in Int /\ a \in Int /\ j \in Int
  BY CubicStateIs
<1>2. /\ g \in CubicState /\ g.jerk = j
      /\ Same(g.position, PositionAt(p, v, a, j, 0))
      /\ Same(g.velocity, VelocityAt(v, a, j, 0))
      /\ Same(g.acceleration, AccelerationAt(a, j, 0))
  BY EvaluateCubicIs
<1> HIDE DEF p, v, a, j
<1>3. /\ PositionAt(p, v, a, j, 0) = p /\ VelocityAt(v, a, j, 0) = v
      /\ AccelerationAt(a, j, 0) = a
  BY <1>1, HalfIs DEF PositionAt, VelocityAt, AccelerationAt
<1> HIDE DEF g
<1>4. g = s
  BY <1>2, <1>3, CubicStateEqual DEF p, v, a, j
<1> QED
  BY <1>4 DEF g

LEMMA EvaluateTwice ==
  ASSUME NEW s \in CubicState, NEW x \in Int, NEW y \in Int
  PROVE  EvaluateCubic(EvaluateCubic(s, x), y) = EvaluateCubic(s, x + y)
<1> DEFINE p == s.position
           v == s.velocity
           a == s.acceleration
           j == s.jerk
           g == EvaluateCubic(s, x)
           h == EvaluateCubic(g, y)
           z == x + y
           k == EvaluateCubic(s, z)
           P == PositionAt(p, v, a, j, x)
           V == VelocityAt(v, a, j, x)
           A == AccelerationAt(a, j, x)
<1>1. p \in Int /\ v \in Int /\ a \in Int /\ j \in Int /\ z \in Int /\ z = x + y
  BY CubicStateIs
<1>2. /\ g \in CubicState /\ g.jerk = j /\ Same(g.position, P) /\ Same(g.velocity, V)
      /\ Same(g.acceleration, A)
  BY EvaluateCubicIs
<1>3. /\ h \in CubicState /\ h.jerk = g.jerk
      /\ Same(h.position, PositionAt(g.position, g.velocity, g.acceleration, g.jerk, y))
      /\ Same(h.velocity, VelocityAt(g.velocity, g.acceleration, g.jerk, y))
      /\ Same(h.acceleration, AccelerationAt(g.acceleration, g.jerk, y))
  BY <1>2, EvaluateCubicIs
<1>4. /\ k \in CubicState /\ k.jerk = j
      /\ Same(k.position, PositionAt(p, v, a, j, z))
      /\ Same(k.velocity, VelocityAt(v, a, j, z))
      /\ Same(k.acceleration, AccelerationAt(a, j, z))
  BY <1>1, EvaluateCubicIs
<1> HIDE DEF p, v, a, j, g, h, k, z
<1>5. P \in Int /\ V \in Int /\ A \in Int
  BY <1>1, CubicType
<1>6. /\ Same(PositionAt(P, V, A, j, y), PositionAt(p, v, a, j, z))
      /\ Same(VelocityAt(V, A, j, y), VelocityAt(v, a, j, z))
      /\ AccelerationAt(A, j, y) = AccelerationAt(a, j, z)
  <2>1. p \in Int /\ v \in Int /\ a \in Int /\ j \in Int /\ z \in Int /\ z = x + y
    BY <1>1
  <2>2. CubicAfter(P, V, A, p, v, a, j, x)
    BY DEF CubicAfter
  <2> HIDE DEF P, V, A
  <2>3. CubicsAgree(P, V, A, p, v, a, j, y, z)
    BY <2>1, <2>2, CubicTwice
  <2> QED
    BY <2>3 DEF CubicsAgree
<1> HIDE DEF P, V, A
<1> DEFINE gp == g.position
           gv == g.velocity
           ga == g.acceleration
<1>7. gp \in Int /\ gv \in Int /\ ga \in Int
  BY <1>2, CubicStateIs
<1>8. /\ Same(gp, P) /\ Same(gv, V) /\ Same(ga, A)
  BY <1>2
<1>9. /\ Same(h.position, PositionAt(gp, gv, ga, j, y))
      /\ Same(h.velocity, VelocityAt(gv, ga, j, y))
      /\ Same(h.acceleration, AccelerationAt(ga, j, y))
  BY <1>2, <1>3
<1> HIDE DEF gp, gv, ga
<1>10. /\ Same(PositionAt(gp, gv, ga, j, y), PositionAt(P, V, A, j, y))
       /\ Same(VelocityAt(gv, ga, j, y), VelocityAt(V, A, j, y))
       /\ Same(AccelerationAt(ga, j, y), AccelerationAt(A, j, y))
  <2>1. j \in Int /\ SameCubic(gp, gv, ga, P, V, A)
    BY <1>1, <1>8 DEF SameCubic
  <2>2. SameCubic(PositionAt(gp, gv, ga, j, y), VelocityAt(gv, ga, j, y),
                  AccelerationAt(ga, j, y), PositionAt(P, V, A, j, y),
                  VelocityAt(V, A, j, y), AccelerationAt(A, j, y))
    BY <1>5, <1>7, <2>1, CubicSame
  <2> QED
    BY <2>2 DEF SameCubic
<1>11. /\ PositionAt(gp, gv, ga, j, y) \in Int /\ PositionAt(P, V, A, j, y) \in Int
       /\ PositionAt(p, v, a, j, z) \in Int
       /\ VelocityAt(gv, ga, j, y) \in Int /\ VelocityAt(V, A, j, y) \in Int
       /\ VelocityAt(v, a, j, z) \in Int
       /\ AccelerationAt(ga, j, y) \in Int /\ AccelerationAt(a, j, z) \in Int
  BY <1>1, <1>5, <1>7, CubicType
<1>12. /\ h.position \in Int /\ h.velocity \in Int /\ h.acceleration \in Int
       /\ k.position \in Int /\ k.velocity \in Int /\ k.acceleration \in Int
  BY <1>3, <1>4, CubicStateIs
<1>13. ASSUME NEW b \in Int, NEW c \in Int, NEW d \in Int, NEW e \in Int, NEW f \in Int,
              Same(b, c), Same(c, d), Same(d, e), Same(f, e)
       PROVE  Same(b, f)
  BY <1>13, SameTrans, SameSym
<1>14. Same(h.position, k.position)
  BY <1>4, <1>6, <1>9, <1>10, <1>11, <1>12, <1>13
<1>15. Same(h.velocity, k.velocity)
  BY <1>4, <1>6, <1>9, <1>10, <1>11, <1>12, <1>13
<1>16. Same(h.acceleration, k.acceleration)
  <2>1. Same(AccelerationAt(ga, j, y), AccelerationAt(a, j, z))
    BY <1>6, <1>10
  <2>2. Same(h.acceleration, AccelerationAt(a, j, z))
    BY <1>9, <1>11, <1>12, <2>1, SameTrans
  <2>3. Same(AccelerationAt(a, j, z), k.acceleration)
    BY <1>4, <1>11, <1>12, SameSym
  <2> QED
    BY <1>11, <1>12, <2>2, <2>3, SameTrans
<1>17. h = k
  BY <1>2, <1>3, <1>4, <1>14, <1>15, <1>16, CubicStateEqual
<1> QED
  BY <1>17 DEF h, k, g, z


\* From point to point is from the estimate at once.
LEMMA BeyondIs ==
  ASSUME NEW s \in CubicState, NEW start, NEW count \in Nat
  PROVE  \A k \in 1 .. count :
           Beyond(s, start, count)[k].position = EvaluateCubic(s, k * Tick).position
<1>0. PICK f : BeyondRun(f, s, start, count)
  BY BeyondLoop
<1>1. /\ Beyond(s, start, count)
           = [k \in 1 .. count |-> Point(f[k].state.position, f[k].state.velocity,
                                        f[k].time)]
      /\ f[0].state = s
      /\ \A k \in 1 .. count : f[k].state = EvaluateCubic(f[k - 1].state, Tick)
  BY <1>0 DEF BeyondRun
<1>4. Tick \in Int
  BY ParamsAssumption, PrimeNat
<1> DEFINE T == {k \in Nat : k <= count => f[k].state = EvaluateCubic(s, k * Tick)}
<1>5. 0 \in T
  <2>1. 0 * Tick = 0
    BY <1>4
  <2> QED
    BY <1>1, <2>1, EvaluateNow
<1>6. ASSUME NEW k \in T
      PROVE  k + 1 \in T
  <2>1. k \in Nat /\ k + 1 \in Nat
    OBVIOUS
  <2> SUFFICES ASSUME k + 1 <= count
               PROVE  f[k + 1].state = EvaluateCubic(s, (k + 1) * Tick)
    BY <2>1
  <2>2. /\ k + 1 \in 1 .. count /\ (k + 1) - 1 = k
        /\ f[k].state = EvaluateCubic(s, k * Tick)
    BY <2>1
  <2>3. f[k + 1].state = EvaluateCubic(EvaluateCubic(s, k * Tick), Tick)
    BY <1>1, <2>2
  <2>4. k * Tick \in Int /\ k * Tick + Tick = (k + 1) * Tick
    BY <1>4, <2>1
  <2>5. EvaluateCubic(EvaluateCubic(s, k * Tick), Tick) = EvaluateCubic(s, k * Tick + Tick)
    <3> DEFINE x == k * Tick
    <3>1. x \in Int
      BY <2>4
    <3> HIDE DEF x
    <3>2. EvaluateCubic(EvaluateCubic(s, x), Tick) = EvaluateCubic(s, x + Tick)
      BY <1>4, <3>1, EvaluateTwice
    <3> QED
      BY <3>2 DEF x
  <2> QED
    BY <2>3, <2>4, <2>5
<1> HIDE DEF T
<1>7. T = Nat
  <2>1. T \in SUBSET Nat
    BY DEF T
  <2> QED
    BY <1>5, <1>6, <2>1, NatInduct
<1>8. \A k \in 1 .. count : f[k].state = EvaluateCubic(s, k * Tick)
  BY <1>7 DEF T
<1> QED
  BY <1>1, <1>8 DEF Point

LEMMA NoZeroDivisors ==
  ASSUME NEW a \in 1 .. Prime - 1, NEW b \in 1 .. Prime - 1
  PROVE  (a * b) % Prime # 0
<1> DEFINE r == Reciprocal[a]
           s == Reciprocal[b]
<1>1. a \in Field /\ b \in Field /\ a # 0 /\ b # 0 /\ a \in Int /\ b \in Int
      /\ 0 \in Field /\ 1 \in Field
  BY PrimeNat DEF Field
<1>2. r \in Int /\ s \in Int /\ Same(a * r, 1) /\ Same(b * s, 1)
  BY <1>1, ReciprocalIs
<1> HIDE DEF r, s
<1>3. SUFFICES ASSUME (a * b) % Prime = 0 PROVE FALSE
  OBVIOUS
<1> DEFINE c == a * b
           d == r * s
           e == a * r
           f == b * s
<1>4. c \in Int /\ d \in Int /\ e \in Int /\ f \in Int /\ c * d = e * f /\ 0 * d = 0
      /\ e * f \in Int
  BY <1>1, <1>2
<1>5. Same(e, 1) /\ Same(f, 1) /\ c % Prime = 0
  BY <1>2, <1>3
<1> HIDE DEF c, d, e, f
<1>6. Same(c, 0)
  <2>1. Same(c, c % Prime)
    BY <1>4, SameIs
  <2> QED
    BY <1>5, <2>1
<1>7. Same(c * d, 0 * d)
  <2>1. 0 \in Int
    OBVIOUS
  <2> QED
    BY <1>4, <1>6, <2>1, ProductSame
<1>8. Same(e * f, 1)
  <2>1. 1 \in Int /\ 1 * 1 = 1
    OBVIOUS
  <2>2. Same(e * f, 1 * 1)
    BY <1>4, <1>5, <2>1, SameOf
  <2> QED
    BY <2>1, <2>2
<1>9. Same(0, 1)
  <2>1. Same(e * f, 0)
    BY <1>4, <1>7
  <2>2. 0 \in Int /\ 1 \in Int
    OBVIOUS
  <2> QED
    BY <1>4, <1>8, <2>1, <2>2, SameSym, SameTrans
<1> QED
  BY <1>1, <1>9, SameInField

\* Dividing by a duration takes it away.
LEMMA OverProduct ==
  ASSUME NEW x \in Int, NEW w \in Field, NEW d \in Int, d % Prime # 0, Same(x, w * d)
  PROVE  Over(x, d) = w
<1> DEFINE q == d % Prime
           r == Reciprocal[q]
<1>1. w \in Int /\ w * d \in Int
  BY SameInField
<1>2. q \in Field /\ q \in Int /\ Same(d, q)
  BY SameIs
<1>3. r \in Int /\ Same(q * r, 1)
  BY <1>2, ReciprocalIs
<1>4. Over(x, d) \in Field /\ Over(x, d) \in Int /\ Same(Over(x, d), x * r)
  BY OverIs
<1> HIDE DEF q, r
<1> DEFINE wd == w * d
           wq == w * q
           qr == q * r
<1>5. wd \in Int /\ wq \in Int /\ qr \in Int /\ Same(x, wd) /\ wq * r = w * qr /\ w * 1 = w
      /\ Same(qr, 1) /\ 1 \in Int
  BY <1>1, <1>2, <1>3
<1>6. Same(wd, wq)
  BY <1>1, <1>2, ProductSame
<1> HIDE DEF wd, wq, qr
<1>7. Same(x, wq)
  BY <1>5, <1>6, SameTrans
<1>8. Same(x * r, wq * r) /\ Same(w * qr, w * 1)
  BY <1>1, <1>3, <1>5, <1>7, ProductSame
<1>9. x * r \in Int /\ wq * r \in Int /\ w * qr \in Int
  BY <1>1, <1>3, <1>5
<1> DEFINE o == Over(x, d)
           xr == x * r
           y == wq * r
<1>10. /\ o \in Int /\ xr \in Int /\ y \in Int /\ w \in Int
       /\ Same(o, xr) /\ Same(xr, y) /\ Same(y, w)
  BY <1>1, <1>4, <1>5, <1>8, <1>9
<1> HIDE DEF o, xr, y
<1>11. Same(o, w)
  BY <1>10, SameTrans
<1>12. o = w
  BY <1>4, <1>11, SameInField DEF o
<1> QED
  BY <1>12 DEF o

LEMMA HermiteExact ==
  ASSUME NEW p \in Int, NEW q \in Int, NEW v \in Int, NEW w \in Int, NEW d \in Int,
         NEW t \in Int, NEW u \in Int, NEW x \in Int
  PROVE  /\ (2 * p - 2 * q + (v + w) * d) * x + (-3 * p + 3 * q - (2 * v + w) * d) * u
                + (v * d) * t + p
              = p * (1 - 3 * u + 2 * x) + q * (3 * u - 2 * x) + v * d * (t - 2 * u + x)
                + w * d * (x - u)
         /\ 3 * (2 * p - 2 * q + (v + w) * d) + 2 * (-3 * p + 3 * q - (2 * v + w) * d) + v * d
              = w * d
OBVIOUS

\* Coefficients may be reduced.
LEMMA ReducedCubic ==
  ASSUME NEW a \in Int, NEW b \in Int, NEW c \in Int, NEW x \in Int, NEW u \in Int
  PROVE  Same((a % Prime) * x + (b % Prime) * u + c, a * x + b * u + c)
<1> DEFINE m == a % Prime
           n == b % Prime
<1>1. m \in Int /\ n \in Int /\ Same(m, a) /\ Same(n, b)
  BY SameIs
<1> HIDE DEF m, n
<1>2. Same(m * x, a * x) /\ Same(n * u, b * u)
  BY <1>1, ProductSame
<1> DEFINE mx == m * x
           ax == a * x
           nu == n * u
           bu == b * u
<1>3. /\ mx \in Int /\ ax \in Int /\ nu \in Int /\ bu \in Int /\ Same(mx, ax) /\ Same(nu, bu)
  BY <1>1, <1>2
<1> HIDE DEF mx, ax, nu, bu
<1>4. Same(mx + nu, ax + bu)
  BY <1>3, SameOf
<1>5. mx + nu \in Int /\ ax + bu \in Int
  BY <1>3
<1>6. Same((mx + nu) + c, (ax + bu) + c)
  BY <1>4, <1>5, ProductSame
<1> QED
  BY <1>6 DEF mx, ax, nu, bu, m, n


\* The connector is the cubic Hermite interpolation, and ends with the velocity
\* of the estimate.
Hermite(tip, e, d, t, t2, t3) ==
  tip.position * (1 - 3 * t2 + 2 * t3) + e.position * (3 * t2 - 2 * t3)
    + tip.velocity * d * (t - 2 * t2 + t3) + e.velocity * d * (t3 - t2)

LEMMA ConnectorIs ==
  ASSUME NEW tip \in Tips, NEW e \in CubicState, NEW n \in 1 .. Prime - 1, Span # 0,
         NEW k \in 1 .. n
  PROVE  LET t  == Over(k, n)
             t2 == (t * t) % Prime
             t3 == (t2 * t) % Prime
             point == Connector(tip, e, n)[k]
         IN  /\ point.position = Hermite(tip, e, n * Tick, t, t2, t3) % Prime
             /\ k = n => point.velocity = e.velocity
<1> DEFINE p == tip.position
           v == tip.velocity
           q == e.position
           w == e.velocity
           d == n * Tick
           t == Over(k, n)
           t2 == (t * t) % Prime
           t3 == (t2 * t) % Prime
           a == 2 * p - 2 * q + (v + w) * d
           b == -3 * p + 3 * q - (2 * v + w) * d
           c == v * d
           pos == (a % Prime) * t3 + (b % Prime) * t2 + c * t + p
           vel == ((3 * a) % Prime) * t2 + ((2 * b) % Prime) * t + c
           point == Connector(tip, e, n)[k]
<1>1. point = Point(pos % Prime, Over(vel, d), TimeAlong(d, k, n))
  BY DEF Connector
<1>2. point.position = pos % Prime /\ point.velocity = Over(vel, d)
  BY <1>1 DEF Point
<1>3. /\ p \in Field /\ v \in Field /\ q \in Field /\ w \in Field
      /\ p \in Int /\ v \in Int /\ q \in Int /\ w \in Int
  BY InputsAssumption, SameInField, CubicStateIs
<1>4. /\ k \in Int /\ n \in Int /\ d \in Int /\ Tick \in 1 .. Prime - 1
  BY ParamsAssumption, PrimeNat
<1>5. t \in Int /\ t2 \in Int /\ t3 \in Int
  <2>1. t \in Int
    BY <1>4, OverIs
  <2> HIDE DEF t
  <2>2. t * t \in Int
    BY <2>1
  <2>3. t2 \in Int
    BY <2>2, SameIs
  <2> HIDE DEF t2
  <2>4. t2 * t \in Int
    BY <2>1, <2>3
  <2> QED
    BY <2>1, <2>3, <2>4, SameIs
<1> HIDE DEF p, v, q, w, d, t, t2, t3, point
<1>6. a \in Int /\ b \in Int /\ c \in Int
  BY <1>3, <1>4
<1>7. pos % Prime = Hermite(tip, e, d, t, t2, t3) % Prime
  <2> DEFINE ct == c * t + p
             A == (a % Prime) * t3 + (b % Prime) * t2 + ct
             B == a * t3 + b * t2 + ct
             h == p * (1 - 3 * t2 + 2 * t3) + q * (3 * t2 - 2 * t3)
                    + v * d * (t - 2 * t2 + t3) + w * d * (t3 - t2)
  <2>1. ct \in Int
    BY <1>3, <1>5, <1>6
  <2>2. B = h
    BY <1>3, <1>4, <1>5, HermiteExact
  <2>3. h = Hermite(tip, e, d, t, t2, t3)
    BY DEF Hermite, p, q, v, w
  <2>4. a % Prime \in Int /\ b % Prime \in Int
    BY <1>6, SameIs
  <2> HIDE DEF a, b, c, h
  <2>5. pos = A
    <3> DEFINE m == (a % Prime) * t3
               l == (b % Prime) * t2
               o == c * t
    <3>1. m \in Int /\ l \in Int /\ o \in Int
      BY <1>5, <1>6, <2>4
    <3>2. pos = m + l + o + p /\ A = m + l + (o + p)
      OBVIOUS
    <3> HIDE DEF m, l, o, A, pos
    <3> QED
      BY <1>3, <3>1, <3>2
  <2>6. B \in Int
    <3> HIDE DEF ct
    <3> QED
      BY <1>5, <1>6, <2>1
  <2>7. A \in Int
    <3> DEFINE m == a % Prime
               l == b % Prime
    <3> HIDE DEF ct, m, l
    <3>1. m \in Int /\ l \in Int
      BY <2>4 DEF m, l
    <3>2. m * t3 + l * t2 + ct \in Int
      BY <1>5, <2>1, <3>1
    <3> QED
      BY <3>2 DEF m, l
  <2> HIDE DEF ct
  <2>8. Same(A, B)
    BY <1>5, <1>6, <2>1, ReducedCubic
  <2> HIDE DEF A, B
  <2>9. A % Prime = B % Prime
    BY <2>6, <2>7, <2>8, SameInField
  <2> QED
    BY <2>2, <2>3, <2>5, <2>9
<1>8. ASSUME k = n PROVE Over(vel, d) = w
  <2>1. 1 \in Field /\ 1 \in Int /\ 1 * 1 = 1
    BY PrimeNat DEF Field
  <2>2. n % Prime = n /\ n \in Field /\ n # 0
    <3>1. n \in Field /\ n # 0
      BY PrimeNat DEF Field
    <3> QED
      BY <3>1, SameInField
  <2>3. t = 1
    <3>1. 1 * n = n
      BY <1>4
    <3>2. Same(n, 1 * n)
      BY <1>4, <3>1, SameIs
    <3>3. Over(n, n) = 1
      BY <1>4, <2>1, <2>2, <3>2, OverProduct
    <3> QED
      BY <1>8, <3>3 DEF t
  <2>4. t2 = 1
    BY <2>1, <2>3, SameInField DEF t2
  <2>5. d % Prime # 0
    BY <1>4, NoZeroDivisors DEF d
  <2> DEFINE a3 == 3 * a
             b2 == 2 * b
             A == (a3 % Prime) * 1 + (b2 % Prime) * 1 + c
             B == a3 * 1 + b2 * 1 + c
  <2>6. B = w * d
    <3>1. a3 + b2 + c = w * d
      BY <1>3, <1>4, <1>5, HermiteExact
    <3>2. a3 \in Int /\ b2 \in Int
      BY <1>6
    <3> HIDE DEF a3, b2, c
    <3> QED
      BY <1>6, <3>1, <3>2
  <2>7. vel = A
    BY <2>3, <2>4
  <2>8. a3 \in Int /\ b2 \in Int
    BY <1>6
  <2> HIDE DEF a3, b2, c, vel
  <2>9. Same(A, B)
    BY <1>6, <2>1, <2>8, ReducedCubic
  <2>10. A \in Int
    <3> DEFINE m == a3 % Prime
               l == b2 % Prime
    <3>1. m \in Int /\ l \in Int
      BY <2>8, SameIs
    <3> HIDE DEF m, l
    <3>2. m * 1 + l * 1 + c \in Int
      BY <1>6, <3>1
    <3> QED
      BY <3>2 DEF m, l
  <2> HIDE DEF A, B
  <2>11. Same(A, w * d)
    BY <2>6, <2>9
  <2> QED
    BY <1>3, <1>4, <2>5, <2>7, <2>10, <2>11, OverProduct
<1> QED
  BY <1>2, <1>7, <1>8 DEF d, t, t2, t3, point, w

LEMMA EstimatedStateIs ==
  ASSUME filter \in FilterType, times \in Seq(Nat), times # <<>>
  PROVE  EstimatedState \in CubicState
<1>1. Len(times) \in Int /\ Span \in Int
  <2>1. Len(times) \in Nat /\ Len(times) # 0
    BY LenProperties, EmptySeq
  <2>2. 1 \in 1 .. Len(times) /\ Len(times) \in 1 .. Len(times)
    BY <2>1
  <2>3. times[1] \in Nat /\ times[Len(times)] \in Nat
    BY <2>2, ElementOfSeq
  <2> QED
    BY <2>1, <2>3 DEF Span, Head, Last
<1> DEFINE dt == Over(Span, Len(times))
           dt2 == (dt * dt) % Prime
           dt3 == (dt2 * dt) % Prime
           e == filter.estimate
           acc == Over(e[3], dt2) * AccelerationWeight
           jerk == Over(e[4], dt3) * JerkWeight
<1>2. e \in VecType
  BY FilterFields
<1>3. EstimatedState = [position |-> e[1], velocity |-> Over(e[2], dt),
                        acceleration |-> acc % Prime, jerk |-> jerk % Prime]
  BY DEF EstimatedState
<1>4. dt \in Int
  BY <1>1, OverIs
<1> HIDE DEF dt, e
<1>5. dt2 \in Int
  <2>1. dt * dt \in Int
    BY <1>4
  <2> QED
    BY <2>1, SameIs
<1> HIDE DEF dt2
<1>6. dt3 \in Int
  <2>1. dt2 * dt \in Int
    BY <1>4, <1>5
  <2> QED
    BY <2>1, SameIs
<1> HIDE DEF dt3
<1>7. e[1] \in Field /\ e[2] \in Int /\ e[3] \in Int /\ e[4] \in Int
  BY <1>2, EntryIs
<1>8. Over(e[2], dt) \in Field /\ Over(e[3], dt2) \in Int /\ Over(e[4], dt3) \in Int
  BY <1>4, <1>5, <1>6, <1>7, OverIs
<1>9. AccelerationWeight \in Int /\ JerkWeight \in Int
  BY ParamsAssumption, SameInField
<1>10. acc \in Int /\ jerk \in Int
  BY <1>8, <1>9
<1> HIDE DEF acc, jerk
<1>11. acc % Prime \in Field /\ jerk % Prime \in Field
  BY <1>10, SameIs
<1> QED
  BY <1>3, <1>7, <1>8, <1>11 DEF CubicState

LEMMA PredictionMeetsSmooth ==
  ASSUME TypeOK, NEW tip \in Tips, ConstructPrediction(tip)
  PROVE  PredictionIsSmooth'
<1>1. SUFFICES ASSUME output'.estimate # NotFinite, NEW k \in DOMAIN output'.points
               PROVE  LET e == output'.estimate
                          n == output'.connector
                          t  == Over(k, n)
                          t2 == (t * t) % Prime
                          t3 == (t2 * t) % Prime
                      IN  IF k <= n
                          THEN /\ output'.points[k].position
                                    = Hermite(output'.tip, e, n * Tick, t, t2, t3) % Prime
                               /\ k = n => output'.points[k].velocity = e.velocity
                          ELSE output'.points[k].position
                                 = EvaluateCubic(e, (k - n) * Tick).position
  BY DEF PredictionIsSmooth, Hermite
<1>2. IsStable
  BY <1>1 DEF ConstructPrediction
<1> DEFINE e == IF Span = 0 THEN NotFinite ELSE EstimatedState
<1>3. PICK n \in ConnectorSizes, count \in PredictedCounts :
        LET c == Connector(tip, e, n)
        IN  output' = [tip |-> tip, estimate |-> e, connector |-> n,
                       points |-> c \o Beyond(e, StartAfter(c), count)]
  BY <1>2 DEF ConstructPrediction
<1>4. e # NotFinite
  BY <1>1, <1>3
<1>5. Span # 0 /\ e \in CubicState
  <2>1. Span # 0
    BY <1>4
  <2>2. lastTime # NoStroke
    BY DEF ConstructPrediction
  <2> QED
    BY <2>1, <2>2, EstimatedStateIs DEF TypeOK
<1> HIDE DEF e
<1>6. n \in 1 .. Prime - 1 /\ n \in Nat \ {0}
  BY InputsAssumption, PrimeNat
<1>7. count \in Nat
  BY CountsAreNat DEF TypeOK, FilterType
<1> DEFINE c == Connector(tip, e, n)
           b == Beyond(e, StartAfter(c), count)
<1>8. c = [i \in 1 .. n |-> c[i]] /\ b = [i \in 1 .. count |-> b[i]]
  <2>1. lastTime \in Nat /\ Tick \in Nat
    BY ParamsAssumption, PrimeNat DEF TypeOK, ConstructPrediction
  <2>2. c = [i \in 1 .. n |-> c[i]] /\ StartAfter(c) = lastTime + n * Tick
    BY <1>6, <2>1, ConnectorPoints
  <2> DEFINE start == StartAfter(c)
  <2>3. start \in Int
    BY <1>6, <2>1, <2>2
  <2> HIDE DEF start
  <2>4. Beyond(e, start, count) = [i \in 1 .. count |-> Beyond(e, start, count)[i]]
    BY <1>7, <2>3, BeyondPoints
  <2> QED
    BY <2>2, <2>4 DEF start
<1>9. \A i \in 1 .. count : b[i].position = EvaluateCubic(e, i * Tick).position
  BY <1>5, <1>7, BeyondIs
<1>10. output'.points = c \o b /\ output'.connector = n /\ output'.estimate = e
       /\ output'.tip = tip
  BY <1>3
<1> DEFINE t  == Over(k, n)
           t2 == (t * t) % Prime
           t3 == (t2 * t) % Prime
<1>11. k \in 1 .. n => /\ c[k].position = Hermite(tip, e, n * Tick, t, t2, t3) % Prime
                       /\ k = n => c[k].velocity = e.velocity
  BY <1>5, <1>6, ConnectorIs
<1> HIDE DEF c, b, t, t2, t3
<1>12. /\ DOMAIN (c \o b) = 1 .. n + count
       /\ \A i \in 1 .. n + count : (c \o b)[i] = IF i <= n THEN c[i] ELSE b[i - n]
  BY <1>6, <1>7, <1>8, ConcatFunctions
<1>13. k \in 1 .. n + count
  BY <1>10, <1>12
<1>14. CASE k <= n
  <2>1. k \in 1 .. n
    BY <1>6, <1>7, <1>13, <1>14
  <2>2. output'.points[k] = c[k]
    <3>1. (c \o b)[k] = c[k]
      BY <1>12, <1>13, <1>14
    <3> QED
      BY <1>10, <3>1, Zenon
  <2> QED
    BY <1>10, <1>11, <1>14, <2>1, <2>2 DEF t, t2, t3
<1>15. CASE ~ (k <= n)
  <2>1. k - n \in 1 .. count
    BY <1>6, <1>7, <1>13, <1>15
  <2>2. output'.points[k] = b[k - n]
    <3>1. (c \o b)[k] = b[k - n]
      BY <1>12, <1>13, <1>15
    <3> QED
      BY <1>10, <3>1, Zenon
  <2> QED
    BY <1>9, <1>10, <1>15, <2>1, <2>2
<1> QED
  BY <1>14, <1>15

\* The prediction is one smooth curve, from the tip to the estimate by cubic
\* Hermite interpolation and on along the estimate's own cubic, however many
\* points either part has (kalman_predictor.cc:128-228).
THEOREM SmoothCorrect == Spec => []PredictionIsSmooth
<1>1. Init => PredictionIsSmooth
  BY DEF Init, PredictionIsSmooth
<1>2. TypeOK /\ PredictionIsSmooth /\ [Next]_vars => PredictionIsSmooth'
  <2> SUFFICES ASSUME TypeOK, PredictionIsSmooth, [Next]_vars
               PROVE  PredictionIsSmooth'
    OBVIOUS
  <2>1. ASSUME NEW tip \in Tips, ConstructPrediction(tip)
        PROVE  PredictionIsSmooth'
    BY <2>1, PredictionMeetsSmooth
  <2>2. CASE output' = NoOutput
    BY <2>2 DEF PredictionIsSmooth
  <2>3. \/ output' = NoOutput
        \/ \E tip \in Tips : ConstructPrediction(tip)
        \/ UNCHANGED vars
    BY DEF Next, ResetAndUpdate, Update, EndStroke, Save, Restore
  <2>4. CASE UNCHANGED vars
    BY <2>4 DEF vars, PredictionIsSmooth
  <2> QED
    BY <2>1, <2>2, <2>3, <2>4
<1> QED
  BY <1>1, <1>2, TypeCorrect, PTL DEF Spec

=============================================================================
