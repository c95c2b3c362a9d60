------------------------- MODULE WobbleSmootherProofs -------------------------
(***************************************************************************)
(* Theorems about WobbleSmoother, for all timeouts, positions and times:   *)
(* the deque is never empty in a stroke, it is the previous timeout, the   *)
(* running sums are those of the deque, and a smoothed position is between *)
(* two positions of the deque.                                             *)
(***************************************************************************)
EXTENDS WobbleSmoother, ModelerLemmas

-----------------------------------------------------------------------------
(* Samples *)

LEMMA SampleAt ==
  ASSUME NEW s \in Seq(SampleType), NEW i \in 1 .. Len(s)
  PROVE  s[i] \in SampleType /\ s[i].time \in Nat /\ s[i].time \in Times
<1>1. s[i] \in SampleType
  BY ElementOfSeq
<1> QED
  BY <1>1, InputsAssumption DEF SampleType

LEMMA FirstSampleType ==
  ASSUME NEW position \in Positions, NEW time \in Times
  PROVE  FirstSample(position, time) \in SampleType
BY DEF FirstSample, SampleType

LEMMA NextSampleType ==
  ASSUME NEW previous \in SampleType, NEW position \in Positions, NEW time \in Times
  PROVE  /\ NextSample(previous, position, time) \in SampleType
         /\ NextSample(previous, position, time).time = time
<1>1. /\ position \in Int /\ previous.position \in Int
      /\ time \in Nat /\ previous.time \in Nat
  BY InputsAssumption DEF SampleType
<1>2. time - previous.time \in Int
  BY <1>1
<1>3. \A a, b \in Int : a * b \in Int
  OBVIOUS
<1>4. position * (time - previous.time) \in Int
  BY <1>1, <1>2, <1>3
<1>5. Dist(position, previous.position) \in Nat
  BY <1>1 DEF Dist
<1> QED
  BY <1>2, <1>4, <1>5 DEF NextSample, SampleType

-----------------------------------------------------------------------------
(* The window *)

\* What the pop_front loop leaves of samples of which the last is not too old.
LEMMA Kept ==
  ASSUME NEW s \in Seq(SampleType), s # <<>>, NEW limit \in Int,
         s[Len(s)].time >= limit
  PROVE  \E m \in 1 .. Len(s) :
           /\ DropCount(s, limit) = m - 1
           /\ s[m].time >= limit
           /\ m > 1 => s[m - 1].time < limit
<1> DEFINE L == Len(s)
           fresh == {i \in DOMAIN s : ~ TimedOut(s[i], limit)}
           stops == fresh \cup {L + 1}
           m == Min(stops)
<1>1. L \in Nat /\ L > 0 /\ L \in 1 .. L /\ DOMAIN s = 1 .. L
  BY EmptySeq, LenProperties
<1>2. \A i \in 1 .. L : s[i].time \in Nat
  BY SampleAt
<1>3. \A i \in 1 .. L : i \in fresh <=> s[i].time >= limit
  BY <1>1, <1>2 DEF TimedOut
<1>4. L \in fresh /\ fresh \subseteq 1 .. L
  BY <1>1, <1>3
<1>5. DropCount(s, limit) = m - 1
  BY DEF DropCount
<1> HIDE DEF fresh, L
<1>6. stops \in SUBSET Nat /\ L \in stops
  BY <1>1, <1>4
<1> HIDE DEF m
<1>7. m \in stops /\ \A i \in stops : m <= i
  BY <1>6, LeastOf DEF m
<1>8. m \in fresh /\ m \in 1 .. L
  BY <1>1, <1>4, <1>6, <1>7
<1>9. ASSUME m > 1
      PROVE  s[m - 1].time < limit
  <2>1. m - 1 \in 1 .. L /\ ~ (m <= m - 1)
    BY <1>1, <1>8, <1>9
  <2>2. m - 1 \notin fresh
    BY <1>7, <2>1
  <2> QED
    BY <1>2, <1>3, <2>1, <2>2
<1> QED
  BY <1>3, <1>5, <1>8, <1>9 DEF L

-----------------------------------------------------------------------------
(* The invariant *)

\* w is the window of the samples since Reset.
Windowed(p, w, all) ==
  /\ w \in Seq(SampleType) /\ all \in Seq(SampleType) /\ w # <<>> /\ all # <<>>
  /\ SuffixOf(w, all)
  /\ InOrder(all) =>
       \A i \in 1 .. Len(all) :
         i > Len(all) - Len(w) <=> all[i].time >= all[Len(all)].time - p.timeout

Tracks(p, w, all) ==
  \/ Windowed(p, w, all)
  \/ w = <<>> /\ all = <<>>

IInv ==
  /\ params \in Params
  /\ history \in [now : Seq(SampleType), saved : Seq(SampleType)]
  /\ Tracks(params, state.samples, history.now)
  /\ lastTime # NoStroke => history.now # <<>>
  /\ saved # NoSave =>
       /\ Tracks(params, saved.state.samples, history.saved)
       /\ saved.lastTime # NoStroke => history.saved # <<>>

LEMMA TimeoutNat ==
  ASSUME NEW p \in Params
  PROVE  p.timeout \in Nat
BY ParamsAssumption DEF ParamsType

\* One sample more.
LEMMA WindowStep ==
  ASSUME NEW p \in Params, NEW w, NEW all, Windowed(p, w, all),
         NEW new \in SampleType
  PROVE  LET s == Append(w, new)
             drop == DropCount(s, new.time - p.timeout)
         IN  Windowed(p, SubSeq(s, drop + 1, Len(s)), Append(all, new))
<1> DEFINE s == Append(w, new)
           al == Append(all, new)
           n == Len(w)
           N == Len(all)
           L == Len(s)
           limit == new.time - p.timeout
           drop == DropCount(s, limit)
<1>1. /\ w \in Seq(SampleType) /\ all \in Seq(SampleType) /\ w # <<>> /\ all # <<>>
      /\ SuffixOf(w, all)
  BY DEF Windowed
<1>2. n \in Nat /\ N \in Nat /\ n <= N /\ n > 0 /\ N > 0
  BY <1>1, LenProperties, EmptySeq DEF SuffixOf
<1>3. /\ s \in Seq(SampleType) /\ L = n + 1 /\ s # <<>> /\ s[n + 1] = new
      /\ \A k \in 1 .. n : s[k] = w[k]
  BY <1>1, AppendProperties
<1>4. /\ al \in Seq(SampleType) /\ Len(al) = N + 1 /\ al # <<>> /\ al[N + 1] = new
      /\ \A k \in 1 .. N : al[k] = all[k]
  BY <1>1, AppendProperties
<1>5. SuffixOf(s, al)
  BY <1>1, AppendedSuffix
<1>6. new.time \in Nat /\ p.timeout \in Nat /\ limit \in Int /\ new.time >= limit
  <2>1. new.time \in Times
    BY DEF SampleType
  <2>2. new.time \in Nat /\ p.timeout \in Nat
    BY <2>1, TimeoutNat, InputsAssumption
  <2> QED
    BY <2>2
<1>7. \A i \in 1 .. N : all[i].time \in Nat
  BY <1>1, SampleAt
<1> HIDE DEF s, al, limit, n, N
<1>8. PICK m \in 1 .. L : /\ drop = m - 1
                          /\ s[m].time >= limit
                          /\ m > 1 => s[m - 1].time < limit
  <2>1. s[L].time >= limit
    BY <1>3, <1>6
  <2> QED
    BY <1>3, <1>6, <2>1, Kept
<1> DEFINE d == SubSeq(s, m, L)
           D == L - m + 1
<1>9. d \in Seq(SampleType) /\ Len(d) = D /\ SuffixOf(d, al)
  BY <1>3, <1>4, <1>5, <1>8, SuffixOfSuffix
<1> HIDE DEF d, L
<1>10. L \in Nat /\ m \in 1 .. L /\ D \in 1 .. L /\ D <= N + 1 /\ m \in Int
  BY <1>2, <1>3, <1>8
<1>11. d # <<>>
  BY <1>9, <1>10, EmptySeq
<1>12. \A k \in 1 .. L : s[k] = al[(N + 1) - L + k]
  BY <1>4, <1>5 DEF SuffixOf, L
<1>13. ASSUME InOrder(al), NEW i \in 1 .. N + 1
       PROVE  i > (N + 1) - D <=> al[i].time >= limit
  <2>1. \A j, k \in 1 .. N + 1 : j <= k => al[j].time <= al[k].time
    <3>1. DOMAIN al = 1 .. N + 1
      BY <1>4, LenProperties
    <3> QED
      BY <1>13, <3>1 DEF InOrder
  <2>2. \A j \in 1 .. N + 1 : al[j].time \in Nat
    BY <1>4, SampleAt
  <2>3. CASE i > (N + 1) - D
    <3>1. /\ (N + 1) - L + m \in 1 .. N + 1 /\ (N + 1) - L + m <= i
      BY <1>2, <1>3, <1>10, <2>3
    <3>2. al[(N + 1) - L + m].time >= limit
      BY <1>8, <1>10, <1>12
    <3>3. al[(N + 1) - L + m].time <= al[i].time
      BY <2>1, <3>1
    <3>4. al[i].time \in Nat /\ al[(N + 1) - L + m].time \in Nat
      BY <2>2, <3>1
    <3> QED
      BY <1>6, <2>3, <3>2, <3>3, <3>4
  <2>4. CASE ~ (i > (N + 1) - D) /\ m > 1
    <3>1. /\ m - 1 \in 1 .. L /\ (N + 1) - L + (m - 1) \in 1 .. N + 1
          /\ i <= (N + 1) - L + (m - 1)
      BY <1>2, <1>3, <1>10, <2>4
    <3>2. al[(N + 1) - L + (m - 1)].time < limit
      BY <1>8, <1>12, <2>4, <3>1
    <3>3. al[i].time <= al[(N + 1) - L + (m - 1)].time
      BY <2>1, <3>1
    <3>4. al[i].time \in Nat /\ al[(N + 1) - L + (m - 1)].time \in Nat
      BY <2>2, <3>1
    <3>5. ~ (al[i].time >= limit)
      BY <1>6, <3>2, <3>3, <3>4
    <3> QED
      BY <2>4, <3>5
  <2>5. CASE ~ (i > (N + 1) - D) /\ ~ (m > 1)
    <3>1. m = 1 /\ D = n + 1 /\ i \in 1 .. N /\ ~ (i > N - n) /\ N \in 1 .. N + 1
          /\ N + 1 \in 1 .. N + 1 /\ N <= N + 1 /\ N \in 1 .. N
      BY <1>2, <1>3, <1>10, <2>5
    <3>2. DOMAIN all = 1 .. N /\ DOMAIN al = 1 .. N + 1
      BY <1>1, <1>4, LenProperties DEF N
    <3>3. InOrder(all)
      <4>1. ASSUME NEW j \in 1 .. N, NEW k \in 1 .. N, j <= k
            PROVE  all[j].time <= all[k].time
        <5>1. j \in 1 .. N + 1 /\ k \in 1 .. N + 1
          BY <1>2
        <5> QED
          BY <1>4, <2>1, <4>1, <5>1
      <4> QED
        BY <3>2, <4>1 DEF InOrder
    <3>4. ~ (all[i].time >= all[N].time - p.timeout)
      BY <3>1, <3>3 DEF Windowed, N, n
    <3>5. al[i].time = all[i].time /\ all[N].time <= new.time
      BY <1>4, <2>1, <3>1
    <3>6. all[i].time \in Nat /\ all[N].time \in Nat
      BY <1>7, <3>1
    <3>7. ~ (al[i].time >= limit)
      BY <1>6, <3>4, <3>5, <3>6 DEF limit
    <3> QED
      BY <2>5, <3>7
  <2> QED
    BY <2>3, <2>4, <2>5
<1> HIDE DEF D
<1>14. Windowed(p, d, al)
  <2>1. InOrder(al) =>
          \A i \in 1 .. Len(al) :
            i > Len(al) - Len(d) <=> al[i].time >= al[Len(al)].time - p.timeout
    <3>1. Len(al) = N + 1 /\ Len(d) = D /\ al[N + 1].time - p.timeout = limit
      BY <1>4, <1>9 DEF limit
    <3> QED
      BY <1>13, <3>1
  <2> QED
    BY <1>4, <1>9, <1>11, <2>1 DEF Windowed
<1>15. drop + 1 = m
  BY <1>8, <1>10
<1> HIDE DEF drop
<1>16. Windowed(p, SubSeq(s, drop + 1, L), al)
  BY <1>14, <1>15 DEF d
<1> QED
  BY <1>16 DEF s, al, L, limit, drop

-----------------------------------------------------------------------------
(* The steps *)

\* A stroke of one sample.
LEMMA WindowStart ==
  ASSUME NEW p \in Params, NEW position \in Positions, NEW time \in Times
  PROVE  Windowed(p, <<FirstSample(position, time)>>, <<FirstSample(position, time)>>)
<1> DEFINE first == FirstSample(position, time)
           one == <<first>>
<1>1. first \in SampleType /\ first.time = time
  BY FirstSampleType DEF FirstSample
<1> HIDE DEF first
<1>2. one \in Seq(SampleType) /\ one # <<>> /\ Len(one) = 1 /\ one[1] = first
  BY <1>1
<1> HIDE DEF one
<1>3. SuffixOf(one, one)
  BY <1>2 DEF SuffixOf
<1>4. time \in Nat /\ p.timeout \in Nat
  BY TimeoutNat, InputsAssumption
<1>5. \A i \in 1 .. Len(one) :
        i > Len(one) - Len(one) <=> one[i].time >= one[Len(one)].time - p.timeout
  <2>1. \A i \in 1 .. Len(one) : i = 1
    BY <1>2
  <2>2. 1 > 1 - 1 /\ time >= time - p.timeout
    BY <1>4
  <2> QED
    BY <1>1, <1>2, <2>1, <2>2
<1> QED
  BY <1>2, <1>3, <1>5 DEF Windowed, one, first

LEMMA InitInv == Init => IInv
<1> SUFFICES ASSUME Init PROVE IInv
  OBVIOUS
<1>1. <<>> \in Seq(SampleType)
  BY EmptySeq
<1> QED
  BY <1>1 DEF Init, IInv, Tracks

LEMMA ResetStep ==
  ASSUME IInv, NEW p \in Params, NEW x \in Positions, NEW t \in Times, Reset(p, x, t)
  PROVE  IInv'
<1> DEFINE one == <<FirstSample(x, t)>>
<1>1. Windowed(p, one, one)
  BY WindowStart
<1>2. one \in Seq(SampleType) /\ one # <<>>
  BY <1>1 DEF Windowed
<1>3. <<>> \in Seq(SampleType)
  BY EmptySeq
<1>4. /\ params' = p /\ state'.samples = one /\ saved' = NoSave
      /\ history' = [now |-> one, saved |-> <<>>]
  <2>1. /\ params' = p /\ state' = Started(x, t) /\ saved' = NoSave
        /\ history' = [now |-> state'.samples, saved |-> <<>>]
    BY DEF Reset
  <2>2. Started(x, t).samples = one
    BY DEF Started
  <2> QED
    BY <2>1, <2>2
<1> HIDE DEF one
<1>5. /\ history' \in [now : Seq(SampleType), saved : Seq(SampleType)]
      /\ history'.now = one
  BY <1>2, <1>3, <1>4
<1>6. Tracks(params', state'.samples, history'.now)
  BY <1>1, <1>4, <1>5 DEF Tracks
<1> QED
  BY <1>2, <1>4, <1>5, <1>6 DEF IInv

LEMMA UpdateStep ==
  ASSUME IInv, NEW x \in Positions, NEW t \in Times, Update(x, t)
  PROVE  IInv'
<1>1. lastTime # NoStroke /\ history.now # <<>>
  BY DEF Update, IInv
<1>2. params' = params /\ saved' = saved
  BY DEF Update
<1>3. CASE ~ params.enabled
  <2>1. state' = state /\ history' = history
    BY <1>3 DEF Update
  <2> QED
    BY <1>1, <1>2, <2>1 DEF IInv
<1>4. CASE params.enabled
  <2> DEFINE now == history.now
             w == state.samples
             new == NextSample(Last(w), x, t)
             s == Append(w, new)
             drop == DropCount(s, t - params.timeout)
  <2>1. Windowed(params, w, now) /\ params \in Params
    BY <1>1 DEF IInv, Tracks
  <2>2. Last(w) = Last(now) /\ Last(w) \in SampleType
    <3>1. /\ w \in Seq(SampleType) /\ w # <<>> /\ SuffixOf(w, now)
          /\ now \in Seq(SampleType)
      BY <2>1 DEF Windowed
    <3>2. Len(w) \in Nat /\ Len(w) > 0 /\ Len(now) \in Nat
      BY <3>1, LenProperties, EmptySeq
    <3>3. Len(w) \in 1 .. Len(w) /\ Len(now) - Len(w) + Len(w) = Len(now)
      BY <3>2
    <3>4. w[Len(w)] = now[Len(now)]
      BY <3>1, <3>3 DEF SuffixOf
    <3> QED
      BY <3>1, <3>3, <3>4, SampleAt DEF Last
  <2>3. new \in SampleType /\ new.time = t
    BY <2>2, NextSampleType
  <2>4. /\ state'.samples = SubSeq(s, drop + 1, Len(s))
        /\ history' = [history EXCEPT !.now = Append(now, new)]
    <3>1. state' = Smoothed(state, x, t)
      BY <1>4 DEF Update
    <3>2. Smoothed(state, x, t).samples = SubSeq(s, drop + 1, Len(s))
      BY DEF Smoothed, Subtract
    <3>3. history' = [history EXCEPT !.now = Append(now, NextSample(Last(now), x, t))]
      BY <1>4 DEF Update
    <3> QED
      BY <2>2, <3>1, <3>2, <3>3
  <2> HIDE DEF new
  <2>5. Windowed(params, SubSeq(s, drop + 1, Len(s)), Append(now, new))
    BY <2>1, <2>3, WindowStep
  <2>6. Append(now, new) \in Seq(SampleType) /\ Append(now, new) # <<>>
    BY <2>5 DEF Windowed
  <2>7. /\ history' \in [now : Seq(SampleType), saved : Seq(SampleType)]
        /\ history'.now = Append(now, new) /\ history'.saved = history.saved
    BY <2>4, <2>6 DEF IInv
  <2>8. Tracks(params', state'.samples, history'.now)
    BY <1>2, <2>4, <2>5, <2>7 DEF Tracks
  <2>9. params' \in Params /\ history'.now # <<>>
    BY <1>2, <2>1, <2>6, <2>7
  <2>10. saved' # NoSave =>
           /\ Tracks(params', saved'.state.samples, history'.saved)
           /\ saved'.lastTime # NoStroke => history'.saved # <<>>
    BY <1>2, <2>7 DEF IInv
  <2> QED
    BY <2>7, <2>8, <2>9, <2>10 DEF IInv
<1> QED
  BY <1>3, <1>4

LEMMA SaveStep ==
  ASSUME IInv, Save
  PROVE  IInv'
<1>1. /\ params' = params /\ state' = state /\ lastTime' = lastTime
      /\ saved'.state = state /\ saved'.lastTime = lastTime
      /\ history' = [history EXCEPT !.saved = history.now]
  BY DEF Save
<1>2. /\ history' \in [now : Seq(SampleType), saved : Seq(SampleType)]
      /\ history'.now = history.now /\ history'.saved = history.now
  BY <1>1 DEF IInv
<1> QED
  BY <1>1, <1>2 DEF IInv

LEMMA RestoreStep ==
  ASSUME IInv, Restore
  PROVE  IInv'
<1>1. /\ params' = params /\ saved' = saved /\ saved # NoSave
      /\ state' = saved.state /\ lastTime' = saved.lastTime
      /\ history' = [history EXCEPT !.now = history.saved]
  BY DEF Restore
<1>2. /\ history' \in [now : Seq(SampleType), saved : Seq(SampleType)]
      /\ history'.now = history.saved /\ history'.saved = history.saved
  BY <1>1 DEF IInv
<1> QED
  BY <1>1, <1>2 DEF IInv

LEMMA NextInv == IInv /\ [Next]_vars => IInv'
<1> SUFFICES ASSUME IInv, [Next]_vars PROVE IInv'
  OBVIOUS
<1>1. ASSUME NEW p \in Params, NEW x \in Positions, NEW t \in Times, Reset(p, x, t)
      PROVE  IInv'
  BY <1>1, ResetStep
<1>2. ASSUME NEW x \in Positions, NEW t \in Times, Update(x, t) PROVE IInv'
  BY <1>2, UpdateStep
<1>3. CASE EndStroke
  BY <1>3 DEF EndStroke, IInv
<1>4. CASE Save
  BY <1>4, SaveStep
<1>5. CASE Restore
  BY <1>5, RestoreStep
<1>6. CASE UNCHANGED vars
  BY <1>6 DEF IInv, vars
<1> QED
  BY <1>1, <1>2, <1>3, <1>4, <1>5, <1>6 DEF Next

LEMMA InvHolds == Spec => []IInv
BY InitInv, NextInv, PTL DEF Spec

-----------------------------------------------------------------------------
(* The theorem about the window *)

LEMMA WindowFromInv == IInv => WindowIsPreviousTimeout
<1> SUFFICES ASSUME IInv, lastTime # NoStroke PROVE
      /\ state.samples # <<>>
      /\ InOrder(history.now) =>
           LET n == Len(history.now)
               older == n - Len(state.samples)
           IN  /\ state.samples = SubSeq(history.now, older + 1, n)
               /\ \A i \in 1 .. n :
                    i > older <=>
                      history.now[i].time >= history.now[n].time - params.timeout
  BY DEF WindowIsPreviousTimeout
<1>1. Windowed(params, state.samples, history.now)
  BY DEF IInv, Tracks
<1>2. state.samples = SubSeq(history.now, Len(history.now) - Len(state.samples) + 1,
                             Len(history.now))
  BY <1>1, SuffixIsSubSeq DEF Windowed
<1> QED
  BY <1>1, <1>2 DEF Windowed

\* The deque is never empty while there is a stroke, and holds the samples of
\* the previous timeout, whatever was evicted, rejected, saved and restored
\* (wobble_smoother.cc:55-60).
THEOREM WindowCorrect == Spec => []WindowIsPreviousTimeout
BY InvHolds, WindowFromInv, PTL

-----------------------------------------------------------------------------
(* The sums *)

\* Samples that are weighted as NextSample does it.
Sound == {s \in SampleType : s.weightedPosition = s.position * s.duration}

\* A state whose sums are those of its window.
Counted(st) ==
  /\ st \in StateType /\ st.samples \in Seq(Sound)
  /\ st.weightedPositionSum = Total(WeightedPositions(st.samples))
  /\ st.distanceSum = Total(Distances(st.samples))
  /\ st.durationSum = Total(Durations(st.samples))

LEMMA SoundSamples ==
  ASSUME NEW position \in Positions, NEW time \in Times
  PROVE  /\ FirstSample(position, time) \in Sound
         /\ \A previous \in Sound : NextSample(previous, position, time) \in Sound
<1>1. FirstSample(position, time) \in Sound
  <2>1. position * 0 = 0
    BY InputsAssumption
  <2> QED
    BY <2>1, FirstSampleType DEF FirstSample, Sound
<1>2. ASSUME NEW previous \in Sound
      PROVE  NextSample(previous, position, time) \in Sound
  <2>1. NextSample(previous, position, time) \in SampleType
    BY NextSampleType DEF Sound
  <2> QED
    BY <2>1 DEF NextSample, Sound
<1> QED
  BY <1>1, <1>2

Weight == [s \in Sound |-> s.weightedPosition]
Distance == [s \in Sound |-> s.distance]
Duration == [s \in Sound |-> s.duration]

\* The three sums are over something measured of each sample.
LEMMA Measures ==
  ASSUME NEW s \in Seq(Sound)
  PROVE  /\ WeightedPositions(s) = Measured(Weight, s)
         /\ Distances(s) = Measured(Distance, s)
         /\ Durations(s) = Measured(Duration, s)
<1>1. \A i \in DOMAIN s : s[i] \in Sound
  BY LenProperties, ElementOfSeq
<1>2. \A i \in DOMAIN s : Weight[s[i]] = s[i].weightedPosition
  BY <1>1 DEF Weight
<1>3. \A i \in DOMAIN s : Distance[s[i]] = s[i].distance
  BY <1>1 DEF Distance
<1>4. \A i \in DOMAIN s : Duration[s[i]] = s[i].duration
  BY <1>1 DEF Duration
<1>5. WeightedPositions(s) = Measured(Weight, s)
  BY <1>2, Zenon DEF WeightedPositions, Measured
<1>6. Distances(s) = Measured(Distance, s)
  BY <1>3, Zenon DEF Distances, Measured
<1>7. Durations(s) = Measured(Duration, s)
  BY <1>4, Zenon DEF Durations, Measured
<1> QED
  BY <1>5, <1>6, <1>7

LEMMA MeasuresInt ==
  \A y \in Sound : /\ Weight[y] \in Int /\ Weight[y] = y.weightedPosition
                   /\ Distance[y] \in Int /\ Distance[y] = y.distance
                   /\ Duration[y] \in Int /\ Duration[y] = y.duration
BY DEF Weight, Distance, Duration, Sound, SampleType

LEMMA SoundIsSample ==
  ASSUME NEW s \in Seq(Sound)
  PROVE  s \in Seq(SampleType)
<1>1. Len(s) \in Nat /\ DOMAIN s = 1 .. Len(s) /\ s \in [1 .. Len(s) -> Sound]
  BY LenProperties
<1>2. s \in [1 .. Len(s) -> SampleType]
  BY <1>1 DEF Sound
<1> QED
  BY <1>1, <1>2, SeqDef

LEMMA SumsInt ==
  ASSUME NEW s \in Seq(Sound)
  PROVE  /\ Total(WeightedPositions(s)) \in Int
         /\ Total(Distances(s)) \in Int
         /\ Total(Durations(s)) \in Int
<1>1. /\ \A y \in Sound : Weight[y] \in Int
      /\ \A y \in Sound : Distance[y] \in Int
      /\ \A y \in Sound : Duration[y] \in Int
  BY MeasuresInt
<1>2. Measured(Weight, s) \in Seq(Int)
  BY <1>1, MeasuredIs
<1>3. Measured(Distance, s) \in Seq(Int)
  BY <1>1, MeasuredIs
<1>4. Measured(Duration, s) \in Seq(Int)
  BY <1>1, MeasuredIs
<1> QED
  BY <1>2, <1>3, <1>4, Measures, SumType

LEMMA SubtractIs ==
  ASSUME NEW st \in StateType, NEW dropped,
         Total(WeightedPositions(dropped)) \in Int, Total(Distances(dropped)) \in Int,
         Total(Durations(dropped)) \in Int
  PROVE  LET left == Subtract(st, dropped) IN
         /\ left \in StateType /\ left.samples = st.samples
         /\ left.weightedPositionSum
              = st.weightedPositionSum - Total(WeightedPositions(dropped))
         /\ left.distanceSum = st.distanceSum - Total(Distances(dropped))
         /\ left.durationSum = st.durationSum - Total(Durations(dropped))
<1> DEFINE a == st.weightedPositionSum - Total(WeightedPositions(dropped))
           b == st.distanceSum - Total(Distances(dropped))
           c == st.durationSum - Total(Durations(dropped))
<1>1. a \in Int /\ b \in Int /\ c \in Int
  BY DEF StateType
<1>2. Subtract(st, dropped) = [st EXCEPT !.weightedPositionSum = a, !.distanceSum = b,
                                         !.durationSum = c]
  BY DEF Subtract
<1> HIDE DEF a, b, c
<1>3. /\ Subtract(st, dropped) \in StateType
      /\ Subtract(st, dropped).samples = st.samples
      /\ Subtract(st, dropped).weightedPositionSum = a
      /\ Subtract(st, dropped).distanceSum = b
      /\ Subtract(st, dropped).durationSum = c
  BY <1>1, <1>2 DEF StateType
<1> QED
  BY <1>3 DEF a, b, c

\* The sums after an Update are again those of the window.
LEMMA CountedStep ==
  ASSUME NEW st, Counted(st), st.samples # <<>>, params \in Params,
         NEW position \in Positions, NEW time \in Times
  PROVE  /\ Counted(Smoothed(st, position, time))
         /\ LET samples == Smoothed(st, position, time).samples
            IN  samples # <<>> /\ Last(samples).position = position
<1> DEFINE w == st.samples
           n == Len(w)
           new == NextSample(Last(w), position, time)
           s == Append(w, new)
           drop == DropCount(s, time - params.timeout)
           front == SubSeq(s, 1, drop)
           rest == SubSeq(s, drop + 1, Len(s))
           result == Smoothed(st, position, time)
<1>1. n \in Nat /\ n > 0 /\ w \in Seq(Sound) /\ Last(w) \in Sound
  <2>1. w \in Seq(Sound)
    BY DEF Counted
  <2>2. n \in Nat /\ n > 0
    BY <2>1, LenProperties, EmptySeq
  <2>3. w[n] \in Sound
    BY <2>1, <2>2, ElementOfSeq
  <2> QED
    BY <2>1, <2>2, <2>3 DEF Last
<1>2. new \in Sound /\ new.time = time /\ new.position = position
  BY <1>1, SoundSamples DEF NextSample
<1> HIDE DEF new
<1>3. /\ s \in Seq(Sound) /\ Len(s) = n + 1 /\ s[n + 1] = new
  BY <1>1, <1>2, AppendProperties
<1> HIDE DEF s
<1>4. drop \in 0 .. n
  <2>1. s \in Seq(SampleType) /\ s # <<>>
    <3>1. \A i \in 1 .. n + 1 : s[i] \in SampleType
      BY <1>3, ElementOfSeq DEF Sound
    <3> QED
      BY <1>1, <1>3, <3>1, IsASeq, SeqDef, EmptySeq
  <2>2. time - params.timeout \in Int /\ s[Len(s)].time >= time - params.timeout
    <3>1. time \in Nat /\ params.timeout \in Nat
      BY TimeoutNat, InputsAssumption
    <3> QED
      BY <1>2, <1>3, <3>1
  <2>3. PICK m \in 1 .. Len(s) : DropCount(s, time - params.timeout) = m - 1
    BY <2>1, <2>2, Kept
  <2> QED
    BY <1>1, <1>3, <2>3
<1> DEFINE base == [samples |-> rest,
                    weightedPositionSum |-> st.weightedPositionSum + new.weightedPosition,
                    distanceSum |-> st.distanceSum + new.distance,
                    durationSum |-> st.durationSum + new.duration]
<1>5. result = Subtract(base, front)
  BY Zenon DEF Smoothed, s, new
<1> HIDE DEF drop, result, base
<1>6. /\ rest \in Seq(Sound) /\ Len(rest) = n + 1 - drop
      /\ \A k \in 1 .. n + 1 - drop : rest[k] = s[drop + k]
  <2>1. /\ drop + 1 \in Int /\ n + 1 \in Int /\ (n + 1) - (drop + 1) + 1 = n + 1 - drop
        /\ drop + 1 <= (n + 1) + 1
        /\ \A k \in drop + 1 .. n + 1 : k \in 1 .. n + 1
        /\ \A k \in 1 .. n + 1 - drop : (drop + 1) + k - 1 = drop + k
    BY <1>1, <1>4
  <2>2. \A k \in drop + 1 .. n + 1 : s[k] \in Sound
    BY <1>3, <2>1, ElementOfSeq
  <2> QED
    BY <1>3, <2>1, <2>2, SubSeqProperties
<1>7. front \in Seq(Sound)
  <2>1. \A k \in 1 .. drop : k \in 1 .. n + 1
    BY <1>1, <1>4
  <2>2. \A k \in 1 .. drop : s[k] \in Sound
    BY <1>3, <2>1, ElementOfSeq
  <2> QED
    BY <1>4, <2>2, SubSeqProperties
<1>8. drop \in 0 .. Len(w) + 1
  BY <1>1, <1>4
<1>9. Total(Measured(Weight, rest))
        = Total(Measured(Weight, w)) + Weight[new] - Total(Measured(Weight, front))
  <2>1. \A y \in Sound : Weight[y] \in Int
    BY MeasuresInt
  <2>2. w \in Seq(Sound)
    BY <1>1
  <2> HIDE DEF w
  <2> QED
    BY <1>2, <1>8, <2>1, <2>2, SumOfWindow DEF s
<1>10. Total(Measured(Distance, rest))
        = Total(Measured(Distance, w)) + Distance[new] - Total(Measured(Distance, front))
  <2>1. \A y \in Sound : Distance[y] \in Int
    BY MeasuresInt
  <2>2. w \in Seq(Sound)
    BY <1>1
  <2> HIDE DEF w
  <2> QED
    BY <1>2, <1>8, <2>1, <2>2, SumOfWindow DEF s
<1>11. Total(Measured(Duration, rest))
        = Total(Measured(Duration, w)) + Duration[new] - Total(Measured(Duration, front))
  <2>1. \A y \in Sound : Duration[y] \in Int
    BY MeasuresInt
  <2>2. w \in Seq(Sound)
    BY <1>1
  <2> HIDE DEF w
  <2> QED
    BY <1>2, <1>8, <2>1, <2>2, SumOfWindow DEF s
<1> HIDE DEF rest, front, w
<1>12. \A q \in {w, rest, front} :
          /\ WeightedPositions(q) = Measured(Weight, q)
          /\ Distances(q) = Measured(Distance, q)
          /\ Durations(q) = Measured(Duration, q)
          /\ Total(WeightedPositions(q)) \in Int
          /\ Total(Distances(q)) \in Int
          /\ Total(Durations(q)) \in Int
  BY <1>1, <1>6, <1>7, Measures, SumsInt
<1>13. /\ result \in StateType /\ result.samples = rest
       /\ result.weightedPositionSum = Total(WeightedPositions(rest))
       /\ result.distanceSum = Total(Distances(rest))
       /\ result.durationSum = Total(Durations(rest))
  <2>1. /\ st.weightedPositionSum = Total(WeightedPositions(w))
        /\ st.distanceSum = Total(Distances(w))
        /\ st.durationSum = Total(Durations(w))
    BY DEF Counted, w
  <2>2. /\ Weight[new] = new.weightedPosition /\ Distance[new] = new.distance
        /\ Duration[new] = new.duration
        /\ Weight[new] \in Int /\ Distance[new] \in Int /\ Duration[new] \in Int
    BY <1>2, MeasuresInt
  <2>3. base \in StateType
    <3>1. rest \in Seq(SampleType)
      BY <1>6, SoundIsSample
    <3>2. /\ st.weightedPositionSum + new.weightedPosition \in Int
          /\ st.distanceSum + new.distance \in Int
          /\ st.durationSum + new.duration \in Int
      <4>1. /\ st.weightedPositionSum \in Int /\ st.distanceSum \in Int
            /\ st.durationSum \in Int
        BY DEF Counted, StateType
      <4>2. /\ new.weightedPosition \in Int /\ new.distance \in Int
            /\ new.duration \in Int
        BY <2>2
      <4> QED
        BY <4>1, <4>2
    <3> QED
      BY <3>1, <3>2 DEF StateType, base
  <2>4. /\ result \in StateType /\ result.samples = base.samples
        /\ result.weightedPositionSum
             = base.weightedPositionSum - Total(WeightedPositions(front))
        /\ result.distanceSum = base.distanceSum - Total(Distances(front))
        /\ result.durationSum = base.durationSum - Total(Durations(front))
    BY <1>5, <1>12, <2>3, SubtractIs
  <2>5. /\ base.samples = rest
        /\ base.weightedPositionSum = st.weightedPositionSum + new.weightedPosition
        /\ base.distanceSum = st.distanceSum + new.distance
        /\ base.durationSum = st.durationSum + new.duration
    BY DEF base
  <2>6. result.weightedPositionSum = Total(WeightedPositions(rest))
    BY <1>9, <1>12, <2>1, <2>2, <2>4, <2>5
  <2>7. result.distanceSum = Total(Distances(rest))
    BY <1>10, <1>12, <2>1, <2>2, <2>4, <2>5
  <2>8. result.durationSum = Total(Durations(rest))
    BY <1>11, <1>12, <2>1, <2>2, <2>4, <2>5
  <2> QED
    BY <2>4, <2>5, <2>6, <2>7, <2>8
<1>14. rest # <<>> /\ Last(rest).position = position
  <2>1. n + 1 - drop \in 1 .. n + 1 - drop /\ drop + (n + 1 - drop) = n + 1
    BY <1>1, <1>4
  <2>2. rest[Len(rest)] = new
    BY <1>3, <1>6, <2>1
  <2> QED
    BY <1>2, <1>6, <2>1, <2>2, EmptySeq DEF Last
<1> QED
  BY <1>6, <1>13, <1>14 DEF Counted, result

-----------------------------------------------------------------------------
(* The position *)

Fractions == [num : Int, den : Nat \ {0}]

LEMMA FractionIs ==
  ASSUME NEW num \in Int, NEW den \in Int, den # 0
  PROVE  /\ Fraction(num, den) \in Fractions
         /\ den > 0 => Fraction(num, den).num = num /\ Fraction(num, den).den = den
<1>1. CASE den < 0
  <2>1. Fraction(num, den) = [num |-> -num, den |-> -den]
    BY <1>1 DEF Fraction
  <2>2. -num \in Int /\ -den \in Nat \ {0}
    BY <1>1
  <2> QED
    BY <1>1, <2>1, <2>2 DEF Fractions
<1>2. CASE ~ (den < 0)
  <2>1. Fraction(num, den) = [num |-> num, den |-> den]
    BY <1>2 DEF Fraction
  <2>2. den \in Nat \ {0}
    BY <1>2
  <2> QED
    BY <2>1, <2>2 DEF Fractions
<1> QED
  BY <1>1, <1>2

LEMMA Product ==
  ASSUME NEW a \in Int, NEW b \in Int
  PROVE  /\ a * b \in Int
         /\ a > 0 /\ b > 0 => a * b > 0
         /\ a >= 0 /\ b >= 0 => a * b >= 0
OBVIOUS

\* A ratio is between 0 and 1.
LEMMA RatioIs ==
  ASSUME NEW start \in Nat, NEW end \in Nat, start <= end, NEW speed \in Fractions
  PROVE  LET ratio == Normalize01(start, end, speed)
         IN  ratio \in Fractions /\ 0 <= ratio.num /\ ratio.num <= ratio.den
<1>1. speed.num \in Int /\ speed.den \in Nat /\ speed.den > 0
  BY DEF Fractions
<1>2. \A x \in {0, 1} : /\ Exactly(x) \in Fractions
                        /\ Exactly(x).num = x /\ Exactly(x).den = 1
  BY FractionIs DEF Exactly
<1>3. CASE start = end
  <2>1. \/ Normalize01(start, end, speed) = Exactly(0)
        \/ Normalize01(start, end, speed) = Exactly(1)
    BY <1>3 DEF Normalize01
  <2> QED
    BY <1>2, <2>1
<1>4. CASE start # end
  <2> DEFINE num == speed.num - start * speed.den
             den == (end - start) * speed.den
             f == Fraction(num, den)
  <2>1. Normalize01(start, end, speed) = Clamp01(f)
    BY <1>4 DEF Normalize01
  <2>2. num \in Int /\ den \in Int /\ den > 0
    <3>1. start * speed.den \in Int
      BY <1>1, Product
    <3>2. end - start \in Int /\ end - start > 0
      BY <1>4
    <3> QED
      BY <1>1, <3>1, <3>2, Product
  <2> HIDE DEF num, den
  <2>3. f \in Fractions /\ f.num \in Int /\ f.den \in Nat
    <3>1. f \in Fractions
      BY <2>2, FractionIs
    <3> QED
      BY <3>1 DEF Fractions
  <2> HIDE DEF f
  <2>4. \/ Clamp01(f) = Exactly(0)
        \/ Clamp01(f) = Exactly(1)
        \/ Clamp01(f) = f /\ ~ (f.num < 0) /\ ~ (f.num > f.den)
    BY DEF Clamp01
  <2> QED
    BY <1>2, <2>1, <2>3, <2>4
<1> QED
  BY <1>3, <1>4

\* The position is a fraction, and what it is a fraction of.
LEMMA PositionIs ==
  ASSUME NEW st \in StateType, params \in Params, NEW x \in Int
  PROVE  /\ Position(st, x) \in Fractions
         /\ st.durationSum = 0 => Position(st, x).num = x /\ Position(st, x).den = 1
         /\ st.durationSum > 0 =>
              \E rn, rd \in Int :
                /\ 0 <= rn /\ rn <= rd /\ rd > 0
                /\ Position(st, x).den = st.durationSum * rd
                /\ Position(st, x).num
                     = st.weightedPositionSum * rd
                         + (x * st.durationSum - st.weightedPositionSum) * rn
<1> DEFINE D == st.durationSum
           W == st.weightedPositionSum
           average == Fraction(W, D)
           speed == Fraction(st.distanceSum, D)
           ratio == Normalize01(params.speedFloor, params.speedCeiling, speed)
           rn == ratio.num
           rd == ratio.den
           num == average.num * rd + (x * average.den - average.num) * rn
           den == average.den * rd
<1>1. D \in Int /\ W \in Int /\ st.distanceSum \in Int
  BY DEF StateType
<1>2. CASE D = 0
  <2>1. Position(st, x) = Exactly(x)
    BY <1>2 DEF Position
  <2> QED
    BY <1>2, <2>1, FractionIs DEF Exactly
<1>3. CASE D # 0
  <2>1. Position(st, x) = Fraction(num, den)
    BY <1>3 DEF Position, Interp
  <2>2. average \in Fractions /\ speed \in Fractions
    BY <1>1, <1>3, FractionIs
  <2>3. D > 0 => average.num = W /\ average.den = D
    BY <1>1, FractionIs
  <2> HIDE DEF average, speed, D, W
  <2>4. ratio \in Fractions /\ 0 <= rn /\ rn <= rd
    <3>1. /\ params.speedFloor \in Nat /\ params.speedCeiling \in Nat
          /\ params.speedFloor <= params.speedCeiling
      BY ParamsAssumption DEF ParamsType
    <3> QED
      BY <2>2, <3>1, RatioIs
  <2> HIDE DEF ratio
  <2>5. /\ average.num \in Int /\ average.den \in Int /\ average.den > 0
        /\ rn \in Int /\ rd \in Int /\ rd > 0
    BY <2>2, <2>4 DEF Fractions
  <2> HIDE DEF rn, rd
  <2>6. den \in Int /\ den > 0
    BY <2>5, Product
  <2>7. num \in Int
    <3>1. average.num * rd \in Int /\ x * average.den \in Int
      BY <2>5, Product
    <3>2. x * average.den - average.num \in Int
      BY <2>5, <3>1
    <3>3. (x * average.den - average.num) * rn \in Int
      BY <2>5, <3>2, Product
    <3> QED
      BY <3>1, <3>3
  <2>8. D > 0 => num = W * rd + (x * D - W) * rn /\ den = D * rd
    BY <2>3
  <2> HIDE DEF num, den
  <2>9. /\ Position(st, x) \in Fractions
        /\ Position(st, x).num = num /\ Position(st, x).den = den
    BY <2>1, <2>6, <2>7, FractionIs
  <2> QED
    BY <1>3, <2>4, <2>5, <2>8, <2>9 DEF D, W
<1> QED
  BY <1>2, <1>3

\* Between an average W/D and x, at rn/rd of the way.
LEMMA BetweenFromBelow ==
  ASSUME NEW D \in Int, NEW W \in Int, NEW x \in Int, NEW lo \in Int, NEW rn \in Int,
         NEW rd \in Int, D > 0, 0 <= rn, rn <= rd, lo * D <= W, lo <= x
  PROVE  lo * (D * rd) <= W * rd + (x * D - W) * rn
<1>1. (W - lo * D) * (rd - rn) >= 0
  <2>1. W - lo * D \in Int /\ W - lo * D >= 0 /\ rd - rn \in Int /\ rd - rn >= 0
    BY Product
  <2> QED
    BY <2>1, Product
<1>2. ((x - lo) * D) * rn >= 0
  <2>1. (x - lo) * D \in Int /\ (x - lo) * D >= 0
    BY Product
  <2> QED
    BY <2>1, Product
<1>3. W * rd + (x * D - W) * rn - lo * (D * rd)
        = (W - lo * D) * (rd - rn) + ((x - lo) * D) * rn
  OBVIOUS
<1>4. /\ W * rd + (x * D - W) * rn \in Int /\ lo * (D * rd) \in Int
      /\ (W - lo * D) * (rd - rn) \in Int /\ ((x - lo) * D) * rn \in Int
  OBVIOUS
<1> QED
  BY <1>1, <1>2, <1>3, <1>4

LEMMA BetweenFromAbove ==
  ASSUME NEW D \in Int, NEW W \in Int, NEW x \in Int, NEW hi \in Int, NEW rn \in Int,
         NEW rd \in Int, D > 0, 0 <= rn, rn <= rd, W <= hi * D, x <= hi
  PROVE  W * rd + (x * D - W) * rn <= hi * (D * rd)
<1>1. (hi * D - W) * (rd - rn) >= 0
  <2>1. hi * D - W \in Int /\ hi * D - W >= 0 /\ rd - rn \in Int /\ rd - rn >= 0
    BY Product
  <2> QED
    BY <2>1, Product
<1>2. ((hi - x) * D) * rn >= 0
  <2>1. (hi - x) * D \in Int /\ (hi - x) * D >= 0
    BY Product
  <2> QED
    BY <2>1, Product
<1>3. hi * (D * rd) - (W * rd + (x * D - W) * rn)
        = (hi * D - W) * (rd - rn) + ((hi - x) * D) * rn
  OBVIOUS
<1>4. /\ W * rd + (x * D - W) * rn \in Int /\ hi * (D * rd) \in Int
      /\ (hi * D - W) * (rd - rn) \in Int /\ ((hi - x) * D) * rn \in Int
  OBVIOUS
<1> QED
  BY <1>1, <1>2, <1>3, <1>4

\* A sum of positions weighted by durations that are not negative is between
\* the sum of the durations times the least position and times the greatest.
LEMMA AverageInside ==
  ASSUME NEW s \in Seq(Sound), s # <<>>, \A i \in 1 .. Len(s) : s[i].duration >= 0
  PROVE  \E i, j \in 1 .. Len(s) :
           /\ \A k \in 1 .. Len(s) : /\ s[i].position <= s[k].position
                                     /\ s[k].position <= s[j].position
           /\ Total(Durations(s)) >= 0
           /\ s[i].position * Total(Durations(s)) <= Total(WeightedPositions(s))
           /\ Total(WeightedPositions(s)) <= s[j].position * Total(Durations(s))
<1> DEFINE n == Len(s)
           v == [k \in 1 .. n |-> s[k].position]
           u == Durations(s)
           w == WeightedPositions(s)
<1>1. n \in Nat \ {0} /\ DOMAIN s = 1 .. n
  BY LenProperties, EmptySeq
<1>2. \A k \in 1 .. n : /\ s[k].position \in Int /\ s[k].duration \in Int
                        /\ s[k].weightedPosition = s[k].position * s[k].duration
                        /\ s[k].weightedPosition \in Int
  <2> SUFFICES ASSUME NEW k \in 1 .. n
               PROVE  /\ s[k].position \in Int /\ s[k].duration \in Int
                      /\ s[k].weightedPosition = s[k].position * s[k].duration
                      /\ s[k].weightedPosition \in Int
    OBVIOUS
  <2>1. s[k] \in Sound
    BY ElementOfSeq
  <2> QED
    BY <2>1, InputsAssumption DEF Sound, SampleType
<1>3. \A k \in 1 .. n : v[k] = s[k].position /\ v[k] \in Int
  BY <1>2
<1>4. u = [k \in 1 .. n |-> s[k].duration] /\ w = [k \in 1 .. n |-> s[k].weightedPosition]
  BY <1>1 DEF Durations, WeightedPositions
<1>5. \A k \in 1 .. n : u[k] = s[k].duration /\ w[k] = s[k].weightedPosition
  BY <1>4
<1>6. u \in [1 .. n -> Int] /\ w \in [1 .. n -> Int]
  BY <1>2, <1>4
<1> HIDE DEF u, w, v
<1>7. u \in Seq(Int) /\ w \in Seq(Int) /\ Len(u) = n /\ Len(w) = n
  <2>1. \A f \in [1 .. n -> Int] : f \in Seq(Int) /\ Len(f) = n
    BY <1>1, IsASeq, LenProperties
  <2> QED
    BY <1>6, <2>1
<1>8. Total(u) \in Int /\ Total(w) \in Int
  BY <1>7, SumType
<1> HIDE DEF n
<1>9. PICK i \in 1 .. n : \A k \in 1 .. n : v[i] <= v[k]
  BY <1>1, <1>3, LeastValue
<1>10. PICK j \in 1 .. n : \A k \in 1 .. n : v[k] <= v[j]
  BY <1>1, <1>3, GreatestValue
<1>11. \A k \in 1 .. n : u[k] \in Int /\ u[k] >= 0 /\ w[k] = v[k] * u[k] /\ w[k] \in Int
  BY <1>2, <1>3, <1>5 DEF n
<1>12. Total(u) >= 0
  <2>1. \A k \in 1 .. n : 0 * u[k] <= 1 * u[k]
    BY <1>11
  <2>2. 0 * Total(u) <= 1 * Total(u)
    <3>1. 0 \in Int /\ 1 \in Int
      BY <1>3
    <3>2. \A k \in 1 .. Len(u) : 0 * u[k] <= 1 * u[k]
      BY <1>7, <2>1, Zenon
    <3> QED
      BY <1>7, <3>1, <3>2, SumsCompare, Zenon
  <2> QED
    BY <1>8, <2>2
<1>13. v[i] * Total(u) <= Total(w)
  <2>1. \A k \in 1 .. n : v[i] * u[k] <= 1 * w[k]
    <3> SUFFICES ASSUME NEW k \in 1 .. n PROVE v[i] * u[k] <= 1 * w[k]
      OBVIOUS
    <3>1. /\ v[i] \in Int /\ v[k] \in Int /\ v[i] <= v[k] /\ u[k] \in Int /\ u[k] >= 0
          /\ w[k] = v[k] * u[k]
      BY <1>3, <1>9, <1>11
    <3>2. \A a, b, c \in Int : a <= b /\ c >= 0 => a * c <= 1 * (b * c)
      OBVIOUS
    <3> QED
      BY <3>1, <3>2
  <2>2. v[i] * Total(u) <= 1 * Total(w)
    <3>1. v[i] \in Int /\ 1 \in Int
      BY <1>3
    <3>2. \A k \in 1 .. Len(u) : v[i] * u[k] <= 1 * w[k]
      BY <1>7, <2>1, Zenon
    <3> QED
      BY <1>7, <3>1, <3>2, SumsCompare, Zenon
  <2> QED
    BY <1>8, <2>2
<1>14. Total(w) <= v[j] * Total(u)
  <2>1. \A k \in 1 .. n : 1 * w[k] <= v[j] * u[k]
    <3> SUFFICES ASSUME NEW k \in 1 .. n PROVE 1 * w[k] <= v[j] * u[k]
      OBVIOUS
    <3>1. /\ v[j] \in Int /\ v[k] \in Int /\ v[k] <= v[j] /\ u[k] \in Int /\ u[k] >= 0
          /\ w[k] = v[k] * u[k]
      BY <1>3, <1>10, <1>11
    <3>2. \A a, b, c \in Int : a <= b /\ c >= 0 => 1 * (a * c) <= b * c
      OBVIOUS
    <3> QED
      BY <3>1, <3>2
  <2>2. 1 * Total(w) <= v[j] * Total(u)
    <3>1. 1 \in Int /\ v[j] \in Int
      BY <1>3
    <3>2. \A k \in 1 .. Len(w) : 1 * w[k] <= v[j] * u[k]
      BY <1>7, <2>1, Zenon
    <3> QED
      BY <1>7, <3>1, <3>2, SumsCompare, Zenon
  <2> QED
    BY <1>8, <2>2
<1>15. \A k \in 1 .. n : /\ s[i].position <= s[k].position
                         /\ s[k].position <= s[j].position
  BY <1>3, <1>9, <1>10
<1>16. v[i] = s[i].position /\ v[j] = s[j].position
  BY <1>3
<1> QED
  BY <1>12, <1>13, <1>14, <1>15, <1>16 DEF n, u, w

\* out is not outside of the positions of s.
Inside(out, s) ==
  /\ \E i \in 1 .. Len(s) : s[i].position * out.den <= out.num
  /\ \E i \in 1 .. Len(s) : out.num <= s[i].position * out.den

LEMMA PositionInside ==
  ASSUME NEW st, Counted(st), st.samples # <<>>, params \in Params,
         \A i \in 1 .. Len(st.samples) : st.samples[i].duration >= 0
  PROVE  Inside(Position(st, Last(st.samples).position), st.samples)
<1> DEFINE s == st.samples
           n == Len(s)
           x == Last(s).position
           out == Position(st, x)
           D == st.durationSum
           W == st.weightedPositionSum
<1>1. /\ s \in Seq(Sound) /\ st \in StateType
      /\ W = Total(WeightedPositions(s)) /\ D = Total(Durations(s))
  BY DEF Counted
<1>2. n \in Nat /\ n \in 1 .. n /\ x = s[n].position
  BY <1>1, LenProperties, EmptySeq DEF Last
<1>3. \A k \in 1 .. n : s[k].position \in Int
  <2> SUFFICES ASSUME NEW k \in 1 .. n PROVE s[k].position \in Int
    OBVIOUS
  <2>1. s[k] \in Sound
    BY <1>1, ElementOfSeq
  <2> QED
    BY <2>1, InputsAssumption DEF Sound, SampleType
<1>4. x \in Int /\ D \in Int /\ W \in Int
  BY <1>1, <1>2, <1>3 DEF StateType
<1>5. PICK i, j \in 1 .. n :
        /\ \A k \in 1 .. n : s[i].position <= s[k].position /\ s[k].position <= s[j].position
        /\ Total(Durations(s)) >= 0
        /\ s[i].position * Total(Durations(s)) <= Total(WeightedPositions(s))
        /\ Total(WeightedPositions(s)) <= s[j].position * Total(Durations(s))
  BY <1>1, AverageInside
<1> HIDE DEF s, n, x, D, W
<1>6. CASE D = 0
  <2>1. out.num = x /\ out.den = 1
    BY <1>1, <1>4, <1>6, PositionIs DEF D
  <2>2. s[n].position * out.den = out.num
    BY <1>2, <1>3, <2>1
  <2>3. s[n].position * out.den <= out.num /\ out.num <= s[n].position * out.den
    BY <1>2, <1>3, <2>1, <2>2
  <2> QED
    BY <1>2, <2>3 DEF Inside, s, n, x
<1>7. CASE D > 0
  <2>1. PICK rn, rd \in Int :
          /\ 0 <= rn /\ rn <= rd /\ rd > 0
          /\ out.den = D * rd /\ out.num = W * rd + (x * D - W) * rn
    BY <1>1, <1>4, <1>7, PositionIs DEF D, W
  <2>2. /\ s[i].position * D <= W /\ W <= s[j].position * D
        /\ s[i].position <= x /\ x <= s[j].position
        /\ s[i].position \in Int /\ s[j].position \in Int
    BY <1>1, <1>2, <1>3, <1>5
  <2> DEFINE lo == s[i].position
             hi == s[j].position
  <2>3. lo \in Int /\ hi \in Int
    BY <2>2
  <2>4. lo * (D * rd) <= W * rd + (x * D - W) * rn
    <3>1. lo * D <= W /\ lo <= x
      BY <2>2
    <3> HIDE DEF lo
    <3> QED
      BY <1>4, <1>7, <2>1, <2>3, <3>1, BetweenFromBelow, Zenon
  <2>5. W * rd + (x * D - W) * rn <= hi * (D * rd)
    <3>1. W <= hi * D /\ x <= hi
      BY <2>2
    <3> HIDE DEF hi
    <3> QED
      BY <1>4, <1>7, <2>1, <2>3, <3>1, BetweenFromAbove, Zenon
  <2>6. lo * out.den <= out.num /\ out.num <= hi * out.den
    <3> HIDE DEF lo, hi
    <3> QED
      BY <2>1, <2>4, <2>5, Zenon
  <2> QED
    BY <2>6 DEF Inside, s, n, x
<1> QED
  BY <1>1, <1>4, <1>5, <1>6, <1>7

-----------------------------------------------------------------------------
(* The invariant of the sums and of the position *)

SumsInv ==
  /\ Counted(state) /\ lastTime \in Times \cup {NoStroke}
  /\ saved # NoSave => Counted(saved.state) /\ saved.lastTime \in Times \cup {NoStroke}
  /\ output = NoOutput \/ output \in Fractions
  /\ output # NoOutput /\ params.enabled
       /\ (\A i \in 1 .. Len(state.samples) : state.samples[i].duration >= 0) =>
       Inside(output, state.samples)

LEMMA SumOfFew ==
  ASSUME NEW values \in Seq(Int)
  PROVE  /\ Len(values) = 0 => Total(values) = 0
         /\ Len(values) = 1 => Total(values) = values[1]
<1>1. PICK f \in [0 .. Len(values) -> Int] :
           /\ f[0] = 0 /\ \A k \in 1 .. Len(values) : f[k] = f[k - 1] + values[k]
           /\ Total(values) = f[Len(values)]
  BY RunningSum
<1>2. CASE Len(values) = 0
  BY <1>1, <1>2
<1>3. CASE Len(values) = 1
  <2>1. f[1] = f[1 - 1] + values[1] /\ 1 - 1 = 0
    BY <1>1, <1>3
  <2>2. values[1] \in Int
    BY <1>3, ElementOfSeq
  <2> QED
    BY <1>1, <1>3, <2>1, <2>2
<1> QED
  BY <1>2, <1>3

\* No sample, or one that was given no weight.
LEMMA CountedFew ==
  ASSUME NEW s \in Seq(Sound), Len(s) \in {0, 1},
         Len(s) = 1 => /\ s[1].weightedPosition = 0 /\ s[1].distance = 0
                       /\ s[1].duration = 0
  PROVE  Counted([samples |-> s, weightedPositionSum |-> 0, distanceSum |-> 0,
                  durationSum |-> 0])
<1>1. \A g : (\A y \in Sound : g[y] \in Int) /\ (Len(s) = 1 => g[s[1]] = 0) =>
               Total(Measured(g, s)) = 0
  <2> SUFFICES ASSUME NEW g, \A y \in Sound : g[y] \in Int, Len(s) = 1 => g[s[1]] = 0
               PROVE  Total(Measured(g, s)) = 0
    OBVIOUS
  <2>1. /\ Measured(g, s) \in Seq(Int) /\ Len(Measured(g, s)) = Len(s)
        /\ \A i \in 1 .. Len(s) : Measured(g, s)[i] = g[s[i]]
    BY MeasuredIs
  <2> DEFINE m == Measured(g, s)
  <2> HIDE DEF m
  <2>2. /\ Len(m) = 0 => Total(m) = 0
        /\ Len(m) = 1 => Total(m) = m[1]
    BY <2>1, SumOfFew DEF m
  <2>3. Len(m) = Len(s) /\ \A i \in 1 .. Len(s) : m[i] = g[s[i]]
    BY <2>1 DEF m
  <2>4. CASE Len(s) = 1
    <3>1. 1 \in 1 .. Len(s)
      BY <2>4
    <3> QED
      BY <2>2, <2>3, <2>4, <3>1 DEF m
  <2> QED
    BY <2>2, <2>3, <2>4 DEF m
<1>2. Len(s) = 1 => s[1] \in Sound
  <2>1. Len(s) = 1 => 1 \in 1 .. Len(s)
    OBVIOUS
  <2> QED
    BY <2>1, ElementOfSeq
<1>3. Total(Measured(Weight, s)) = 0
  <2>1. \A y \in Sound : Weight[y] \in Int /\ Weight[y] = y.weightedPosition
    BY MeasuresInt
  <2> QED
    BY <1>1, <1>2, <2>1
<1>4. Total(Measured(Distance, s)) = 0
  <2>1. \A y \in Sound : Distance[y] \in Int /\ Distance[y] = y.distance
    BY MeasuresInt
  <2> QED
    BY <1>1, <1>2, <2>1
<1>5. Total(Measured(Duration, s)) = 0
  <2>1. \A y \in Sound : Duration[y] \in Int /\ Duration[y] = y.duration
    BY MeasuresInt
  <2> QED
    BY <1>1, <1>2, <2>1
<1>6. s \in Seq(SampleType)
  BY SoundIsSample
<1> QED
  BY <1>3, <1>4, <1>5, <1>6, Measures DEF Counted, StateType

LEMMA SumsInit == Init => SumsInv
<1> SUFFICES ASSUME Init PROVE SumsInv
  OBVIOUS
<1>1. <<>> \in Seq(Sound) /\ Len(<<>>) = 0
  BY EmptySeq
<1>2. Counted(state)
  <2>1. state = [samples |-> <<>>, weightedPositionSum |-> 0, distanceSum |-> 0,
                 durationSum |-> 0]
    BY DEF Init
  <2>2. /\ Len(<<>>) \in {0, 1} /\ Len(<<>>) # 1
    BY <1>1
  <2> QED
    BY <1>1, <2>1, <2>2, CountedFew, Zenon
<1> QED
  BY <1>2 DEF Init, SumsInv

LEMMA SumsReset ==
  ASSUME SumsInv, NEW p \in Params, NEW x \in Positions, NEW t \in Times, Reset(p, x, t)
  PROVE  SumsInv'
<1> DEFINE first == FirstSample(x, t)
           one == <<first>>
<1>1. /\ first \in Sound /\ first.position = x /\ first.weightedPosition = 0
      /\ first.distance = 0 /\ first.duration = 0
  BY SoundSamples DEF FirstSample
<1>2. state' = [samples |-> one, weightedPositionSum |-> 0, distanceSum |-> 0,
                durationSum |-> 0]
  BY DEF Reset, Started
<1> HIDE DEF first
<1>3. one \in Seq(Sound) /\ Len(one) = 1 /\ one[1] = first
  BY <1>1
<1> HIDE DEF one
<1>4. Counted(state')
  BY <1>1, <1>2, <1>3, CountedFew
<1>5. output' = Exactly(x) /\ saved' = NoSave /\ lastTime' = t
  BY DEF Reset
<1>6. output' \in Fractions /\ output'.num = x /\ output'.den = 1 /\ x \in Int
  BY <1>5, InputsAssumption, FractionIs DEF Exactly
<1>7. Inside(output', state'.samples)
  <2>1. state'.samples = one
    BY <1>2
  <2>2. 1 \in 1 .. 1 /\ x * 1 = x /\ x <= x
    BY <1>6
  <2> QED
    BY <1>1, <1>3, <1>6, <2>1, <2>2 DEF Inside
<1> QED
  BY <1>4, <1>5, <1>6, <1>7 DEF SumsInv

LEMMA SumsUpdate ==
  ASSUME IInv, SumsInv, NEW x \in Positions, NEW t \in Times, Update(x, t)
  PROVE  SumsInv'
<1>1. /\ params' = params /\ saved' = saved /\ lastTime' \in {t, lastTime}
      /\ lastTime # NoStroke
  BY DEF Update
<1>2. params \in Params /\ x \in Int
  BY InputsAssumption DEF IInv
<1>3. lastTime' \in Times \cup {NoStroke}
  BY <1>1 DEF SumsInv
<1>4. CASE ~ params.enabled
  <2>1. state' = state /\ output' = Exactly(x)
    BY <1>4 DEF Update
  <2>2. output' \in Fractions
    BY <1>2, <2>1, FractionIs DEF Exactly
  <2> QED
    BY <1>1, <1>3, <1>4, <2>1, <2>2 DEF SumsInv
<1>5. CASE params.enabled
  <2>1. state' = Smoothed(state, x, t) /\ output' = Position(state', x)
    BY <1>5 DEF Update
  <2>2. state.samples # <<>>
    BY <1>1, WindowFromInv DEF WindowIsPreviousTimeout
  <2>3. /\ Counted(state') /\ state'.samples # <<>> /\ Last(state'.samples).position = x
    BY <1>2, <2>1, <2>2, CountedStep DEF SumsInv
  <2>4. output' \in Fractions
    BY <1>2, <2>1, <2>3, PositionIs DEF Counted
  <2>5. (\A i \in 1 .. Len(state'.samples) : state'.samples[i].duration >= 0) =>
           Inside(output', state'.samples)
    BY <1>2, <2>1, <2>3, PositionInside
  <2> QED
    BY <1>1, <1>3, <2>3, <2>4, <2>5 DEF SumsInv
<1> QED
  BY <1>4, <1>5

LEMMA SumsNext == IInv /\ SumsInv /\ [Next]_vars => SumsInv'
<1> SUFFICES ASSUME IInv, SumsInv, [Next]_vars PROVE SumsInv'
  OBVIOUS
<1>1. ASSUME NEW p \in Params, NEW x \in Positions, NEW t \in Times, Reset(p, x, t)
      PROVE  SumsInv'
  BY <1>1, SumsReset
<1>2. ASSUME NEW x \in Positions, NEW t \in Times, Update(x, t) PROVE SumsInv'
  BY <1>2, SumsUpdate
<1>3. CASE EndStroke
  BY <1>3 DEF EndStroke, SumsInv
<1>4. CASE Save
  <2>1. /\ state' = state /\ lastTime' = lastTime /\ output' = NoOutput
        /\ saved'.state = state /\ saved'.lastTime = lastTime
    BY <1>4 DEF Save
  <2> QED
    BY <2>1 DEF SumsInv
<1>5. CASE Restore
  <2>1. /\ saved # NoSave /\ saved' = saved /\ output' = NoOutput
        /\ state' = saved.state /\ lastTime' = saved.lastTime
    BY <1>5 DEF Restore
  <2> QED
    BY <2>1 DEF SumsInv
<1>6. CASE UNCHANGED vars
  BY <1>6 DEF SumsInv, vars
<1> QED
  BY <1>1, <1>2, <1>3, <1>4, <1>5, <1>6 DEF Next

LEMMA SumsInvHolds == Spec => [](IInv /\ SumsInv)
BY InvHolds, SumsInit, SumsNext, PTL DEF Spec

LEMMA TypeFromInv == IInv /\ SumsInv => TypeOK
BY DEF IInv, SumsInv, TypeOK, Counted, Fractions

LEMMA SumsFromInv == SumsInv => SumsMatchWindow
BY DEF SumsInv, SumsMatchWindow, Counted

LEMMA InsideFromInv == SumsInv => SmoothedInsideWindow
<1> SUFFICES ASSUME SumsInv, output # NoOutput, params.enabled,
                    \A i \in DOMAIN state.samples : state.samples[i].duration >= 0
             PROVE  /\ \E i \in DOMAIN state.samples :
                         state.samples[i].position * output.den <= output.num
                    /\ \E i \in DOMAIN state.samples :
                         output.num <= state.samples[i].position * output.den
  BY DEF SmoothedInsideWindow
<1>1. DOMAIN state.samples = 1 .. Len(state.samples)
  BY LenProperties DEF SumsInv, Counted
<1>2. Inside(output, state.samples)
  BY <1>1 DEF SumsInv
<1> QED
  BY <1>1, <1>2 DEF Inside

\* The deque holds samples, the sums are numbers, and no position is a quotient
\* by zero (wobble_smoother.cc:62-64).
THEOREM TypeCorrect == Spec => []TypeOK
BY SumsInvHolds, TypeFromInv, PTL

\* The running sums are those of the window after any number of additions,
\* evictions, Saves and Restores (wobble_smoother.cc:52-60): the induction over
\* the window is SumOfWindow.
THEOREM SumsCorrect == Spec => []SumsMatchWindow
BY SumsInvHolds, SumsFromInv, PTL

\* The smoothed position is between two positions of the window, for all
\* timeouts and speed bounds (wobble_smoother.cc:62-72), unless a Move of a
\* later time was rejected and is still in it.
THEOREM InsideCorrect == Spec => []SmoothedInsideWindow
BY SumsInvHolds, InsideFromInv, PTL
=============================================================================
