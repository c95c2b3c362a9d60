----------------------- MODULE StylusStateModelerProofs -----------------------
(***************************************************************************)
(* Theorems about StylusStateModeler, for all parameters, inputs, tips and *)
(* hits: the window is what params.h promises, what an input lacked stays  *)
(* missing, the tip goes to the outside of a turn or to the closest point, *)
(* and an orientation takes the shorter way.                               *)
(***************************************************************************)
EXTENDS StylusStateModeler, ModelerLemmas

-----------------------------------------------------------------------------
(* The window *)

LEMMA ParamsNat ==
  ASSUME NEW p \in Params
  PROVE  /\ p.normalProjection \in BOOLEAN
         /\ p.maxSamples \in Nat \ {0}
         /\ p.minSamples \in Nat \ {0} /\ p.minDuration \in Nat \ {0}
BY ParamsAssumption DEF ParamsType

LEMMA InputsType ==
  ASSUME NEW in \in Inputs
  PROVE  in.time \in Nat /\ in.unknown \subseteq Fields
BY InputsAssumption DEF InputType

\* What the while loop drops, and why it stops there.
LEMMA Dropped ==
  ASSUME NEW p \in Params, NEW s \in Seq(Inputs), s # <<>>
  PROVE  LET L == Len(s) IN
         \E m \in 1 .. L :
           /\ DropOldest(p, s) = SubSeq(s, m, L)
           /\ p.normalProjection =>
                /\ \/ L - m + 1 <= p.minSamples
                   \/ s[L].time - s[m + 1].time <= p.minDuration
                /\ m > 1 => /\ L - m + 2 > p.minSamples
                            /\ s[L].time - s[m].time > p.minDuration
           /\ ~ p.normalProjection =>
                /\ L - m + 1 <= p.maxSamples
                /\ m > 1 => L - m + 2 > p.maxSamples
<1> DEFINE L == Len(s)
           Rest(i) == SubSeq(s, i, L)
           kept == {i \in DOMAIN s : ~ ShouldDropOldestInput(p, Rest(i))}
           m == Min(kept)
<1>1. L \in Nat /\ L > 0 /\ DOMAIN s = 1 .. L
  BY EmptySeq, LenProperties
<1>2. /\ p.maxSamples \in Nat \ {0} /\ p.minSamples \in Nat \ {0}
      /\ p.normalProjection \in BOOLEAN
  BY ParamsNat
<1>3. ASSUME NEW i \in 1 .. L
      PROVE  /\ Len(Rest(i)) = L - i + 1 /\ Last(Rest(i)) = s[L]
             /\ i < L => Rest(i)[2] = s[i + 1]
  <2>1. \A k \in i .. L : s[k] \in Inputs
    BY <1>1, <1>3, ElementOfSeq
  <2>2. /\ Len(Rest(i)) = L - i + 1
        /\ \A k \in 1 .. L - i + 1 : Rest(i)[k] = s[i + k - 1]
    BY <1>1, <1>3, <2>1, SubSeqProperties
  <2>3. Rest(i)[L - i + 1] = s[L]
    <3>1. L - i + 1 \in 1 .. L - i + 1 /\ i + (L - i + 1) - 1 = L
      BY <1>1, <1>3
    <3> QED
      BY <2>2, <3>1
  <2>4. ASSUME i < L PROVE Rest(i)[2] = s[i + 1]
    <3>1. 2 \in 1 .. L - i + 1 /\ i + 2 - 1 = i + 1
      BY <1>1, <1>3, <2>4
    <3> QED
      BY <2>2, <3>1
  <2> QED
    BY <2>2, <2>3, <2>4 DEF Last
<1> HIDE DEF L, Rest
<1>4. \A i \in 1 .. L :
        ShouldDropOldestInput(p, Rest(i))
          <=> IF p.normalProjection
              THEN L - i + 1 > p.minSamples /\ s[L].time - s[i + 1].time > p.minDuration
              ELSE L - i + 1 > p.maxSamples
  <2> SUFFICES ASSUME NEW i \in 1 .. L
               PROVE  ShouldDropOldestInput(p, Rest(i))
                        <=> IF p.normalProjection
                            THEN /\ L - i + 1 > p.minSamples
                                 /\ s[L].time - s[i + 1].time > p.minDuration
                            ELSE L - i + 1 > p.maxSamples
    OBVIOUS
  <2>1. L - i + 1 > p.minSamples => i < L
    BY <1>1, <1>2
  <2> QED
    BY <1>2, <1>3, <2>1 DEF ShouldDropOldestInput
<1>5. kept \in SUBSET Nat /\ kept # {}
  <2>1. L \in 1 .. L
    BY <1>1
  <2>2. ~ ShouldDropOldestInput(p, Rest(L))
    <3>1. L - L + 1 = 1 /\ ~ (1 > p.minSamples) /\ ~ (1 > p.maxSamples)
      BY <1>1, <1>2
    <3> QED
      BY <1>4, <2>1, <3>1
  <2>3. L \in DOMAIN s /\ kept \subseteq 1 .. L
    BY <1>1, <2>1
  <2>4. L \in kept
    BY <2>2, <2>3
  <2>5. 1 .. L \subseteq Nat
    OBVIOUS
  <2> HIDE DEF kept
  <2> QED
    BY <2>3, <2>4, <2>5
<1>6. m \in kept /\ \A i \in kept : m <= i
  BY <1>5, LeastOf
<1>7. m \in 1 .. L /\ ~ ShouldDropOldestInput(p, Rest(m))
  BY <1>1, <1>6
<1>8. m > 1 => m - 1 \in 1 .. L /\ ShouldDropOldestInput(p, Rest(m - 1))
  <2> SUFFICES ASSUME m > 1, ~ ShouldDropOldestInput(p, Rest(m - 1))
               PROVE  FALSE
    BY <1>1, <1>7
  <2>1. m - 1 \in DOMAIN s
    BY <1>1, <1>7
  <2>2. m - 1 \in kept
    BY <2>1
  <2> HIDE DEF kept, m
  <2>3. m <= m - 1
    BY <1>6, <2>2
  <2> QED
    BY <1>1, <1>7, <2>3
<1>9. DropOldest(p, s) = SubSeq(s, m, L)
  BY DEF DropOldest, Rest, L
<1> HIDE DEF m, kept
<1>10. /\ p.normalProjection =>
            /\ \/ L - m + 1 <= p.minSamples
               \/ ~ (s[L].time - s[m + 1].time > p.minDuration)
            /\ m > 1 => /\ L - m + 2 > p.minSamples
                        /\ s[L].time - s[m].time > p.minDuration
       /\ ~ p.normalProjection =>
            /\ L - m + 1 <= p.maxSamples
            /\ m > 1 => L - m + 2 > p.maxSamples
  <2>1. /\ p.normalProjection =>
             \/ ~ (L - m + 1 > p.minSamples)
             \/ ~ (s[L].time - s[m + 1].time > p.minDuration)
        /\ ~ p.normalProjection => ~ (L - m + 1 > p.maxSamples)
    BY <1>4, <1>7
  <2>2. ASSUME m > 1
        PROVE  /\ p.normalProjection =>
                    /\ L - m + 2 > p.minSamples
                    /\ s[L].time - s[m].time > p.minDuration
               /\ ~ p.normalProjection => L - m + 2 > p.maxSamples
    <3>1. m - 1 \in 1 .. L /\ ShouldDropOldestInput(p, Rest(m - 1))
      BY <1>8, <2>2
    <3>2. L - (m - 1) + 1 = L - m + 2 /\ (m - 1) + 1 = m
      BY <1>1, <1>7
    <3>3. /\ p.normalProjection =>
               /\ L - (m - 1) + 1 > p.minSamples
               /\ s[L].time - s[(m - 1) + 1].time > p.minDuration
          /\ ~ p.normalProjection => L - (m - 1) + 1 > p.maxSamples
      BY <1>4, <3>1
    <3> QED
      BY <3>2, <3>3
  <2>3. /\ ~ (L - m + 1 > p.minSamples) => L - m + 1 <= p.minSamples
        /\ ~ (L - m + 1 > p.maxSamples) => L - m + 1 <= p.maxSamples
    BY <1>1, <1>2, <1>7
  <2> QED
    BY <2>1, <2>2, <2>3
<1>11. ASSUME ~ (L - m + 1 <= p.minSamples)
       PROVE  s[L].time - s[m + 1].time \in Int /\ p.minDuration \in Int
  <2>1. m + 1 \in 1 .. L /\ L \in 1 .. L
    BY <1>1, <1>2, <1>7, <1>11
  <2>2. s[L] \in Inputs /\ s[m + 1] \in Inputs
    BY <2>1, ElementOfSeq DEF L
  <2> QED
    BY <2>2, InputsType, ParamsNat
<1> QED
  BY <1>7, <1>9, <1>10, <1>11 DEF L

-----------------------------------------------------------------------------
(* The window and the inputs since Reset *)

\* w is the window that params p keep of all the inputs.
Windowed(p, w, all) ==
  /\ SuffixOf(w, all)
  /\ p.normalProjection =>
       /\ Len(all) > Len(w) => Len(w) >= p.minSamples
       /\ InOrder(all) =>
            /\ Len(all) > Len(w) => w[Len(w)].time - w[1].time > p.minDuration
            /\ Len(w) > 1 => \/ Len(w) - 1 < p.minSamples
                             \/ w[Len(w)].time - w[2].time <= p.minDuration
  /\ ~ p.normalProjection =>
       Len(w) = IF p.maxSamples <= Len(all) THEN p.maxSamples ELSE Len(all)

LEMMA InputAt ==
  ASSUME NEW s \in Seq(Inputs), NEW i \in 1 .. Len(s)
  PROVE  s[i] \in Inputs /\ s[i].time \in Nat /\ s[i].unknown \subseteq Fields
BY ElementOfSeq, InputsType

\* One input more: the window of the longer sequence.
LEMMA WindowStep ==
  ASSUME NEW p \in Params, NEW w \in Seq(Inputs), NEW all \in Seq(Inputs),
         NEW in \in Inputs,
         \/ w = <<>> /\ all = <<>>
         \/ w # <<>> /\ Windowed(p, w, all)
  PROVE  LET d == DropOldest(p, Append(w, in)) IN
         d \in Seq(Inputs) /\ d # <<>> /\ Windowed(p, d, Append(all, in))
<1> DEFINE s == Append(w, in)
           al == Append(all, in)
           d == DropOldest(p, s)
           n == Len(w)
           N == Len(all)
           L == Len(s)
<1>1. n \in Nat /\ N \in Nat /\ n <= N
  BY LenProperties, EmptySeq DEF SuffixOf, Windowed
<1>2. /\ s \in Seq(Inputs) /\ L = n + 1 /\ s # <<>> /\ s[n + 1] = in
      /\ \A k \in 1 .. n : s[k] = w[k]
  BY AppendProperties
<1>3. /\ al \in Seq(Inputs) /\ Len(al) = N + 1 /\ al[N + 1] = in
      /\ \A k \in 1 .. N : al[k] = all[k]
  BY AppendProperties
<1>4. SuffixOf(s, al)
  <2>1. SuffixOf(w, all)
    BY EmptySeq DEF SuffixOf, Windowed
  <2> QED
    BY <2>1, AppendedSuffix
<1>5. PICK m \in 1 .. L :
           /\ d = SubSeq(s, m, L)
           /\ p.normalProjection =>
                /\ \/ L - m + 1 <= p.minSamples
                   \/ s[L].time - s[m + 1].time <= p.minDuration
                /\ m > 1 => /\ L - m + 2 > p.minSamples
                            /\ s[L].time - s[m].time > p.minDuration
           /\ ~ p.normalProjection =>
                /\ L - m + 1 <= p.maxSamples
                /\ m > 1 => L - m + 2 > p.maxSamples
  BY <1>2, Dropped
<1> DEFINE D == L - m + 1
<1>6. /\ p.maxSamples \in Nat \ {0} /\ p.minSamples \in Nat \ {0}
      /\ p.minDuration \in Nat
  BY ParamsNat
<1>7. /\ d \in Seq(Inputs) /\ Len(d) = D /\ D \in 1 .. L /\ SuffixOf(d, al)
      /\ \A k \in 1 .. D : d[k] = s[m + k - 1]
  <2>1. D \in 1 .. L
    BY <1>1, <1>2, <1>5
  <2>2. d = SubSeq(s, m, Len(s))
    BY <1>5
  <2> HIDE DEF s, al, d
  <2>3. /\ SubSeq(s, m, Len(s)) \in Seq(Inputs) /\ SuffixOf(SubSeq(s, m, Len(s)), al)
        /\ Len(SubSeq(s, m, Len(s))) = Len(s) - m + 1
        /\ \A k \in 1 .. Len(s) - m + 1 : SubSeq(s, m, Len(s))[k] = s[m + k - 1]
    BY <1>2, <1>3, <1>4, <1>5, SuffixOfSuffix
  <2>4. d \in Seq(Inputs) /\ SuffixOf(d, al)
    BY <2>2, <2>3
  <2>5. Len(d) = D /\ \A k \in 1 .. D : d[k] = s[m + k - 1]
    BY <2>2, <2>3
  <2> QED
    BY <2>1, <2>4, <2>5
<1> HIDE DEF d
<1>8. /\ d[1] = s[m] /\ d[D] = s[L] /\ s[L] = in
      /\ D > 1 => d[2] = s[m + 1]
  <2>1. /\ m + 1 - 1 = m /\ m + D - 1 = L /\ m + 2 - 1 = m + 1
        /\ 1 \in 1 .. D /\ D \in 1 .. D /\ D > 1 => 2 \in 1 .. D
    BY <1>1, <1>2, <1>5, <1>7
  <2>2. d[1] = s[m] /\ d[D] = s[L] /\ (D > 1 => d[2] = s[m + 1])
    <3> HIDE DEF s, D, L
    <3>1. d[1] = s[m + 1 - 1] /\ d[D] = s[m + D - 1]
      BY <1>7, <2>1
    <3>2. D > 1 => d[2] = s[m + 2 - 1]
      BY <1>7, <2>1
    <3> QED
      BY <2>1, <3>1, <3>2
  <2>3. s[L] = in
    BY <1>2
  <2> QED
    BY <2>2, <2>3
<1>10. n > 0 => w # <<>> /\ Windowed(p, w, all)
  BY EmptySeq
<1>11. n = 0 => N = 0
  BY EmptySeq
<1>12. ASSUME p.normalProjection, N + 1 > D
       PROVE  D >= p.minSamples
  <2>1. CASE m > 1
    <3> QED
      BY <1>1, <1>2, <1>5, <1>6, <1>7, <1>12, <2>1
  <2>2. CASE ~ (m > 1)
    <3>1. m = 1 /\ D = n + 1 /\ N > n /\ n > 0
      BY <1>1, <1>2, <1>5, <1>11, <1>12, <2>2
    <3>2. n >= p.minSamples
      BY <1>10, <1>12, <3>1 DEF Windowed
    <3> QED
      BY <1>1, <1>6, <3>1, <3>2
  <2> QED
    BY <2>1, <2>2
<1>13. ASSUME p.normalProjection, N + 1 > D, InOrder(al)
       PROVE  d[D].time - d[1].time > p.minDuration
  <2>1. CASE m > 1
    BY <1>5, <1>8, <1>13, <2>1
  <2>2. CASE ~ (m > 1)
    <3>1. m = 1 /\ D = n + 1 /\ N > n /\ n > 0
      BY <1>1, <1>2, <1>5, <1>11, <1>13, <2>2
    <3>2. InOrder(all)
      <4>1. ASSUME NEW i \in 2 .. N PROVE all[i - 1].time <= all[i].time
        <5>1. i \in 2 .. N + 1 /\ i \in 1 .. N /\ i - 1 \in 1 .. N
          BY <1>1, <4>1
        <5> QED
          BY <1>3, <1>13, <5>1 DEF InOrder
      <4> QED
        BY <4>1 DEF InOrder
    <3>3. w[n].time - w[1].time > p.minDuration
      BY <1>10, <1>13, <3>1, <3>2 DEF Windowed
    <3>4. w[n] = all[N] /\ w[1] = s[1]
      <4>1. n \in 1 .. n /\ 1 \in 1 .. n /\ N - n + n = N
        BY <1>1, <3>1
      <4> QED
        BY <1>2, <1>10, <3>1, <4>1 DEF Windowed, SuffixOf
    <3>5. all[N].time <= in.time
      <4>1. N + 1 \in 2 .. N + 1 /\ (N + 1) - 1 = N /\ N \in 1 .. N
        BY <1>1, <3>1
      <4> QED
        BY <1>3, <1>13, <4>1 DEF InOrder
    <3>6. w[n].time \in Nat /\ w[1].time \in Nat /\ in.time \in Nat
      <4>1. n \in 1 .. n /\ 1 \in 1 .. n
        BY <1>1, <3>1
      <4> QED
        BY <4>1, InputAt, InputsType
    <3>7. d[D].time - d[1].time = in.time - w[1].time
      BY <1>8, <3>1, <3>4
    <3> QED
      BY <1>6, <3>3, <3>4, <3>5, <3>6, <3>7
  <2> QED
    BY <2>1, <2>2
<1>14. ASSUME p.normalProjection, D > 1
       PROVE  \/ D - 1 < p.minSamples
              \/ d[D].time - d[2].time <= p.minDuration
  <2>1. CASE L - m + 1 <= p.minSamples
    BY <1>1, <1>2, <1>6, <1>7, <2>1
  <2>2. CASE s[L].time - s[m + 1].time <= p.minDuration
    BY <1>8, <1>14, <2>2
  <2> QED
    BY <1>5, <1>14, <2>1, <2>2
<1>15. ASSUME ~ p.normalProjection
       PROVE  D = IF p.maxSamples <= N + 1 THEN p.maxSamples ELSE N + 1
  <2>1. D <= p.maxSamples /\ (m > 1 => D + 1 > p.maxSamples)
    BY <1>1, <1>2, <1>5, <1>6, <1>15
  <2>2. CASE m > 1
    BY <1>1, <1>2, <1>6, <1>7, <2>1, <2>2
  <2>3. CASE ~ (m > 1)
    <3>1. m = 1 /\ D = n + 1
      BY <1>1, <1>2, <1>5, <2>3
    <3>2. n = IF p.maxSamples <= N THEN p.maxSamples ELSE N
      <4>1. CASE n = 0
        BY <1>6, <1>11, <4>1
      <4>2. CASE n # 0
        BY <1>1, <1>10, <1>15, <4>2 DEF Windowed
      <4> QED
        BY <4>1, <4>2
    <3> QED
      BY <1>1, <1>6, <2>1, <3>1, <3>2
  <2> QED
    BY <2>2, <2>3
<1>16. d # <<>>
  BY <1>1, <1>2, <1>7, EmptySeq
<1> HIDE DEF D
<1>17. Windowed(p, d, al)
  BY <1>3, <1>7, <1>12, <1>13, <1>14, <1>15 DEF Windowed
<1> QED
  BY <1>7, <1>16, <1>17 DEF d

-----------------------------------------------------------------------------
(* The samples a Query uses *)

LEMMA SegmentsType ==
  ASSUME state.samples \in Seq(Inputs), state.samples # <<>>
  PROVE  LET n == Len(state.samples) IN
         n \in Nat /\ n > 0 /\ n - 1 \in Nat /\ Segments = 1 .. n - 1
BY LenProperties, EmptySeq DEF Segments

LEMMA ClosestPointSegment ==
  ASSUME state.samples \in Seq(Inputs), state.samples # <<>>, NEW tip
  PROVE  ProjectToClosestPoint(tip) \subseteq Segments
<1> DEFINE n == Len(state.samples)
           distance(i) == Dist(tip, NearestPoint(i, tip))
           nearest == {i \in Segments : \A j \in Segments : distance(i) <= distance(j)}
<1>1. n - 1 \in Nat /\ Segments = 1 .. n - 1
  BY SegmentsType
<1>2. nearest \subseteq Segments
  OBVIOUS
<1>3. ProjectToClosestPoint(tip) = IF nearest = {} THEN {} ELSE {Max(nearest)}
  BY DEF ProjectToClosestPoint
<1> HIDE DEF nearest, n
<1>4. nearest # {} => Max(nearest) \in nearest
  BY <1>1, <1>2, GreatestOf
<1> QED
  BY <1>2, <1>3, <1>4

LEMMA BestOnHit ==
  ASSUME NEW on \in SUBSET Nat, NEW hits \in [on -> Hits], NEW side
  PROVE  BestOn(side, hits) \subseteq on
<1> DEFINE there == {i \in DOMAIN hits : hits[i].side = side}
           nearest == {i \in there : \A j \in there : hits[i].distance <= hits[j].distance}
<1>1. nearest \subseteq on
  OBVIOUS
<1>2. BestOn(side, hits) = IF nearest = {} THEN {} ELSE {Min(nearest)}
  BY DEF BestOn
<1> HIDE DEF nearest
<1>3. nearest # {} => Min(nearest) \in nearest
  BY <1>1, LeastOf
<1> QED
  BY <1>1, <1>2, <1>3

LEMMA SourcesAreSamples ==
  ASSUME state.samples \in Seq(Inputs), state.samples # <<>>, NEW tip, NEW hits,
         NEW turn, NEW on \in SUBSET Segments, hits # NoNormal => hits \in [on -> Hits]
  PROVE  /\ Sources(tip, hits, turn) # {}
         /\ Sources(tip, hits, turn) \subseteq 1 .. Len(state.samples)
<1> DEFINE n == Len(state.samples)
           projection == Projection(tip, hits, turn)
<1>1. n \in Nat /\ n > 0 /\ Segments = 1 .. n - 1
  BY SegmentsType
<1>2. projection \subseteq Segments
  <2>1. CASE params.normalProjection /\ hits # NoNormal
    <3>1. hits \in [on -> Hits] /\ on \subseteq Nat
      BY <1>1, <2>1
    <3>2. \A side : BestOn(side, hits) \subseteq on
      BY <3>1, BestOnHit
    <3>3. ProjectAlongStrokeNormal(hits, turn) \subseteq on
      BY <3>2 DEF ProjectAlongStrokeNormal
    <3> QED
      BY <2>1, <3>3 DEF Projection
  <2>2. CASE ~ (params.normalProjection /\ hits # NoNormal)
    BY <2>2, ClosestPointSegment DEF Projection
  <2> QED
    BY <2>1, <2>2
<1>3. ClosestEnd(tip) \in 1 .. n
  BY <1>1 DEF ClosestEnd
<1>4. Sources(tip, hits, turn)
        = IF projection = {} THEN {ClosestEnd(tip)}
          ELSE projection \cup {i + 1 : i \in projection}
  BY DEF Sources
<1> HIDE DEF projection, n
<1>5. \A i \in Segments : i \in 1 .. n /\ i + 1 \in 1 .. n
  BY <1>1
<1>6. Sources(tip, hits, turn) # {}
  BY <1>4
<1>7. Sources(tip, hits, turn) \subseteq 1 .. n
  <2>1. CASE projection = {}
    BY <1>3, <1>4, <2>1
  <2>2. CASE projection # {}
    <3>1. {i + 1 : i \in projection} \subseteq 1 .. n
      BY <1>2, <1>5
    <3> QED
      BY <1>2, <1>4, <1>5, <2>2, <3>1
  <2> QED
    BY <2>1, <2>2
<1> QED
  BY <1>6, <1>7 DEF n

\* The nearest hit on a side, if there is one.
IsNearest(b, side, hits) ==
  /\ b \in DOMAIN hits /\ BestOn(side, hits) = {b} /\ hits[b].side = side
  /\ \A j \in DOMAIN hits : hits[j].side = side => hits[b].distance <= hits[j].distance

LEMMA BestOnNearest ==
  ASSUME NEW on \in SUBSET Nat, NEW hits \in [on -> Hits], NEW side,
         NEW i \in on, hits[i].side = side
  PROVE  \E b : IsNearest(b, side, hits)
<1> DEFINE there == {j \in DOMAIN hits : hits[j].side = side}
           nearest == {k \in there : \A j \in there : hits[k].distance <= hits[j].distance}
           distances == {hits[j].distance : j \in there}
<1>1. \A j \in on : hits[j].distance \in Nat
  BY InputsAssumption DEF HitType
<1>2. distances \in SUBSET Nat /\ distances # {}
  BY <1>1
<1>3. \E d \in distances : \A e \in distances : d <= e
  <2> HIDE DEF distances
  <2> QED
    BY <1>2, LeastOf
<1>4. PICK k \in there : \A j \in there : hits[k].distance <= hits[j].distance
  BY <1>3
<1>5. k \in nearest /\ nearest \subseteq on /\ nearest \in SUBSET Nat
  BY <1>4
<1>6. BestOn(side, hits) = IF nearest = {} THEN {} ELSE {Min(nearest)}
  BY DEF BestOn
<1>7. Min(nearest) \in nearest
  <2> HIDE DEF nearest
  <2> QED
    BY <1>5, LeastOf
<1>8. PICK b \in nearest : BestOn(side, hits) = {b}
  BY <1>5, <1>6, <1>7
<1> QED
  BY <1>8 DEF IsNearest

\* The hit that is used, if there is any at all.
LEMMA AlongNormal ==
  ASSUME NEW on \in SUBSET Nat, NEW hits \in [on -> Hits], on # {},
         NEW turn \in {"left", "right"}
  PROVE  \E b \in on :
           /\ ProjectAlongStrokeNormal(hits, turn) = {b}
           /\ \A i \in on :
                \/ hits[i].side # hits[b].side /\ hits[b].side # turn
                \/ /\ hits[i].side = hits[b].side
                   /\ hits[b].distance <= hits[i].distance
<1> DEFINE other == IF turn = "left" THEN "right" ELSE "left"
<1>1. \A i \in on : hits[i].side \in {"left", "right"}
  BY InputsAssumption DEF HitType
<1>2. \A side : (\E i \in on : hits[i].side = side) => \E b : IsNearest(b, side, hits)
  BY BestOnNearest
<1>3. \A side : (\A i \in on : hits[i].side # side) => BestOn(side, hits) = {}
  BY DEF BestOn
<1>4. /\ other \in {"left", "right"} /\ other # turn
      /\ \A side \in {"left", "right"} : side = turn \/ side = other
  OBVIOUS
<1>5. CASE \E i \in on : hits[i].side = other
  <2>1. PICK b : IsNearest(b, other, hits)
    BY <1>2, <1>5
  <2>2. ProjectAlongStrokeNormal(hits, turn) = {b}
    <3>1. CASE \E i \in on : hits[i].side = turn
      <4>1. PICK c : IsNearest(c, turn, hits)
        BY <1>2, <3>1
      <4>2. BestOn("left", hits) # {} /\ BestOn("right", hits) # {}
        BY <2>1, <4>1, <1>4 DEF IsNearest
      <4> QED
        BY <2>1, <4>2 DEF ProjectAlongStrokeNormal, IsNearest
    <3>2. CASE \A i \in on : hits[i].side # turn
      <4>1. BestOn(turn, hits) = {}
        BY <1>3, <3>2
      <4>2. BestOn("left", hits) = {} \/ BestOn("right", hits) = {}
        BY <4>1
      <4>3. BestOn("left", hits) \cup BestOn("right", hits)
              = BestOn(turn, hits) \cup BestOn(other, hits)
        OBVIOUS
      <4> QED
        BY <2>1, <4>1, <4>2, <4>3 DEF ProjectAlongStrokeNormal, IsNearest
    <3> QED
      BY <3>1, <3>2
  <2> QED
    BY <1>1, <1>4, <2>1, <2>2 DEF IsNearest
<1>6. CASE \A i \in on : hits[i].side # other
  <2>1. \A i \in on : hits[i].side = turn
    BY <1>1, <1>4, <1>6
  <2>2. PICK b : IsNearest(b, turn, hits)
    BY <1>2, <2>1
  <2>3. BestOn(other, hits) = {}
    BY <1>3, <1>6
  <2>4. BestOn("left", hits) = {} \/ BestOn("right", hits) = {}
    BY <2>3
  <2>5. BestOn("left", hits) \cup BestOn("right", hits)
          = BestOn(turn, hits) \cup BestOn(other, hits)
    OBVIOUS
  <2>6. ProjectAlongStrokeNormal(hits, turn) = {b}
    BY <2>2, <2>3, <2>4, <2>5 DEF ProjectAlongStrokeNormal, IsNearest
  <2> QED
    BY <2>1, <2>2, <2>6 DEF IsNearest
<1> QED
  BY <1>5, <1>6

\* What a Query along a normal uses first is the hit.
LEMMA QueryOutside ==
  ASSUME state.samples \in Seq(Inputs), params.normalProjection,
         NEW tip, NEW hits, NEW turn \in {"left", "right"}, hits # NoNormal,
         NEW on \in SUBSET Segments, hits \in [on -> Hits]
  PROVE  LET used == hits[Min(Sources(tip, hits, turn))]
         IN  \A i \in DOMAIN hits :
               \/ hits[i].side # used.side /\ used.side # turn
               \/ hits[i].side = used.side /\ used.distance <= hits[i].distance
<1> SUFFICES ASSUME on # {}
             PROVE  LET used == hits[Min(Sources(tip, hits, turn))]
                    IN  \A i \in DOMAIN hits :
                          \/ hits[i].side # used.side /\ used.side # turn
                          \/ hits[i].side = used.side /\ used.distance <= hits[i].distance
  <2>1. DOMAIN hits = on
    OBVIOUS
  <2> QED
    BY <2>1
<1>2. state.samples # <<>>
  <2>1. Len(<<>>) - 1 = -1 /\ 1 .. -1 = {}
    BY EmptySeq
  <2> QED
    BY <2>1 DEF Segments
<1>3. on \in SUBSET Nat
  BY <1>2, SegmentsType
<1>4. PICK b \in on :
           /\ ProjectAlongStrokeNormal(hits, turn) = {b}
           /\ \A i \in on :
                \/ hits[i].side # hits[b].side /\ hits[b].side # turn
                \/ /\ hits[i].side = hits[b].side
                   /\ hits[b].distance <= hits[i].distance
  BY <1>3, AlongNormal
<1>5. Sources(tip, hits, turn) = {b, b + 1}
  <2>1. Projection(tip, hits, turn) = {b}
    BY <1>4 DEF Projection
  <2> QED
    BY <1>2, <2>1 DEF Sources
<1>6. Min({b, b + 1}) = b
  <2>1. b \in Int /\ b + 1 \in Int /\ b <= b + 1
    BY <1>3
  <2> QED
    BY <2>1, MinOfTwo
<1> QED
  BY <1>4, <1>5, <1>6

-----------------------------------------------------------------------------
(* The invariant *)

\* The fields that some input of a sequence lacks.
Lacked(all) == UNION {all[i].unknown : i \in DOMAIN all}

\* A state of the modeler after Reset and these inputs.
Tracks(p, st, all) ==
  /\ all \in Seq(Inputs) /\ st.samples \in Seq(Inputs)
  /\ st.unknown = Lacked(all)
  /\ \/ all = <<>> /\ st.samples = <<>>
     \/ all # <<>> /\ st.samples = <<>> /\ ~ p.normalProjection /\ st.unknown = Fields
     \/ all # <<>> /\ st.samples # <<>> /\ Windowed(p, st.samples, all)

IInv ==
  /\ params \in Params
  /\ history \in [now : Seq(Inputs), saved : Seq(Inputs)]
  /\ Tracks(params, state, history.now)
  /\ saved # NoSave => Tracks(params, saved.state, history.saved)
  /\ MissingFieldsStick /\ ProjectionIsOutside

LEMMA LackedAppend ==
  ASSUME NEW all \in Seq(Inputs), NEW in \in Inputs
  PROVE  Lacked(Append(all, in)) = Lacked(all) \cup in.unknown
<1> DEFINE al == Append(all, in)
           N == Len(all)
<1>1. /\ N \in Nat /\ DOMAIN all = 1 .. N /\ DOMAIN al = 1 .. N + 1
      /\ al[N + 1] = in /\ \A k \in 1 .. N : al[k] = all[k]
  BY LenProperties, AppendProperties
<1> HIDE DEF al
<1>2. N + 1 \in 1 .. N + 1 /\ 1 .. N + 1 = (1 .. N) \cup {N + 1}
  BY <1>1
<1>3. \A f : f \in Lacked(al) <=> \E i \in 1 .. N + 1 : f \in al[i].unknown
  BY <1>1 DEF Lacked
<1>4. \A f : f \in Lacked(all) <=> \E i \in 1 .. N : f \in all[i].unknown
  BY <1>1 DEF Lacked
<1>5. ASSUME NEW f
      PROVE  f \in Lacked(al) <=> f \in Lacked(all) \/ f \in in.unknown
  BY <1>1, <1>2, <1>3, <1>4
<1> QED
  BY <1>5 DEF al

LEMMA LackedFields ==
  ASSUME NEW all \in Seq(Inputs)
  PROVE  Lacked(all) \subseteq Fields
<1>1. DOMAIN all = 1 .. Len(all)
  BY LenProperties
<1>2. \A i \in DOMAIN all : all[i].unknown \subseteq Fields
  BY <1>1, InputAt
<1> QED
  BY <1>2 DEF Lacked

\* Update keeps track of one input more.
LEMMA TracksUpdate ==
  ASSUME NEW p \in Params, NEW st, NEW all, NEW in \in Inputs, Tracks(p, st, all)
  PROVE  Tracks(p, Tracked(p, st, in), Append(all, in)) /\ Append(all, in) # <<>>
<1> DEFINE new == Tracked(p, st, in)
           al == Append(all, in)
           d == DropOldest(p, Append(st.samples, in))
<1>1. all \in Seq(Inputs) /\ st.samples \in Seq(Inputs) /\ st.unknown = Lacked(all)
  BY DEF Tracks
<1>2. /\ new.unknown = Lacked(al)
      /\ new.samples = IF ~ p.normalProjection /\ Lacked(al) = Fields THEN <<>> ELSE d
  BY <1>1, LackedAppend DEF Tracked
<1>3. al \in Seq(Inputs) /\ al # <<>>
  BY <1>1, AppendProperties
<1>4. <<>> \in Seq(Inputs)
  BY EmptySeq
<1> HIDE DEF new, d, al
<1>5. CASE ~ p.normalProjection /\ Lacked(al) = Fields
  <2>1. new.samples = <<>>
    BY <1>2, <1>5
  <2> QED
    BY <1>2, <1>3, <1>4, <1>5, <2>1 DEF Tracks, new, al
<1>6. CASE ~ (~ p.normalProjection /\ Lacked(al) = Fields)
  <2>1. \/ all = <<>> /\ st.samples = <<>>
        \/ st.samples # <<>> /\ Windowed(p, st.samples, all)
    <3>1. ASSUME ~ p.normalProjection, st.unknown = Fields PROVE FALSE
      <4>1. Lacked(al) = Lacked(all) \cup in.unknown
        BY <1>1, LackedAppend DEF al
      <4>2. in.unknown \subseteq Fields
        BY InputsType
      <4>3. Lacked(al) = Fields
        BY <1>1, <3>1, <4>1, <4>2
      <4> QED
        BY <1>6, <3>1, <4>3
    <3> QED
      BY <3>1 DEF Tracks
  <2>2. d \in Seq(Inputs) /\ d # <<>> /\ Windowed(p, d, al)
    BY <1>1, <2>1, WindowStep DEF d, al
  <2>3. new.samples = d
    BY <1>2, <1>6
  <2> QED
    BY <1>2, <1>3, <2>2, <2>3 DEF Tracks, new, al
<1> QED
  BY <1>5, <1>6

LEMMA TracksNothing ==
  ASSUME NEW p
  PROVE  Tracks(p, Nothing, <<>>)
<1>1. Lacked(<<>>) = {}
  BY DEF Lacked
<1>2. Nothing.samples = <<>> /\ Nothing.unknown = {} /\ <<>> \in Seq(Inputs)
  BY EmptySeq DEF Nothing
<1> QED
  BY <1>1, <1>2 DEF Tracks

\* What a Query gives, from the invariant of the state it reads.
LEMMA QueryMissing ==
  ASSUME Tracks(params, state, history.now), history.now # <<>>,
         NEW tip, NEW hits, NEW turn,
         NEW on \in SUBSET Segments, hits # NoNormal => hits \in [on -> Hits]
  PROVE  Missing(Sources(tip, hits, turn)) = Lacked(history.now)
<1> DEFINE now == history.now
           w == state.samples
           sources == Sources(tip, hits, turn)
<1>1. now \in Seq(Inputs) /\ w \in Seq(Inputs) /\ state.unknown = Lacked(now)
  BY DEF Tracks
<1>2. CASE w = <<>>
  <2>1. state.unknown = Fields
    BY <1>2 DEF Tracks
  <2>2. sources = {}
    BY <1>2 DEF Sources
  <2> QED
    BY <1>1, <2>1, <2>2 DEF Missing
<1>3. CASE w # <<>>
  <2>1. sources # {} /\ sources \subseteq 1 .. Len(w)
    BY <1>1, <1>3, SourcesAreSamples
  <2>2. SuffixOf(w, now)
    BY <1>3 DEF Tracks, Windowed
  <2>3. ASSUME NEW i \in sources PROVE w[i].unknown \subseteq Lacked(now)
    <3>1. Len(w) \in Nat /\ Len(now) \in Nat /\ DOMAIN now = 1 .. Len(now)
      BY <1>1, LenProperties
    <3>2. i \in 1 .. Len(w)
      BY <2>1, <2>3
    <3>3. w[i] = now[Len(now) - Len(w) + i] /\ Len(w) <= Len(now)
      BY <2>2, <3>2 DEF SuffixOf
    <3>4. \A a, b \in Nat : \A k \in 1 .. a : a <= b => b - a + k \in 1 .. b
      OBVIOUS
    <3>5. Len(now) - Len(w) + i \in DOMAIN now
      BY <3>1, <3>2, <3>3, <3>4
    <3> QED
      BY <3>3, <3>5 DEF Lacked
  <2>4. Missing(sources) = state.unknown \cup UNION {w[i].unknown : i \in sources}
    BY <2>1 DEF Missing
  <2> HIDE DEF sources
  <2>5. UNION {w[i].unknown : i \in sources} \subseteq Lacked(now)
    BY <2>3
  <2> QED
    BY <1>1, <2>4, <2>5 DEF sources
<1> QED
  BY <1>2, <1>3

LEMMA InitInv == Init => IInv
<1> SUFFICES ASSUME Init PROVE IInv
  OBVIOUS
<1>1. <<>> \in Seq(Inputs)
  BY EmptySeq
<1>2. params \in Params /\ history = [now |-> <<>>, saved |-> <<>>]
  BY DEF Init
<1>3. Tracks(params, state, history.now)
  BY <1>2, TracksNothing DEF Init
<1>4. saved = NoSave /\ MissingFieldsStick /\ ProjectionIsOutside
  BY DEF Init, MissingFieldsStick, ProjectionIsOutside
<1> QED
  BY <1>1, <1>2, <1>3, <1>4 DEF IInv

\* A call other than a Query leaves no output to be right about.
LEMMA NoOutputYet ==
  ASSUME output' = NoOutput PROVE MissingFieldsStick' /\ ProjectionIsOutside'
BY DEF MissingFieldsStick, ProjectionIsOutside

LEMMA ResetStep ==
  ASSUME IInv, NEW p \in Params, NEW in \in Inputs, ResetAndUpdate(p, in)
  PROVE  IInv'
<1>1. Tracks(p, Tracked(p, Nothing, in), Append(<<>>, in))
  BY TracksNothing, TracksUpdate
<1>2. Append(<<>>, in) = <<in>>
  OBVIOUS
<1>3. <<in>> \in Seq(Inputs) /\ <<>> \in Seq(Inputs)
  BY <1>1, <1>2, EmptySeq DEF Tracks
<1>4. /\ params' = p /\ state' = Tracked(p, Nothing, in) /\ saved' = NoSave
      /\ history' = [now |-> <<in>>, saved |-> <<>>]
  BY DEF ResetAndUpdate
<1>5. Tracks(params', state', history'.now)
  BY <1>1, <1>2, <1>4
<1>6. MissingFieldsStick' /\ ProjectionIsOutside'
  BY NoOutputYet DEF ResetAndUpdate
<1> QED
  BY <1>3, <1>4, <1>5, <1>6 DEF IInv

LEMMA UpdateStep ==
  ASSUME IInv, NEW in \in Inputs, Update(in)
  PROVE  IInv'
<1>1. /\ params' = params /\ saved' = saved /\ state' = Tracked(params, state, in)
      /\ history' = [history EXCEPT !.now = Append(history.now, in)]
  BY DEF Update
<1>2. Tracks(params, state', Append(history.now, in))
  BY <1>1, TracksUpdate DEF IInv
<1>3. /\ history' \in [now : Seq(Inputs), saved : Seq(Inputs)]
      /\ history'.now = Append(history.now, in) /\ history'.saved = history.saved
  BY <1>1, <1>2 DEF IInv, Tracks
<1>4. MissingFieldsStick' /\ ProjectionIsOutside'
  BY NoOutputYet DEF Update
<1> QED
  BY <1>1, <1>2, <1>3, <1>4 DEF IInv

LEMMA QueryStep ==
  ASSUME IInv, QueryAny
  PROVE  IInv'
<1>1. PICK tip, hits, turn :
        /\ turn \in {"left", "right"} /\ Query(tip, hits, turn)
        /\ \E on \in SUBSET Segments : hits # NoNormal => hits \in [on -> Hits]
  BY DEF QueryAny
<1>2. PICK on \in SUBSET Segments : hits # NoNormal => hits \in [on -> Hits]
  BY <1>1
<1> DEFINE sources == Sources(tip, hits, turn)
<1>3. /\ history.now # <<>> /\ turn \in {"left", "right"}
      /\ output'.missing = Missing(sources) /\ output'.sources = sources
      /\ output'.hits = hits /\ output'.turn = turn
      /\ UNCHANGED <<params, state, saved, lastTime, history>>
  BY <1>1 DEF Query
<1>4. Tracks(params, state, history.now)
  BY DEF IInv
<1>5. MissingFieldsStick'
  <2>1. Missing(sources) = Lacked(history.now)
    BY <1>2, <1>3, <1>4, QueryMissing
  <2>2. output'.missing = Lacked(history'.now)
    BY <1>3, <2>1
  <2> QED
    BY <2>2 DEF MissingFieldsStick, Lacked
<1>6. ProjectionIsOutside'
  <2> SUFFICES ASSUME params.normalProjection, hits # NoNormal
               PROVE  LET used == hits[Min(sources)]
                      IN  \A i \in DOMAIN hits :
                            \/ hits[i].side # used.side /\ used.side # turn
                            \/ /\ hits[i].side = used.side
                               /\ used.distance <= hits[i].distance
    BY <1>3 DEF ProjectionIsOutside
  <2>1. state.samples \in Seq(Inputs)
    BY <1>4 DEF Tracks
  <2> QED
    BY <1>2, <1>3, <2>1, QueryOutside
<1> QED
  BY <1>3, <1>5, <1>6 DEF IInv

LEMMA SaveStep ==
  ASSUME IInv, Save
  PROVE  IInv'
<1>1. /\ params' = params /\ state' = state /\ saved'.state = state
      /\ history' = [history EXCEPT !.saved = history.now]
  BY DEF Save
<1>2. /\ history' \in [now : Seq(Inputs), saved : Seq(Inputs)]
      /\ history'.now = history.now /\ history'.saved = history.now
  BY <1>1 DEF IInv
<1>3. MissingFieldsStick' /\ ProjectionIsOutside'
  BY NoOutputYet DEF Save
<1> QED
  BY <1>1, <1>2, <1>3 DEF IInv

LEMMA RestoreStep ==
  ASSUME IInv, Restore
  PROVE  IInv'
<1>1. /\ params' = params /\ saved' = saved /\ saved # NoSave /\ state' = saved.state
      /\ history' = [history EXCEPT !.now = history.saved]
  BY DEF Restore
<1>2. /\ history' \in [now : Seq(Inputs), saved : Seq(Inputs)]
      /\ history'.now = history.saved /\ history'.saved = history.saved
  BY <1>1 DEF IInv
<1>3. MissingFieldsStick' /\ ProjectionIsOutside'
  BY NoOutputYet DEF Restore
<1> QED
  BY <1>1, <1>2, <1>3 DEF IInv

LEMMA NextInv == IInv /\ [Next]_vars => IInv'
<1> SUFFICES ASSUME IInv, [Next]_vars PROVE IInv'
  OBVIOUS
<1>1. ASSUME NEW p \in Params, NEW in \in Inputs, ResetAndUpdate(p, in) PROVE IInv'
  BY <1>1, ResetStep
<1>2. ASSUME NEW in \in Inputs, Update(in) PROVE IInv'
  BY <1>2, UpdateStep
<1>3. CASE QueryAny
  BY <1>3, QueryStep
<1>4. CASE Save
  BY <1>4, SaveStep
<1>5. CASE Restore
  BY <1>5, RestoreStep
<1>6. CASE UNCHANGED vars
  BY <1>6 DEF IInv, vars, MissingFieldsStick, ProjectionIsOutside
<1> QED
  BY <1>1, <1>2, <1>3, <1>4, <1>5, <1>6 DEF Next

LEMMA InvHolds == Spec => []IInv
BY InitInv, NextInv, PTL DEF Spec

-----------------------------------------------------------------------------
(* The closest point, on a line *)

\* c is between a and b, whichever is the smaller.
Between(a, c, b) == (a <= c /\ c <= b) \/ (b <= c /\ c <= a)

\* Values that are on both sides of c have two in a row that are.
LEMMA Straddled ==
  ASSUME NEW n \in Nat, n > 1, NEW v, \A i \in 1 .. n : v[i] \in Int, NEW c \in Int,
         NEW low \in 1 .. n, v[low] <= c, NEW high \in 1 .. n, c <= v[high]
  PROVE  \E j \in 1 .. n - 1 : Between(v[j], c, v[j + 1])
<1> SUFFICES ASSUME \A j \in 1 .. n - 1 : ~ Between(v[j], c, v[j + 1])
             PROVE  FALSE
  OBVIOUS
<1> DEFINE T == {k \in Nat : k + 1 <= n =>
                   /\ v[1] < c => v[k + 1] < c
                   /\ v[1] > c => v[k + 1] > c}
<1>1. 0 \in T
  OBVIOUS
<1>2. ASSUME NEW k \in T
      PROVE  k + 1 \in T
  <2>1. k \in Nat /\ k + 1 \in Nat
    OBVIOUS
  <2> SUFFICES ASSUME (k + 1) + 1 <= n
               PROVE  /\ v[1] < c => v[(k + 1) + 1] < c
                      /\ v[1] > c => v[(k + 1) + 1] > c
    BY <2>1
  <2> DEFINE x == v[k + 1]
             y == v[(k + 1) + 1]
  <2>2. k + 1 \in 1 .. n - 1 /\ k + 1 \in 1 .. n /\ (k + 1) + 1 \in 1 .. n
    BY <2>1
  <2>3. ~ Between(x, c, y) /\ x \in Int /\ y \in Int
    BY <2>2
  <2>4. (v[1] < c => x < c) /\ (v[1] > c => x > c)
    BY <2>1
  <2> HIDE DEF x, y
  <2>5. (v[1] < c => y < c) /\ (v[1] > c => y > c)
    BY <2>3, <2>4 DEF Between
  <2> QED
    BY <2>5 DEF y
<1> HIDE DEF T
<1>3. T = Nat
  <2>1. T \in SUBSET Nat
    BY DEF T
  <2> QED
    BY <1>1, <1>2, <2>1, NatInduct
<1>4. ASSUME NEW i \in 1 .. n
      PROVE  (v[1] < c => v[i] < c) /\ (v[1] > c => v[i] > c)
  <2>1. i - 1 \in T /\ (i - 1) + 1 = i /\ i <= n
    BY <1>3
  <2>2. /\ v[1] < c => v[(i - 1) + 1] < c
        /\ v[1] > c => v[(i - 1) + 1] > c
    BY <2>1 DEF T
  <2> QED
    BY <2>1, <2>2
<1>5. v[1] \in Int /\ v[low] \in Int /\ v[high] \in Int /\ v[2] \in Int
  OBVIOUS
<1>6. v[1] = c
  BY <1>4, <1>5
<1>7. Between(v[1], c, v[2])
  BY <1>5, <1>6 DEF Between
<1>8. 1 \in 1 .. n - 1 /\ 1 + 1 = 2
  OBVIOUS
<1> QED
  BY <1>7, <1>8

\* The nearest point of a segment, for each side the tip may be on.
LEMMA NearestIs ==
  ASSUME state.samples \in Seq(Inputs), NEW i \in Segments, NEW tip \in Int
  PROVE  LET a == state.samples[i].position
             b == state.samples[i + 1].position
             lo == IF a <= b THEN a ELSE b
             hi == IF a <= b THEN b ELSE a
         IN  /\ a \in Int /\ b \in Int
             /\ Min(SegmentEnds(i)) = lo /\ Max(SegmentEnds(i)) = hi
             /\ NearestPoint(i, tip) = IF tip < lo THEN lo ELSE IF tip > hi THEN hi ELSE tip
<1>1. /\ i \in 1 .. Len(state.samples) /\ i + 1 \in 1 .. Len(state.samples)
      /\ Len(state.samples) \in Nat
  BY LenProperties DEF Segments
<1>2. state.samples[i] \in Inputs /\ state.samples[i + 1] \in Inputs
  BY <1>1, ElementOfSeq
<1>3. state.samples[i].position \in Int /\ state.samples[i + 1].position \in Int
  BY <1>2, InputsAssumption DEF InputType
<1> DEFINE a == state.samples[i].position
           b == state.samples[i + 1].position
<1>4. /\ Min({a, b}) = IF a <= b THEN a ELSE b
      /\ Max({a, b}) = IF a <= b THEN b ELSE a
  BY <1>3, MinOfTwo, MaxOfTwo
<1> HIDE DEF a, b
<1>5. SegmentEnds(i) = {a, b}
  BY DEF SegmentEnds, a, b
<1> QED
  BY <1>3, <1>4, <1>5 DEF NearestPoint, a, b

\* The segment that is chosen is at the least distance.
LEMMA ChosenSegment ==
  ASSUME state.samples \in Seq(Inputs), state.samples # <<>>, NEW tip,
         NEW m, ProjectToClosestPoint(tip) = {m}
  PROVE  /\ m \in Segments
         /\ \A j \in Segments : Dist(tip, NearestPoint(m, tip)) <= Dist(tip, NearestPoint(j, tip))
<1> DEFINE n == Len(state.samples)
           distance(i) == Dist(tip, NearestPoint(i, tip))
           nearest == {i \in Segments : \A j \in Segments : distance(i) <= distance(j)}
<1>1. n - 1 \in Nat /\ Segments = 1 .. n - 1
  BY SegmentsType
<1>2. nearest \subseteq Segments
  OBVIOUS
<1>3. ProjectToClosestPoint(tip) = IF nearest = {} THEN {} ELSE {Max(nearest)}
  BY DEF ProjectToClosestPoint
<1>4. m \in nearest
  <2> HIDE DEF nearest, n
  <2>1. nearest # {} => Max(nearest) \in nearest
    BY <1>1, <1>2, GreatestOf
  <2> QED
    BY <1>3, <2>1
<1> QED
  BY <1>4

\* On a line, the segment chosen contains the tip, moved to the nearer extreme
\* of the positions if it is outside of them.
LEMMA ClosestOnLine ==
  ASSUME state.samples \in Seq(Inputs), NEW tip \in Int,
         NEW m, m \in Segments,
         \A j \in Segments : Dist(tip, NearestPoint(m, tip)) <= Dist(tip, NearestPoint(j, tip))
  PROVE  LET positions == {state.samples[i].position : i \in DOMAIN state.samples}
             clamped == Max({Min(positions), Min({tip, Max(positions)})})
         IN  Min(SegmentEnds(m)) <= clamped /\ clamped <= Max(SegmentEnds(m))
<1> DEFINE w == state.samples
           n == Len(w)
           v == [i \in 1 .. n |-> w[i].position]
           positions == {w[i].position : i \in DOMAIN w}
           lo(i) == IF v[i] <= v[i + 1] THEN v[i] ELSE v[i + 1]
           hi(i) == IF v[i] <= v[i + 1] THEN v[i + 1] ELSE v[i]
           near(i) == IF tip < lo(i) THEN lo(i) ELSE IF tip > hi(i) THEN hi(i) ELSE tip
<1>1. /\ n \in Nat /\ DOMAIN w = 1 .. n /\ Segments = 1 .. n - 1 /\ n > 1
  BY LenProperties DEF Segments
<1>2. ASSUME NEW i \in 1 .. n
      PROVE  v[i] \in Int /\ v[i] = w[i].position
  <2>1. w[i] \in Inputs
    BY <1>1, ElementOfSeq
  <2> QED
    BY <2>1, InputsAssumption DEF InputType
<1>3. \A i \in 1 .. n - 1 : i \in 1 .. n /\ i + 1 \in 1 .. n
  BY <1>1
<1>4. positions = {v[i] : i \in 1 .. n}
  BY <1>1, <1>2
<1>5. ASSUME NEW i \in 1 .. n - 1
      PROVE  /\ NearestPoint(i, tip) = near(i)
             /\ Min(SegmentEnds(i)) = lo(i) /\ Max(SegmentEnds(i)) = hi(i)
  <2>1. v[i] = w[i].position /\ v[i + 1] = w[i + 1].position /\ i \in Segments
    BY <1>1, <1>2, <1>3
  <2> HIDE DEF v
  <2> QED
    BY <2>1, NearestIs
<1> HIDE DEF v, positions, n, w
<1>values. n \in Nat \ {0} /\ \A i \in 1 .. n : v[i] \in Int
  BY <1>1, <1>2
<1>6. PICK low \in 1 .. n : \A i \in 1 .. n : v[low] <= v[i]
  BY <1>values, LeastValue
<1>7. PICK high \in 1 .. n : \A i \in 1 .. n : v[i] <= v[high]
  BY <1>values, GreatestValue
<1>8. v[low] \in Int /\ v[high] \in Int /\ v[low] <= v[high]
  BY <1>2, <1>6
<1>9. Min(positions) = v[low] /\ Max(positions) = v[high]
  <2>1. /\ Min(positions) \in positions /\ \A y \in positions : Min(positions) <= y
    <3>1. \E x \in positions : \A y \in positions : x <= y
      BY <1>4, <1>6
    <3> QED
      BY <3>1 DEF Min
  <2>2. /\ Max(positions) \in positions /\ \A y \in positions : Max(positions) >= y
    <3>1. \E x \in positions : \A y \in positions : x >= y
      <4>1. \A i \in 1 .. n : v[high] >= v[i]
        BY <1>2, <1>7, <1>8
      <4> QED
        BY <1>4, <4>1
    <3> QED
      BY <3>1 DEF Max
  <2>3. PICK i \in 1 .. n : Min(positions) = v[i]
    BY <1>4, <2>1
  <2>4. PICK k \in 1 .. n : Max(positions) = v[k]
    BY <1>4, <2>2
  <2>5. v[i] <= v[low] /\ v[high] <= v[k]
    <3>1. v[low] \in positions /\ v[high] \in positions
      BY <1>4
    <3>2. v[i] \in Int /\ v[k] \in Int
      BY <1>2
    <3> QED
      BY <1>8, <2>1, <2>2, <2>3, <2>4, <3>1, <3>2
  <2>6. v[low] <= v[i] /\ v[k] <= v[high] /\ v[i] \in Int /\ v[k] \in Int
    BY <1>2, <1>6, <1>7
  <2> QED
    BY <1>8, <2>3, <2>4, <2>5, <2>6
<1> DEFINE clamped == IF tip < v[low] THEN v[low] ELSE IF tip > v[high] THEN v[high] ELSE tip
<1>10. Max({Min(positions), Min({tip, Max(positions)})}) = clamped
  <2>1. Min({tip, v[high]}) = IF tip <= v[high] THEN tip ELSE v[high]
    BY <1>8, MinOfTwo
  <2> DEFINE x == Min({tip, v[high]})
  <2>2. x \in Int
    BY <1>8, <2>1
  <2> HIDE DEF x
  <2>3. Max({v[low], x}) = IF v[low] <= x THEN x ELSE v[low]
    BY <1>8, <2>2, MaxOfTwo
  <2>4. Max({v[low], x}) = clamped
    BY <1>8, <2>1, <2>3 DEF x
  <2> QED
    BY <1>9, <2>4 DEF x
<1>11. /\ m \in 1 .. n - 1
       /\ \A j \in 1 .. n - 1 : Dist(tip, near(m)) <= Dist(tip, near(j))
  BY <1>1, <1>5
<1>12. /\ v[m] \in Int /\ v[m + 1] \in Int
       /\ v[low] <= v[m] /\ v[low] <= v[m + 1] /\ v[m] <= v[high] /\ v[m + 1] <= v[high]
  BY <1>2, <1>3, <1>6, <1>7, <1>11
<1>13. \E j \in 1 .. n - 1 : Between(v[j], clamped, v[j + 1])
  <2>1. clamped \in Int /\ v[low] <= clamped /\ clamped <= v[high]
    BY <1>8
  <2> HIDE DEF clamped
  <2> QED
    BY <1>1, <1>2, <2>1, Straddled
<1>14. PICK j \in 1 .. n - 1 : Between(v[j], clamped, v[j + 1])
  BY <1>13
<1>15. /\ v[j] \in Int /\ v[j + 1] \in Int
       /\ v[low] <= v[j] /\ v[low] <= v[j + 1] /\ v[j] <= v[high] /\ v[j + 1] <= v[high]
  BY <1>2, <1>3, <1>6, <1>7
<1>16. Dist(tip, near(m)) <= Dist(tip, near(j))
  BY <1>11
<1>17. near(j) = clamped
  BY <1>8, <1>14, <1>15 DEF Between
<1>18. lo(m) <= clamped /\ clamped <= hi(m)
  <2> DEFINE a == v[m]
             b == v[m + 1]
             l == v[low]
             h == v[high]
             c == clamped
  <2>1. /\ a \in Int /\ b \in Int /\ l \in Int /\ h \in Int
        /\ l <= a /\ l <= b /\ a <= h /\ b <= h
        /\ lo(m) = (IF a <= b THEN a ELSE b) /\ hi(m) = (IF a <= b THEN b ELSE a)
        /\ c = (IF tip < l THEN l ELSE IF tip > h THEN h ELSE tip)
    BY <1>8, <1>12
  <2>2. /\ near(m) = (IF tip < lo(m) THEN lo(m) ELSE IF tip > hi(m) THEN hi(m) ELSE tip)
        /\ Dist(tip, near(m)) <= Dist(tip, c)
    BY <1>16, <1>17
  <2> HIDE DEF a, b, l, h, c, near, lo, hi
  <2> DEFINE x == near(m)
             p == lo(m)
             q == hi(m)
  <2>3. /\ p = (IF a <= b THEN a ELSE b) /\ q = (IF a <= b THEN b ELSE a)
        /\ x = (IF tip < p THEN p ELSE IF tip > q THEN q ELSE tip)
        /\ (IF tip < x THEN x - tip ELSE tip - x) <= (IF tip < c THEN c - tip ELSE tip - c)
    BY <2>1, <2>2 DEF Dist
  <2> HIDE DEF x, p, q
  <2>4. p <= c /\ c <= q
    BY <2>1, <2>3
  <2> QED
    BY <2>4 DEF p, q, c, lo, hi, a, b
<1> QED
  BY <1>5, <1>10, <1>11, <1>18 DEF w, positions

-----------------------------------------------------------------------------
(* Orientations *)

Abs(x) == IF x < 0 THEN -x ELSE x

LEMMA AbsTimes ==
  ASSUME NEW x \in Int, NEW k \in Nat
  PROVE  Abs(x * k) = Abs(x) * k /\ Abs(x) \in Nat
<1>1. CASE x < 0
  <2>1. x * k <= 0 /\ -(x * k) = (-x) * k
    BY <1>1
  <2>2. x * k \in Int
    OBVIOUS
  <2> QED
    BY <1>1, <2>1, <2>2 DEF Abs
<1>2. CASE ~ (x < 0)
  <2>1. x * k >= 0 /\ x * k \in Int
    BY <1>2
  <2> QED
    BY <1>2, <2>1 DEF Abs
<1> QED
  BY <1>1, <1>2

\* What NormalizeAngle gives: the same direction, within a turn.
LEMMA Normalized ==
  ASSUME NEW angle \in Nat, NEW P \in Nat \ {0}
  PROVE  NormalizeAngle(angle, P) \in 0 .. P /\ Congruent(NormalizeAngle(angle, P), angle, P)
<1>1. CASE angle > P
  <2> DEFINE a == angle - 1
             r == a % P
  <2>1. a \in Int /\ a = angle - 1
    OBVIOUS
  <2>2. NormalizeAngle(angle, P) = r + 1
    BY <1>1 DEF NormalizeAngle
  <2> HIDE DEF a
  <2>3. r \in 0 .. P - 1 /\ Congruent(r, a, P)
    BY <2>1, CongruentIs
  <2> HIDE DEF r
  <2>4. PICK k \in Int : r = a + k * P
    BY <2>3 DEF Congruent
  <2>5. r + 1 = angle + k * P /\ r + 1 \in 0 .. P
    BY <2>1, <2>3, <2>4
  <2> QED
    BY <2>2, <2>5 DEF Congruent
<1>2. CASE ~ (angle > P)
  <2>1. NormalizeAngle(angle, P) = angle
    BY <1>2 DEF NormalizeAngle
  <2>2. angle \in 0 .. P /\ Congruent(angle, angle, P)
    BY <1>2, CongruentIs
  <2> QED
    BY <2>1, <2>2
<1> QED
  BY <1>1, <1>2

LEMMA DistIs ==
  ASSUME NEW a \in Int, NEW b \in Int
  PROVE  Dist(a, b) \in Nat /\ Dist(a, b) = Abs(b - a)
BY DEF Dist, Abs

\* The arc between two directions e apart, e not more than half a turn.
LEMMA ArcIs ==
  ASSUME NEW a \in Int, NEW b \in Int, NEW P \in Nat \ {0}, NEW e \in Int,
         Congruent(b - a, e, P), Abs(e) + Abs(e) <= P
  PROVE  Arc(a, b, P) = Abs(e)
<1> DEFINE D == Dist(a, b)
           t == D % P
<1>1. PICK k \in Int : b - a = e + k * P
  BY DEF Congruent
<1>2. D \in Nat /\ (D = b - a \/ D = -(b - a))
  BY DEF Dist
<1> HIDE DEF D
<1>3. D \in Int
  BY <1>2
<1>4. t \in 0 .. P - 1 /\ \E q \in Int : D = q * P + t
  BY <1>3, RemainderIs
<1>5. Arc(a, b, P) = Min({t, P - t})
  BY DEF Arc, D
<1> HIDE DEF t
<1>6. PICK q \in Int : D = q * P + t
  BY <1>4
<1>7. t \in Int /\ P - t \in Int
  BY <1>4
<1>8. Min({t, P - t}) = IF t <= P - t THEN t ELSE P - t
  BY <1>7, MinOfTwo
\* f is what t is congruent to: e, or what is as far on the other side.
<1>9. PICK f \in {e, -e} : \E j \in Int : t = f + j * P
  <2>1. CASE D = b - a
    <3>1. t = e + (k - q) * P /\ k - q \in Int
      BY <1>1, <1>6, <1>7, <2>1
    <3> QED
      BY <3>1
  <2>2. CASE D = -(b - a)
    <3>1. t = -e + ((-k) - q) * P /\ (-k) - q \in Int
      BY <1>1, <1>6, <1>7, <2>2
    <3> QED
      BY <3>1
  <2> QED
    BY <1>2, <2>1, <2>2
<1>10. PICK j \in Int : t = f + j * P
  BY <1>9
<1>11. f \in Int /\ Abs(f) = Abs(e) /\ Abs(f) + Abs(f) <= P
  BY DEF Abs
<1> DEFINE s == IF f >= 0 THEN f ELSE f + P
           J == IF f >= 0 THEN j ELSE j - 1
<1>12. s \in 0 .. P - 1 /\ J \in Int
  BY <1>11 DEF Abs
<1>13. 0 * P + t = J * P + s
  <2>1. CASE f >= 0
    BY <1>7, <1>10, <2>1
  <2>2. CASE ~ (f >= 0)
    <3>1. (j - 1) * P + (f + P) = f + j * P
      BY <1>11
    <3> QED
      BY <1>7, <1>10, <2>2, <3>1
  <2> QED
    BY <2>1, <2>2
<1> HIDE DEF s, J
<1>14. t = s
  BY <1>4, <1>12, <1>13, RemainderUnique
<1>15. (IF t <= P - t THEN t ELSE P - t) = Abs(f)
  BY <1>7, <1>11, <1>14 DEF s, Abs
<1> QED
  BY <1>5, <1>8, <1>11, <1>15

\* The end that is turned to, at most half a turn from the start.
LEMMA NearEnd ==
  ASSUME NEW from \in 0 .. FullTurn, NEW to \in 0 .. FullTurn
  PROVE  LET near == IF to - from < -(FullTurn \div 2) THEN to + FullTurn
                     ELSE IF to - from > FullTurn \div 2 THEN to - FullTurn
                     ELSE to
         IN  /\ near \in Int /\ Congruent(near, to, FullTurn)
             /\ Abs(near - from) + Abs(near - from) <= FullTurn
<1>1. FullTurn \in Nat \ {0} /\ FullTurn % 2 = 0
  BY InputsAssumption
<1> DEFINE h == FullTurn \div 2
<1>2. h \in Nat /\ FullTurn = h + h
  BY <1>1
<1> HIDE DEF h
<1> DEFINE near == IF to - from < -h THEN to + FullTurn
                   ELSE IF to - from > h THEN to - FullTurn
                   ELSE to
<1>3. near \in Int /\ Abs(near - from) + Abs(near - from) <= FullTurn
  BY <1>1, <1>2 DEF Abs
<1>4. Congruent(near, to, FullTurn)
  <2>1. /\ to + FullTurn = to + 1 * FullTurn
        /\ to - FullTurn = to + (-1) * FullTurn
        /\ to = to + 0 * FullTurn
    BY <1>1
  <2>2. \E k \in {-1, 0, 1} : near = to + k * FullTurn
    BY <2>1
  <2> HIDE DEF near
  <2> QED
    BY <2>2 DEF Congruent
<1> QED
  BY <1>3, <1>4 DEF h

\* An angle between two that are at most half a turn apart, the first within
\* a turn, is brought within a turn without leaving its direction.
LEMMA Turned ==
  ASSUME NEW P \in Nat \ {0}, NEW angle \in Int, angle + P >= 0
  PROVE  LET R == IF angle < 0 THEN angle + P ELSE NormalizeAngle(angle, P)
         IN  R \in 0 .. P /\ Congruent(R, angle, P)
<1>1. CASE angle < 0
  <2>1. angle + P = angle + 1 * P /\ angle + P \in 0 .. P
    BY <1>1
  <2> QED
    BY <1>1, <2>1 DEF Congruent
<1>2. CASE ~ (angle < 0)
  <2>1. angle \in Nat
    BY <1>2
  <2> QED
    BY <1>2, <2>1, Normalized
<1> QED
  BY <1>1, <1>2

\* Two directions that are turned, and scaled, from from and near.
LEMMA ArcsSplit ==
  ASSUME NEW F \in Nat \ {0}, NEW A \in Int, NEW B \in Int, NEW from \in Int, NEW near \in Int,
         Congruent(from, A, F), Congruent(near, B, F),
         Abs(near - from) + Abs(near - from) <= F,
         NEW num \in Nat, NEW den \in Nat \ {0}, num <= den, NEW R \in Int,
         Congruent(R, from * den + (near - from) * num, F * den)
  PROVE  /\ Arc(A * den, R, F * den) = Arc(A, B, F) * num
         /\ Arc(R, B * den, F * den) = Arc(A, B, F) * (den - num)
<1> DEFINE d == near - from
           P == F * den
           rest == den - num
           u == A * den
           v == B * den
           x == from * den
           y == near * den
           turned == x + d * num
<1>1. /\ d \in Int /\ P \in Nat \ {0} /\ rest \in Nat /\ u \in Int /\ v \in Int
      /\ x \in Int /\ y \in Int /\ turned \in Int /\ d * num \in Int /\ d * rest \in Int
  <2>1. P \in Int /\ P > 0
    OBVIOUS
  <2>2. d \in Int /\ rest \in Nat /\ u \in Int /\ v \in Int /\ x \in Int /\ y \in Int
    OBVIOUS
  <2>3. d * num \in Int /\ d * rest \in Int
    BY <2>2
  <2> QED
    BY <2>1, <2>2, <2>3
<1>2. turned - x = d * num /\ y - turned = d * rest
  <2>1. y = x + d * den
    OBVIOUS
  <2>2. d * den = d * num + d * rest
    OBVIOUS
  <2> HIDE DEF x, y, d, rest
  <2> QED
    BY <1>1, <2>1, <2>2
<1>3. Arc(A, B, F) = Abs(d)
  <2>1. Congruent(B, near, F) /\ Congruent(A, from, F)
    BY CongruentSym
  <2>2. Congruent(B - A, near - from, F)
    BY <2>1, CongruentOf
  <2> QED
    BY <1>1, <2>2, ArcIs
<1>4. Congruent(x, u, P) /\ Congruent(y, v, P)
  <2>1. den \in Int /\ F \in Nat \ {0} /\ Congruent(from, A, F) /\ Congruent(near, B, F)
    OBVIOUS
  <2>2. Congruent(from * den, A * den, F * den)
    BY <2>1, CongruentScaled
  <2>3. Congruent(near * den, B * den, F * den)
    BY <2>1, CongruentScaled
  <2> QED
    BY <2>2, <2>3
<1>5. /\ Abs(d * num) + Abs(d * num) <= P /\ Abs(d * num) = Abs(d) * num
      /\ Abs(d * rest) + Abs(d * rest) <= P /\ Abs(d * rest) = Abs(d) * rest
  <2> DEFINE a == Abs(d)
  <2>1. /\ a \in Nat /\ a + a <= F
        /\ Abs(d * num) = a * num /\ Abs(d * rest) = a * rest
    BY <1>1, AbsTimes
  <2>2. num <= den /\ rest <= den /\ num \in Nat /\ rest \in Nat
    BY <1>1
  <2> HIDE DEF a, d, rest
  <2>3. ASSUME NEW k \in Nat, k <= den PROVE a * k + a * k <= F * den
    <3>1. (a + a) * k <= F * k
      BY <2>1
    <3>2. F * k <= F * den
      BY <2>3
    <3>3. (a + a) * k = a * k + a * k
      BY <2>1
    <3>4. a * k + a * k \in Int /\ F * k \in Int /\ F * den \in Int
      BY <2>1
    <3> QED
      BY <3>1, <3>2, <3>3, <3>4
  <2> QED
    BY <2>1, <2>2, <2>3 DEF a
<1> HIDE DEF d, P, rest, u, v, x, y, turned
<1>6. Congruent(R, turned, P)
  BY DEF turned, x, d, P
<1>7. Arc(u, R, P) = Abs(d) * num
  <2>1. Congruent(u, x, P)
    BY <1>1, <1>4, CongruentSym
  <2>2. Congruent(R - u, turned - x, P)
    BY <1>1, <1>6, <2>1, CongruentOf
  <2> DEFINE e == d * num
  <2>3. Congruent(R - u, e, P) /\ Abs(e) + Abs(e) <= P /\ e \in Int
    BY <1>1, <1>2, <1>5, <2>2
  <2> HIDE DEF e
  <2>4. Arc(u, R, P) = Abs(e)
    BY <1>1, <2>3, ArcIs
  <2> QED
    BY <1>5, <2>4 DEF e
<1>8. Arc(R, v, P) = Abs(d) * rest
  <2>1. Congruent(v, y, P)
    BY <1>1, <1>4, CongruentSym
  <2>2. Congruent(turned, R, P)
    BY <1>1, <1>6, CongruentSym
  <2>3. Congruent(v - R, y - turned, P)
    <3>1. Congruent(R, turned, P)
      BY <1>6
    <3> QED
      BY <1>1, <2>1, <3>1, CongruentOf
  <2> DEFINE e == d * rest
  <2>4. Congruent(v - R, e, P) /\ Abs(e) + Abs(e) <= P /\ e \in Int
    BY <1>1, <1>2, <1>5, <2>3
  <2> HIDE DEF e
  <2>5. Arc(R, v, P) = Abs(e)
    BY <1>1, <2>4, ArcIs
  <2> QED
    BY <1>5, <2>5 DEF e
<1> QED
  BY <1>3, <1>7, <1>8 DEF u, v, P, rest

\* An angle, in units of 1 / den, is the part num / den of the shorter way.
ShorterWay(angle, from, to, num, den) ==
  /\ angle \in 0 .. FullTurn * den
  /\ Arc(from * den, angle, FullTurn * den) = Arc(from, to, FullTurn) * num
  /\ Arc(angle, to * den, FullTurn * den) = Arc(from, to, FullTurn) * (den - num)

\* What InterpAngle gives.
LEMMA Interpolated ==
  ASSUME NEW A \in Nat, NEW B \in Nat, NEW num \in Nat, NEW den \in Nat \ {0}, num <= den
  PROVE  ShorterWay(InterpAngle(A, B, num, den), A, B, num, den)
<1> DEFINE F == FullTurn
           P == F * den
           from == NormalizeAngle(A, F)
           to == NormalizeAngle(B, F)
           near == IF to - from < -(F \div 2) THEN to + F
                   ELSE IF to - from > F \div 2 THEN to - F
                   ELSE to
           angle == from * den + (near - from) * num
           R == IF angle < 0 THEN angle + P ELSE NormalizeAngle(angle, P)
<1>1. F \in Nat \ {0}
  BY InputsAssumption
<1>2. InterpAngle(A, B, num, den) = R
  BY DEF InterpAngle
<1>3. /\ from \in 0 .. F /\ Congruent(from, A, F)
      /\ to \in 0 .. F /\ Congruent(to, B, F)
  BY <1>1, Normalized
<1> HIDE DEF from, to
<1>4. near \in Int /\ Congruent(near, to, F) /\ Abs(near - from) + Abs(near - from) <= F
  BY <1>3, NearEnd
<1> HIDE DEF near, F
<1>5. Congruent(near, B, F)
  BY <1>1, <1>3, <1>4, CongruentTrans
<1>6. P \in Nat \ {0}
  <2>1. P \in Int /\ P > 0
    BY <1>1
  <2> QED
    BY <2>1
<1>7. angle \in Int /\ angle + P >= 0
  <2> DEFINE d == near - from
  <2>1. d \in Int /\ Abs(d) \in Nat /\ Abs(d) <= F /\ -Abs(d) <= d
    BY <1>1, <1>3, <1>4 DEF Abs
  <2> HIDE DEF d
  <2> DEFINE x == d * num
             y == from * den
  <2>2. x \in Int /\ y \in Int /\ y >= 0
    BY <1>3, <2>1
  <2>3. x + P >= 0
    <3>1. F + d >= 0 /\ F + d \in Int
      BY <1>1, <2>1
    <3>2. (F + d) * num >= 0
      BY <3>1
    <3>3. (F + d) * num = F * num + x
      BY <1>1, <2>1
    <3>4. F * num <= F * den
      BY <1>1
    <3>5. F * num \in Int /\ F * den \in Int
      BY <1>1
    <3> QED
      BY <2>2, <3>2, <3>3, <3>4, <3>5
  <2>4. angle = y + x
    BY DEF d
  <2> HIDE DEF x, y, P, angle
  <2> QED
    BY <1>6, <2>2, <2>3, <2>4
<1> HIDE DEF angle, P
<1>8. R \in 0 .. P /\ Congruent(R, angle, P)
  BY <1>6, <1>7, Turned
<1> HIDE DEF R
<1>9. R \in Int
  BY <1>6, <1>8
<1>10. Congruent(R, from * den + (near - from) * num, F * den)
  BY <1>8 DEF angle, P
<1>11. from \in Int
  BY <1>1, <1>3
<1>12. /\ Arc(A * den, R, F * den) = Arc(A, B, F) * num
       /\ Arc(R, B * den, F * den) = Arc(A, B, F) * (den - num)
  BY <1>1, <1>3, <1>4, <1>5, <1>9, <1>10, <1>11, ArcsSplit
<1> QED
  BY <1>2, <1>8, <1>12 DEF F, P, ShorterWay

-----------------------------------------------------------------------------
(* What a Query answers *)

UsesSample(sources) ==
  \E e \in 1 .. Len(state.samples) :
    sources = {e} /\ Cardinality(sources) = 1 /\ Min(sources) = e

\* on is where the tip's normal, if it has one, hits the polyline.
UsesSegment(sources, tip, hits, on) ==
  \E i \in Segments :
    /\ sources = {i, i + 1} /\ Cardinality(sources) = 2 /\ Min(sources) = i
    /\ params.normalProjection /\ hits # NoNormal => i \in on
    /\ ~ (params.normalProjection /\ hits # NoNormal) => ProjectToClosestPoint(tip) = {i}

OneOrNone(set, on) == set = {} \/ \E b \in on : set = {b}

LEMMA HitOnNormal ==
  ASSUME NEW on \in SUBSET Nat, NEW hits \in [on -> Hits],
         NEW turn \in {"left", "right"}
  PROVE  OneOrNone(ProjectAlongStrokeNormal(hits, turn), on)
<1>1. CASE on = {}
  <2>1. \A side : BestOn(side, hits) \subseteq on
    BY BestOnHit
  <2> QED
    BY <1>1, <2>1 DEF ProjectAlongStrokeNormal, OneOrNone
<1>2. CASE on # {}
  <2>1. PICK b \in on :
           /\ ProjectAlongStrokeNormal(hits, turn) = {b}
           /\ \A i \in on :
                \/ hits[i].side # hits[b].side /\ hits[b].side # turn
                \/ /\ hits[i].side = hits[b].side
                   /\ hits[b].distance <= hits[i].distance
    BY <1>2, AlongNormal
  <2> QED
    BY <2>1 DEF OneOrNone
<1> QED
  BY <1>1, <1>2

\* A Query takes one sample, or the two ends of the segment it projects to.
LEMMA QueryEnds ==
  ASSUME state.samples \in Seq(Inputs), state.samples # <<>>, NEW tip, NEW hits,
         NEW turn \in {"left", "right"}, NEW on \in SUBSET Segments,
         hits # NoNormal => hits \in [on -> Hits]
  PROVE  \/ UsesSample(Sources(tip, hits, turn))
         \/ UsesSegment(Sources(tip, hits, turn), tip, hits, on)
<1> DEFINE n == Len(state.samples)
           projection == Projection(tip, hits, turn)
           sources == Sources(tip, hits, turn)
           normal == params.normalProjection /\ hits # NoNormal
<1>1. n \in Nat /\ n > 0 /\ Segments = 1 .. n - 1
  BY SegmentsType
<1>2. ClosestEnd(tip) \in 1 .. n
  BY <1>1 DEF ClosestEnd
<1>3. sources = IF projection = {} THEN {ClosestEnd(tip)}
                ELSE projection \cup {i + 1 : i \in projection}
  BY DEF Sources
<1>4. projection = {} \/ \E i \in Segments :
        projection = {i} /\ (normal => i \in on) /\ (~ normal => ProjectToClosestPoint(tip) = {i})
  <2>1. CASE normal
    <3>1. hits \in [on -> Hits] /\ on \in SUBSET Nat
      BY <1>1, <2>1
    <3>2. projection = ProjectAlongStrokeNormal(hits, turn)
      BY <2>1 DEF Projection
    <3>3. OneOrNone(ProjectAlongStrokeNormal(hits, turn), on)
      <4> HIDE DEF projection, sources, normal, n
      <4> QED
        BY <3>1, HitOnNormal
    <3>4. \A b \in on : b \in Segments
      OBVIOUS
    <3> HIDE DEF projection
    <3> QED
      BY <2>1, <3>2, <3>3, <3>4 DEF OneOrNone
  <2>2. CASE ~ normal
    <3>1. projection = ProjectToClosestPoint(tip)
      BY <2>2 DEF Projection
    <3>2. projection \subseteq Segments
      BY <3>1, ClosestPointSegment
    <3>3. projection = {} \/ \E x : projection = {x}
      BY <3>1 DEF ProjectToClosestPoint
    <3> HIDE DEF projection
    <3> QED
      BY <2>2, <3>1, <3>2, <3>3
  <2> QED
    BY <2>1, <2>2
<1> HIDE DEF projection, sources, normal
<1>5. CASE projection = {}
  <2> DEFINE e == ClosestEnd(tip)
  <2>1. sources = {e} /\ e \in 1 .. n
    BY <1>2, <1>3, <1>5
  <2> HIDE DEF e
  <2>2. Cardinality({e}) = 1
    BY FS_Singleton
  <2>3. Min({e}) = e
    <3>1. e \in Int /\ {e, e} = {e}
      BY <1>1, <2>1
    <3>2. Min({e, e}) = e
      BY <3>1, MinOfTwo
    <3> QED
      BY <3>1, <3>2
  <2> QED
    BY <2>1, <2>2, <2>3 DEF sources, n, UsesSample
<1>6. CASE \E i \in Segments :
        projection = {i} /\ (normal => i \in on) /\ (~ normal => ProjectToClosestPoint(tip) = {i})
  <2>1. PICK i \in Segments :
        projection = {i} /\ (normal => i \in on) /\ (~ normal => ProjectToClosestPoint(tip) = {i})
    BY <1>6
  <2>2. sources = {i, i + 1}
    BY <1>3, <2>1
  <2>3. i \in Int /\ i + 1 \in Int /\ i # i + 1 /\ i <= i + 1
    BY <1>1
  <2>4. Min({i, i + 1}) = i
    BY <2>3, MinOfTwo
  <2>5. Cardinality({i, i + 1}) = 2
    <3>1. IsFiniteSet({i}) /\ Cardinality({i}) = 1
      BY FS_Singleton
    <3>2. i + 1 \notin {i} /\ {i} \cup {i + 1} = {i, i + 1}
      BY <2>3
    <3>3. Cardinality({i} \cup {i + 1}) = Cardinality({i}) + 1
      BY <3>1, <3>2, FS_AddElement
    <3>4. Cardinality({i, i + 1}) = Cardinality({i}) + 1
      BY <3>2, <3>3, Zenon
    <3> QED
      BY <3>1, <3>4
  <2> QED
    BY <2>1, <2>2, <2>4, <2>5 DEF sources, normal, UsesSegment
<1> QED
  BY <1>4, <1>5, <1>6

\* The projection is at a part of the segment, from nothing to all of it.
LEMMA RatioType ==
  ASSUME state.samples \in Seq(Inputs), NEW tip \in Int, NEW hits, NEW i \in Segments,
         NEW on \in SUBSET Segments, hits # NoNormal => hits \in [on -> Hits],
         params.normalProjection /\ hits # NoNormal => i \in on
  PROVE  /\ RatioAlong(i, tip, hits).num \in Nat
         /\ RatioAlong(i, tip, hits).den \in Nat \ {0}
         /\ RatioAlong(i, tip, hits).num <= RatioAlong(i, tip, hits).den
<1>1. CASE params.normalProjection /\ hits # NoNormal
  <2>1. hits[i] \in Hits
    BY <1>1
  <2>2. hits[i].num \in Nat /\ hits[i].den \in Nat \ {0} /\ hits[i].num <= hits[i].den
    BY <2>1, InputsAssumption DEF HitType
  <2> QED
    BY <1>1, <2>2 DEF RatioAlong
<1>2. CASE ~ (params.normalProjection /\ hits # NoNormal)
  <2> DEFINE a == state.samples[i].position
             b == state.samples[i + 1].position
             x == NearestPoint(i, tip)
             lo == IF a <= b THEN a ELSE b
             hi == IF a <= b THEN b ELSE a
  <2>1. /\ a \in Int /\ b \in Int
        /\ x = IF tip < lo THEN lo ELSE IF tip > hi THEN hi ELSE tip
    BY NearestIs
  <2>2. RatioAlong(i, tip, hits) = IF a = b THEN [num |-> 0, den |-> 1]
                                   ELSE [num |-> Dist(x, a), den |-> Dist(a, b)]
    BY <1>2 DEF RatioAlong
  <2> HIDE DEF a, b, x
  <2>3. CASE a = b
    BY <2>2, <2>3
  <2>4. CASE a # b
    <3>1. Dist(x, a) \in Nat /\ Dist(a, b) \in Nat \ {0} /\ Dist(x, a) <= Dist(a, b)
      BY <2>1, <2>4 DEF Dist
    <3> QED
      BY <2>2, <2>4, <3>1
  <2> QED
    BY <2>3, <2>4
<1> QED
  BY <1>1, <1>2

\* The fields of a sample in the window.
LEMMA SampleType ==
  ASSUME state.samples \in Seq(Inputs), NEW i \in 1 .. Len(state.samples)
  PROVE  /\ state.samples[i].orientation \in Nat /\ state.samples[i].position \in Int
         /\ state.samples[i].unknown \subseteq Fields
<1>1. state.samples[i] \in Inputs
  BY ElementOfSeq
<1> QED
  BY <1>1, InputsAssumption DEF InputType

\* The orientation a Query gives, on one sample and between two.
LEMMA QueryOrientation ==
  ASSUME state.samples \in Seq(Inputs), state.samples # <<>>, NEW tip \in Int, NEW hits,
         NEW turn \in {"left", "right"}, NEW on \in SUBSET Segments,
         hits # NoNormal => hits \in [on -> Hits]
  PROVE  LET sources == Sources(tip, hits, turn)
             given == Orientation(sources, tip, hits)
             i     == Min(sources)
             ratio == RatioAlong(i, tip, hits)
             from  == state.samples[i].orientation
             to    == state.samples[i + 1].orientation
         IN  /\ given \in [num : Nat, den : Nat \ {0}]
             /\ Cardinality(sources) = 2 => ShorterWay(given.num, from, to, ratio.num, ratio.den)
<1> DEFINE sources == Sources(tip, hits, turn)
           given == Orientation(sources, tip, hits)
           n == Len(state.samples)
<1>1. CASE UsesSample(sources)
  <2>1. PICK e \in 1 .. n : Cardinality(sources) = 1 /\ Min(sources) = e
    BY <1>1 DEF UsesSample
  <2>2. given = [num |-> state.samples[e].orientation, den |-> 1]
    BY <2>1 DEF Orientation
  <2>3. state.samples[e].orientation \in Nat
    BY <2>1, SampleType
  <2> QED
    BY <2>1, <2>2, <2>3
<1>2. CASE UsesSegment(sources, tip, hits, on)
  <2>1. PICK i \in Segments :
           /\ sources = {i, i + 1} /\ Cardinality(sources) = 2 /\ Min(sources) = i
           /\ params.normalProjection /\ hits # NoNormal => i \in on
    BY <1>2 DEF UsesSegment
  <2> DEFINE num == RatioAlong(i, tip, hits).num
             den == RatioAlong(i, tip, hits).den
             from == state.samples[i].orientation
             to == state.samples[i + 1].orientation
             angle == InterpAngle(from, to, num, den)
  <2>2. num \in Nat /\ den \in Nat \ {0} /\ num <= den
    BY <2>1, RatioType
  <2>3. from \in Nat /\ to \in Nat
    <3>1. n \in Nat /\ Segments = 1 .. n - 1
      BY SegmentsType
    <3>2. i \in 1 .. n /\ i + 1 \in 1 .. n
      BY <3>1
    <3> QED
      BY <3>2, SampleType
  <2>4. given = [num |-> angle, den |-> den]
    BY <2>1 DEF Orientation
  <2>5. ShorterWay(angle, from, to, num, den)
    <3> HIDE DEF from, to, num, den
    <3> QED
      BY <2>2, <2>3, Interpolated
  <2>6. angle \in Nat
    <3>1. FullTurn * den \in Int /\ angle \in 0 .. FullTurn * den
      BY <2>2, <2>5, InputsAssumption DEF ShorterWay
    <3> HIDE DEF angle
    <3> QED
      BY <3>1
  <2>7. given \in [num : Nat, den : Nat \ {0}] /\ given.num = angle
    <3> HIDE DEF angle, den, given
    <3> QED
      BY <2>2, <2>4, <2>6
  <2> HIDE DEF angle, given, sources
  <2>8. ShorterWay(given.num, from, to, num, den)
    BY <2>5, <2>7
  <2>9. Min(sources) = i
    BY <2>1
  <2> QED
    BY <2>7, <2>8, <2>9 DEF sources, given
<1> QED
  BY <1>1, <1>2, QueryEnds

\* The answers a Query may give, from the state it reads.
LEMMA QueryAnswer ==
  ASSUME Tracks(params, state, history.now), NEW tip \in Int, NEW hits,
         NEW turn \in {"left", "right"},
         NEW on \in SUBSET Segments, hits # NoNormal => hits \in [on -> Hits],
         NEW sources, sources = Sources(tip, hits, turn),
         NEW missing, missing = Missing(sources),
         NEW given, given = IF "orientation" \in missing THEN Unknown
                            ELSE Orientation(sources, tip, hits)
  PROVE  /\ sources \subseteq DOMAIN state.samples
         /\ missing \subseteq Fields
         /\ given \in [num : Nat, den : Nat \ {0}] \cup {Unknown}
         /\ Cardinality(sources) = 2 /\ (hits = NoNormal \/ ~ params.normalProjection) =>
              LET positions == {state.samples[i].position : i \in DOMAIN state.samples}
                  ends == {state.samples[i].position : i \in sources}
                  clamped == Max({Min(positions), Min({tip, Max(positions)})})
              IN  Min(ends) <= clamped /\ clamped <= Max(ends)
         /\ Cardinality(sources) = 2 /\ given # Unknown =>
              LET i == Min(sources)
              IN  ShorterWay(given.num, state.samples[i].orientation,
                             state.samples[i + 1].orientation,
                             RatioAlong(i, tip, hits).num, RatioAlong(i, tip, hits).den)
<1>1. /\ state.samples \in Seq(Inputs) /\ state.unknown \subseteq Fields
      /\ DOMAIN state.samples = 1 .. Len(state.samples)
  BY LackedFields, LenProperties DEF Tracks
<1>2. CASE state.samples = <<>>
  <2>1. sources = {}
    BY <1>2 DEF Sources
  <2>2. missing = Fields /\ given = Unknown
    BY <2>1 DEF Missing, Fields
  <2>3. Cardinality(sources) # 2
    BY <2>1, FS_EmptySet
  <2> QED
    BY <2>1, <2>2, <2>3
<1>3. CASE state.samples # <<>>
  <2>1. sources # {} /\ sources \subseteq 1 .. Len(state.samples)
    BY <1>1, <1>3, SourcesAreSamples
  <2>2. missing \subseteq Fields
    <3>1. missing = state.unknown \cup UNION {state.samples[i].unknown : i \in sources}
      BY <2>1 DEF Missing
    <3>2. \A i \in sources : state.samples[i].unknown \subseteq Fields
      BY <1>1, <2>1, SampleType
    <3> QED
      BY <1>1, <3>1, <3>2
  <2> DEFINE around == Orientation(sources, tip, hits)
             i == Min(sources)
  <2>3. /\ around \in [num : Nat, den : Nat \ {0}]
        /\ Cardinality(sources) = 2 =>
             ShorterWay(around.num, state.samples[i].orientation,
                        state.samples[i + 1].orientation,
                        RatioAlong(i, tip, hits).num, RatioAlong(i, tip, hits).den)
    BY <1>1, <1>3, QueryOrientation
  <2>4. given = around \/ given = Unknown
    OBVIOUS
  <2>5. ASSUME Cardinality(sources) = 2, hits = NoNormal \/ ~ params.normalProjection
        PROVE  LET positions == {state.samples[k].position : k \in DOMAIN state.samples}
                   ends == {state.samples[k].position : k \in sources}
                   clamped == Max({Min(positions), Min({tip, Max(positions)})})
               IN  Min(ends) <= clamped /\ clamped <= Max(ends)
    <3>1. UsesSample(sources) \/ UsesSegment(sources, tip, hits, on)
      BY <1>1, <1>3, QueryEnds
    <3>2. ~ UsesSample(sources)
      BY <2>5 DEF UsesSample
    <3>3. PICK m \in Segments :
             sources = {m, m + 1} /\ ProjectToClosestPoint(tip) = {m}
      BY <2>5, <3>1, <3>2 DEF UsesSegment
    <3>4. \A j \in Segments : Dist(tip, NearestPoint(m, tip)) <= Dist(tip, NearestPoint(j, tip))
      BY <1>1, <1>3, <3>3, ChosenSegment
    <3>5. {state.samples[k].position : k \in sources} = SegmentEnds(m)
      BY <3>3 DEF SegmentEnds
    <3> HIDE DEF i, around
    <3> QED
      BY <1>1, <3>4, <3>5, ClosestOnLine
  <2> HIDE DEF around, i
  <2> QED
    BY <1>1, <2>1, <2>2, <2>3, <2>4, <2>5 DEF i
<1> QED
  BY <1>2, <1>3

-----------------------------------------------------------------------------
(* The invariant of the answers *)

AnswerInv == TypeOK /\ ProjectionIsClosest /\ OrientationTakesShorterPath

LEMMA TracksType ==
  ASSUME NEW p \in Params, NEW st, NEW all, Tracks(p, st, all)
  PROVE  /\ st.samples \in Seq(Inputs) /\ st.unknown \in SUBSET Fields
         /\ p.normalProjection \/ Len(st.samples) <= p.maxSamples
<1>1. st.samples \in Seq(Inputs) /\ st.unknown \subseteq Fields
  BY LackedFields DEF Tracks
<1>2. ASSUME ~ p.normalProjection
      PROVE  Len(st.samples) <= p.maxSamples
  <2>1. p.maxSamples \in Nat \ {0}
    BY ParamsNat
  <2>2. CASE st.samples = <<>>
    <3>1. Len(st.samples) = 0
      BY <2>2, EmptySeq
    <3> QED
      BY <2>1, <3>1
  <2>3. CASE st.samples # <<>>
    <3>1. Windowed(p, st.samples, all) /\ all \in Seq(Inputs)
      BY <2>3 DEF Tracks
    <3>2. Len(all) \in Nat
      BY <3>1, LenProperties
    <3>3. Len(st.samples) = IF p.maxSamples <= Len(all) THEN p.maxSamples ELSE Len(all)
      BY <1>2, <3>1 DEF Windowed
    <3> QED
      BY <2>1, <3>2, <3>3
  <2> QED
    BY <2>2, <2>3
<1> QED
  BY <1>1, <1>2

LEMMA TrackedType ==
  ASSUME NEW p \in Params, NEW st, NEW all, NEW in \in Inputs, Tracks(p, st, all)
  PROVE  /\ Tracked(p, st, in) \in StateType
         /\ p.normalProjection \/ Len(Tracked(p, st, in).samples) <= p.maxSamples
<1> DEFINE new == Tracked(p, st, in)
<1>1. /\ new.samples \in Seq(Inputs) /\ new.unknown \in SUBSET Fields
      /\ p.normalProjection \/ Len(new.samples) <= p.maxSamples
  BY TracksUpdate, TracksType
<1>2. \E s, u : new = [unknown |-> u, samples |-> s]
  BY DEF Tracked
<1> HIDE DEF new
<1>3. new \in StateType
  BY <1>1, <1>2 DEF StateType
<1> QED
  BY <1>1, <1>3 DEF new

\* A call other than a Query leaves no answer to be right about.
LEMMA NoAnswerYet ==
  ASSUME output' = NoOutput,
         params' \in Params, state' \in StateType,
         params'.normalProjection \/ Len(state'.samples) <= params'.maxSamples,
         saved' # NoSave =>
           saved'.state \in StateType /\ saved'.lastTime \in Nat \cup {NoStroke},
         lastTime' \in Nat \cup {NoStroke}
  PROVE  AnswerInv'
BY DEF AnswerInv, TypeOK, ProjectionIsClosest, OrientationTakesShorterPath

LEMMA InitAnswers == Init => AnswerInv
<1> SUFFICES ASSUME Init PROVE AnswerInv
  OBVIOUS
<1>1. params \in Params /\ state = Nothing /\ output = NoOutput /\ saved = NoSave
      /\ lastTime = NoStroke
  BY DEF Init
<1>2. Tracks(params, state, <<>>)
  BY <1>1, TracksNothing
<1>3. params.normalProjection \/ Len(state.samples) <= params.maxSamples
  BY <1>1, <1>2, TracksType
<1>4. Nothing \in StateType
  BY EmptySeq DEF Nothing, StateType
<1> QED
  BY <1>1, <1>3, <1>4
  DEF AnswerInv, TypeOK, ProjectionIsClosest, OrientationTakesShorterPath

LEMMA ResetAnswers ==
  ASSUME IInv, AnswerInv, NEW p \in Params, NEW in \in Inputs, ResetAndUpdate(p, in)
  PROVE  AnswerInv'
<1>1. /\ params' = p /\ state' = Tracked(p, Nothing, in) /\ saved' = NoSave
      /\ output' = NoOutput /\ lastTime' = in.time
  BY DEF ResetAndUpdate
<1>2. /\ Tracked(p, Nothing, in) \in StateType
      /\ p.normalProjection \/ Len(Tracked(p, Nothing, in).samples) <= p.maxSamples
  BY TracksNothing, TrackedType
<1>3. in.time \in Nat
  BY InputsType
<1> QED
  BY <1>1, <1>2, <1>3, NoAnswerYet

LEMMA UpdateAnswers ==
  ASSUME IInv, AnswerInv, NEW in \in Inputs, Update(in)
  PROVE  AnswerInv'
<1>1. /\ params' = params /\ state' = Tracked(params, state, in) /\ saved' = saved
      /\ output' = NoOutput /\ lastTime' \in {in.time, NoStroke, lastTime}
  BY DEF Update
<1>2. params \in Params /\ Tracks(params, state, history.now)
  BY DEF IInv
<1>3. /\ Tracked(params, state, in) \in StateType
      /\ params.normalProjection \/ Len(Tracked(params, state, in).samples) <= params.maxSamples
  BY <1>2, TrackedType
<1>4. lastTime' \in Nat \cup {NoStroke}
  BY <1>1, InputsType DEF AnswerInv, TypeOK
<1>5. saved # NoSave =>
        saved.state \in StateType /\ saved.lastTime \in Nat \cup {NoStroke}
  BY DEF AnswerInv, TypeOK
<1> QED
  BY <1>1, <1>2, <1>3, <1>4, <1>5, NoAnswerYet

LEMMA SameRatio ==
  ASSUME params' = params, state' = state, NEW i, NEW tip, NEW hits
  PROVE  RatioAlong(i, tip, hits)' = RatioAlong(i, tip, hits)
BY DEF RatioAlong, NearestPoint, SegmentEnds

LEMMA QueryAnswers ==
  ASSUME IInv, AnswerInv, QueryAny
  PROVE  AnswerInv'
<1>1. PICK tip, hits, turn :
        /\ tip \in TipPositions /\ turn \in {"left", "right"} /\ Query(tip, hits, turn)
        /\ \E on \in SUBSET Segments : hits # NoNormal => hits \in [on -> Hits]
  BY DEF QueryAny
<1>2. PICK on \in SUBSET Segments : hits # NoNormal => hits \in [on -> Hits]
  BY <1>1
<1> DEFINE sources == Sources(tip, hits, turn)
           missing == Missing(sources)
           given == IF "orientation" \in missing THEN Unknown
                    ELSE Orientation(sources, tip, hits)
           w == state.samples
           i == Min(sources)
<1>3. /\ output'.missing = missing /\ output'.sources = sources
      /\ output'.orientation = given
      /\ output'.hits = hits /\ output'.turn = turn /\ output'.tip = tip
      /\ params' = params /\ state' = state /\ saved' = saved /\ lastTime' = lastTime
  BY <1>1 DEF Query
<1>4. tip \in Int /\ turn \in {"left", "right"} /\ Tracks(params, state, history.now)
  BY <1>1, InputsAssumption DEF IInv
<1>5. /\ sources \subseteq DOMAIN w
      /\ missing \subseteq Fields
      /\ given \in [num : Nat, den : Nat \ {0}] \cup {Unknown}
      /\ Cardinality(sources) = 2 /\ (hits = NoNormal \/ ~ params.normalProjection) =>
           LET positions == {w[k].position : k \in DOMAIN w}
               ends == {w[k].position : k \in sources}
               clamped == Max({Min(positions), Min({tip, Max(positions)})})
           IN  Min(ends) <= clamped /\ clamped <= Max(ends)
      /\ Cardinality(sources) = 2 /\ given # Unknown =>
           ShorterWay(given.num, w[i].orientation, w[i + 1].orientation,
                      RatioAlong(i, tip, hits).num, RatioAlong(i, tip, hits).den)
  BY <1>2, <1>4, QueryAnswer
<1> HIDE DEF sources, missing, given
<1>6. TypeOK'
  BY <1>3, <1>5 DEF AnswerInv, TypeOK
<1>7. ProjectionIsClosest'
  BY <1>3, <1>5 DEF ProjectionIsClosest
<1>8. OrientationTakesShorterPath'
  <2> PICK m : m = i
    OBVIOUS
  <2>1. Cardinality(output'.sources) = 2 /\ output'.orientation # Unknown =>
          ShorterWay(given.num, w[m].orientation, w[m + 1].orientation,
                     RatioAlong(m, tip, hits).num, RatioAlong(m, tip, hits).den)
    BY <1>3, <1>5
  <2>2. RatioAlong(m, tip, hits)' = RatioAlong(m, tip, hits)
    BY <1>3, SameRatio
  <2>3. m = Min(output'.sources)
    BY <1>3
  <2>4. (output' # NoOutput /\ Cardinality(output'.sources) = 2
           /\ output'.orientation # Unknown =>
         ShorterWay(output'.orientation.num, state'.samples[m].orientation,
           state'.samples[m + 1].orientation,
           RatioAlong(m, tip, hits)'.num, RatioAlong(m, tip, hits)'.den))
        => OrientationTakesShorterPath'
    BY <1>3, <2>3 DEF OrientationTakesShorterPath, ShorterWay
  <2> QED
    BY <1>3, <2>1, <2>2, <2>4
<1> QED
  BY <1>6, <1>7, <1>8 DEF AnswerInv

LEMMA SaveAnswers ==
  ASSUME IInv, AnswerInv, Save
  PROVE  AnswerInv'
<1>1. /\ params' = params /\ state' = state /\ lastTime' = lastTime
      /\ saved'.state = state /\ saved'.lastTime = lastTime /\ output' = NoOutput
  BY DEF Save
<1>2. /\ params \in Params /\ state \in StateType
      /\ params.normalProjection \/ Len(state.samples) <= params.maxSamples
      /\ lastTime \in Nat \cup {NoStroke}
  BY DEF AnswerInv, TypeOK
<1> QED
  BY <1>1, <1>2, NoAnswerYet

LEMMA RestoreAnswers ==
  ASSUME IInv, AnswerInv, Restore
  PROVE  AnswerInv'
<1>1. /\ params' = params /\ state' = saved.state /\ lastTime' = saved.lastTime
      /\ saved' = saved /\ saved # NoSave /\ output' = NoOutput
  BY DEF Restore
<1>2. params \in Params /\ Tracks(params, saved.state, history.saved)
  BY <1>1 DEF IInv
<1>3. /\ saved.state \in StateType /\ saved.lastTime \in Nat \cup {NoStroke}
  BY <1>1 DEF AnswerInv, TypeOK
<1>4. params.normalProjection \/ Len(saved.state.samples) <= params.maxSamples
  BY <1>2, TracksType
<1> QED
  BY <1>1, <1>2, <1>3, <1>4, NoAnswerYet

LEMMA NextAnswers == IInv /\ AnswerInv /\ [Next]_vars => AnswerInv'
<1> SUFFICES ASSUME IInv, AnswerInv, [Next]_vars PROVE AnswerInv'
  OBVIOUS
<1>1. ASSUME NEW p \in Params, NEW in \in Inputs, ResetAndUpdate(p, in) PROVE AnswerInv'
  BY <1>1, ResetAnswers
<1>2. ASSUME NEW in \in Inputs, Update(in) PROVE AnswerInv'
  BY <1>2, UpdateAnswers
<1>3. CASE QueryAny
  BY <1>3, QueryAnswers
<1>4. CASE Save
  BY <1>4, SaveAnswers
<1>5. CASE Restore
  BY <1>5, RestoreAnswers
<1>6. CASE UNCHANGED vars
  <2>1. RatioAlong(Min(output.sources), output.tip, output.hits)'
          = RatioAlong(Min(output.sources), output.tip, output.hits)
    BY <1>6 DEF vars, RatioAlong, NearestPoint, SegmentEnds
  <2> QED
    BY <1>6, <2>1
    DEF AnswerInv, vars, TypeOK, ProjectionIsClosest, OrientationTakesShorterPath
<1> QED
  BY <1>1, <1>2, <1>3, <1>4, <1>5, <1>6 DEF Next

LEMMA AnswersHold == Spec => []AnswerInv
BY InitAnswers, NextAnswers, InvHolds, PTL DEF Spec

-----------------------------------------------------------------------------
(* The theorems *)

\* The window in the words of WindowSufficient.
LEMMA WindowFromInv == IInv => WindowSufficient
<1> SUFFICES ASSUME IInv, state.samples # <<>> PROVE
      LET n == Len(state.samples)
          older == Len(history.now) - n
      IN  /\ state.samples = SubSeq(history.now, older + 1, Len(history.now))
          /\ IF params.normalProjection
             THEN /\ older > 0 => n >= params.minSamples
                  /\ InOrder(history.now) =>
                       /\ older > 0 => Enough(state.samples)
                       /\ n > 1 => ~ Enough(Tail(state.samples))
             ELSE n = Min({params.maxSamples, Len(history.now)})
  BY DEF WindowSufficient
<1> DEFINE w == state.samples
           all == history.now
           n == Len(w)
           N == Len(all)
<1>1. w \in Seq(Inputs) /\ all \in Seq(Inputs) /\ Windowed(params, w, all)
  BY DEF IInv, Tracks
<1>2. n \in Nat /\ N \in Nat /\ n > 0 /\ n <= N
  BY <1>1, LenProperties, EmptySeq DEF Windowed, SuffixOf
<1>4. w = SubSeq(all, N - n + 1, N)
  BY <1>1, SuffixIsSubSeq DEF Windowed
<1> HIDE DEF n, N
<1>5. params \in Params
  BY DEF IInv
<1>6. /\ params.maxSamples \in Nat /\ params.minSamples \in Nat
      /\ params.minDuration \in Nat
  BY <1>5, ParamsNat
<1>7. ASSUME params.normalProjection, InOrder(all), n > 1
      PROVE  ~ Enough(Tail(w))
  <2> DEFINE t == Tail(w)
  <2>1. Len(t) = n - 1 /\ \A k \in 1 .. n - 1 : t[k] = w[k + 1]
    BY <1>1, <1>2, <1>7, EmptySeq, HeadTailProperties DEF n
  <2>2. t[1] = w[2] /\ t[n - 1] = w[n]
    <3>1. 1 \in 1 .. n - 1 /\ n - 1 \in 1 .. n - 1 /\ (n - 1) + 1 = n /\ 1 + 1 = 2
      BY <1>2, <1>7
    <3> QED
      BY <2>1, <3>1
  <2>3. \/ n - 1 < params.minSamples
        \/ w[n].time - w[2].time <= params.minDuration
    BY <1>1, <1>7 DEF Windowed, n
  <2>4. w[n].time \in Nat /\ w[2].time \in Nat
    <3>1. n \in 1 .. n /\ 2 \in 1 .. n
      BY <1>2, <1>7
    <3> QED
      BY <1>1, <3>1, InputAt DEF n
  <2> HIDE DEF t
  <2>5. \/ ~ (Len(t) >= params.minSamples)
        \/ ~ (t[Len(t)].time - t[1].time > params.minDuration)
    BY <1>2, <1>6, <2>1, <2>2, <2>3, <2>4
  <2> QED
    BY <2>5 DEF Enough, Last, t
<1>8. ASSUME params.normalProjection, N - n > 0
      PROVE  /\ n >= params.minSamples
             /\ InOrder(all) => Enough(w)
  <2>1. N > n
    BY <1>2, <1>8
  <2> QED
    BY <1>1, <1>8, <2>1 DEF Windowed, Enough, Last, n, N
<1>9. ASSUME ~ params.normalProjection
      PROVE  n = Min({params.maxSamples, N})
  <2>1. n = IF params.maxSamples <= N THEN params.maxSamples ELSE N
    BY <1>1, <1>9 DEF Windowed, n, N
  <2> QED
    BY <1>2, <1>6, <2>1, MinOfTwo
<1> QED
  BY <1>4, <1>7, <1>8, <1>9 DEF n, N

\* The window always is the last inputs that params.h promises, whatever the
\* parameters and the inputs, also after a Restore.
THEOREM WindowCorrect == Spec => []WindowSufficient
BY InvHolds, WindowFromInv, PTL

\* A field that one input lacked is missing from every Result of the stroke.
THEOREM MissingCorrect == Spec => []MissingFieldsStick
<1>1. IInv => MissingFieldsStick
  BY DEF IInv
<1> QED
  BY <1>1, InvHolds, PTL

\* Along a stroke normal the nearest hit is used, never one on the inside of a
\* turn that has an outside one (stylus_state_modeler.cc:137-178).
THEOREM OutsideCorrect == Spec => []ProjectionIsOutside
<1>1. IInv => ProjectionIsOutside
  BY DEF IInv
<1> QED
  BY <1>1, InvHolds, PTL

\* The window is of raw inputs and bounded, and a Query reads only samples that
\* are in it (stylus_state_modeler.h:89-110).
THEOREM TypeCorrect == Spec => []TypeOK
<1>1. AnswerInv => TypeOK
  BY DEF AnswerInv
<1> QED
  BY <1>1, AnswersHold, PTL

\* Without a stroke normal the segment a Query interpolates contains the tip,
\* or the end of the polyline that is nearest to it, whatever the positions
\* (stylus_state_modeler.cc:181-201).
THEOREM ClosestCorrect == Spec => []ProjectionIsClosest
<1>1. AnswerInv => ProjectionIsClosest
  BY DEF AnswerInv
<1> QED
  BY <1>1, AnswersHold, PTL

\* The orientation of a Result is on the shorter way from that of one input to
\* that of the next, for any orientations, also of more than a turn
\* (utils.h:63-66).
THEOREM OrientationCorrect == Spec => []OrientationTakesShorterPath
<1>1. AnswerInv => OrientationTakesShorterPath
  BY DEF AnswerInv
<1> QED
  BY <1>1, AnswersHold, PTL
=============================================================================
