-------------------- MODULE LoopContractionMitigationProofs --------------------
(***************************************************************************)
(* Theorems about LoopContractionMitigation, for all parameters, speeds    *)
(* and times: the average is taken over the samples it should be, and what *)
(* is given for it is between the two strengths.                           *)
(***************************************************************************)
EXTENDS LoopContractionMitigation, ModelerLemmas

-----------------------------------------------------------------------------
(* The window *)

Sample == [speed : Speeds, time : Times]

LEMMA ParamsNat ==
  ASSUME NEW p \in Params
  PROVE  p.minWindow \in Nat \ {0} /\ p.minSamples \in Nat \ {0}
BY ParamsAssumption DEF ParamsType

LEMMA SampleAt ==
  ASSUME NEW s \in Seq(Sample), NEW i \in 1 .. Len(s)
  PROVE  s[i] \in Sample /\ s[i].time \in Nat
<1>1. s[i] \in Sample
  BY ElementOfSeq
<1> QED
  BY <1>1, NumbersAssumption DEF Sample

\* What the while loop pops, and why it stops there.
LEMMA PoppedUntil ==
  ASSUME params \in Params, NEW s \in Seq(Sample), s # <<>>
  PROVE  LET L == Len(s) IN
         \E m \in 1 .. L :
           /\ Popped(s) = SubSeq(s, m, L)
           /\ \/ L - m + 1 <= params.minSamples
              \/ s[L].time - s[m].time <= params.minWindow
           /\ m > 1 => /\ L - m + 1 >= params.minSamples
                       /\ s[L].time - s[m - 1].time > params.minWindow
<1> DEFINE L == Len(s)
           Rest(i) == SubSeq(s, i, L)
           kept == {i \in DOMAIN s : ~ MayPop(Rest(i))}
           m == Min(kept)
<1>1. L \in Nat /\ L > 0 /\ DOMAIN s = 1 .. L
  BY EmptySeq, LenProperties
<1>2. params.minSamples \in Nat \ {0} /\ params.minWindow \in Nat
  BY ParamsNat
<1>3. ASSUME NEW i \in 1 .. L
      PROVE  /\ Len(Rest(i)) = L - i + 1
             /\ Span(Rest(i)) = s[L].time - s[i].time
  <2>1. \A k \in i .. L : s[k] \in Sample
    BY <1>1, <1>3, ElementOfSeq
  <2>2. /\ Len(Rest(i)) = L - i + 1
        /\ \A k \in 1 .. L - i + 1 : Rest(i)[k] = s[i + k - 1]
    BY <1>1, <1>3, <2>1, SubSeqProperties
  <2>3. Rest(i)[L - i + 1] = s[L] /\ Rest(i)[1] = s[i]
    <3>1. /\ L - i + 1 \in 1 .. L - i + 1 /\ 1 \in 1 .. L - i + 1
          /\ i + (L - i + 1) - 1 = L /\ i + 1 - 1 = i
      BY <1>1, <1>3
    <3> QED
      BY <2>2, <3>1
  <2> QED
    BY <2>2, <2>3 DEF Span, Last
<1> HIDE DEF L, Rest
<1>4. \A i \in 1 .. L :
        MayPop(Rest(i)) <=> /\ s[L].time - s[i].time > params.minWindow
                            /\ L - i + 1 > params.minSamples
  BY <1>3 DEF MayPop
<1>5. kept \in SUBSET Nat /\ kept # {}
  <2>1. L \in 1 .. L
    BY <1>1
  <2>2. ~ MayPop(Rest(L))
    <3>1. ~ (L - L + 1 > params.minSamples)
      BY <1>1, <1>2
    <3> QED
      BY <1>4, <2>1, <3>1
  <2>3. L \in kept /\ kept \subseteq 1 .. L
    BY <1>1, <2>1, <2>2
  <2>4. 1 .. L \subseteq Nat
    OBVIOUS
  <2> HIDE DEF kept
  <2> QED
    BY <2>3, <2>4
<1>6. m \in kept /\ \A i \in kept : m <= i
  BY <1>5, LeastOf
<1>7. m \in 1 .. L /\ ~ MayPop(Rest(m))
  BY <1>1, <1>6
<1>8. m > 1 => m - 1 \in 1 .. L /\ MayPop(Rest(m - 1))
  <2> SUFFICES ASSUME m > 1, ~ MayPop(Rest(m - 1))
               PROVE  FALSE
    BY <1>1, <1>7
  <2>1. m - 1 \in kept
    BY <1>1, <1>7
  <2> HIDE DEF kept, m
  <2>2. m <= m - 1
    BY <1>6, <2>1
  <2> QED
    BY <1>1, <1>7, <2>2
<1>9. Popped(s) = SubSeq(s, m, L)
  BY DEF Popped, Rest, L
<1> HIDE DEF m, kept
<1>10. \A i \in 1 .. L : s[L].time - s[i].time \in Int
  <2>1. \A i \in 1 .. L : s[i].time \in Nat
    BY SampleAt DEF L
  <2> QED
    BY <1>1, <2>1
<1>11. \/ L - m + 1 <= params.minSamples
       \/ s[L].time - s[m].time <= params.minWindow
  <2>1. \/ ~ (L - m + 1 > params.minSamples)
        \/ ~ (s[L].time - s[m].time > params.minWindow)
    BY <1>4, <1>7
  <2>2. L - m + 1 \in Int /\ s[L].time - s[m].time \in Int
    BY <1>1, <1>7, <1>10
  <2> QED
    BY <1>2, <2>1, <2>2
<1>12. m > 1 => /\ L - m + 1 >= params.minSamples
                /\ s[L].time - s[m - 1].time > params.minWindow
  <2> SUFFICES ASSUME m > 1
               PROVE  /\ L - m + 1 >= params.minSamples
                      /\ s[L].time - s[m - 1].time > params.minWindow
    OBVIOUS
  <2>1. /\ s[L].time - s[m - 1].time > params.minWindow
        /\ L - (m - 1) + 1 > params.minSamples
    <3>1. m - 1 \in 1 .. L /\ MayPop(Rest(m - 1))
      BY <1>8
    <3> QED
      BY <1>4, <3>1
  <2>2. L - m + 1 >= params.minSamples
    BY <1>1, <1>2, <1>7, <2>1
  <2> QED
    BY <2>1, <2>2
<1> QED
  BY <1>7, <1>9, <1>11, <1>12 DEF L

-----------------------------------------------------------------------------
(* The invariant *)

\* Tip states never go back in time.
Ordered(all) ==
  \A i, j \in 1 .. Len(all) : i <= j => all[i].time <= all[j].time

\* w is what is left of the samples given since Reset.
Tracks(w, all) ==
  /\ w \in Seq(Sample) /\ all \in Seq(Sample)
  /\ SuffixOf(w, all) /\ Ordered(all)
  /\ all # <<>> =>
       /\ w # <<>>
       /\ \/ Len(w) <= params.minSamples
          \/ all[Len(all)].time - w[1].time <= params.minWindow
  /\ Len(all) > Len(w) =>
       /\ Len(w) >= params.minSamples
       /\ all[Len(all)].time - all[Len(all) - Len(w)].time > params.minWindow

IInv ==
  /\ params \in Params
  /\ history \in [now : Seq(Sample), saved : Seq(Sample)]
  /\ Tracks(samples, history.now)
  /\ saved # NoSave => Tracks(saved, history.saved)
  /\ ~ params.enabled => samples = <<>> /\ (saved # NoSave => saved = <<>>)

LEMMA OrderedAppend ==
  ASSUME NEW all \in Seq(Sample), Ordered(all), NEW new \in Sample,
         all # <<>> => new.time >= all[Len(all)].time
  PROVE  Ordered(Append(all, new))
<1> DEFINE al == Append(all, new)
           N == Len(all)
<1>1. /\ N \in Nat /\ Len(al) = N + 1 /\ al[N + 1] = new
      /\ \A k \in 1 .. N : al[k] = all[k]
  BY LenProperties, AppendProperties
<1>2. \A k \in 1 .. N : all[k].time \in Nat
  BY SampleAt
<1>3. new.time \in Nat
  BY NumbersAssumption DEF Sample
<1>4. N > 0 => new.time >= all[N].time
  BY EmptySeq
<1> HIDE DEF al
<1>5. ASSUME NEW i \in 1 .. N + 1, NEW j \in 1 .. N + 1, i <= j
      PROVE  al[i].time <= al[j].time
  <2>1. CASE j \in 1 .. N
    <3>1. i \in 1 .. N
      BY <1>1, <1>5, <2>1
    <3> QED
      BY <1>1, <1>5, <2>1, <3>1 DEF Ordered
  <2>2. CASE j = N + 1 /\ i \in 1 .. N
    <3>1. N \in 1 .. N /\ i <= N /\ N > 0
      BY <1>1, <2>2
    <3>2. all[i].time <= all[N].time
      BY <2>2, <3>1 DEF Ordered
    <3>3. al[i].time = all[i].time /\ al[j].time = new.time
      BY <1>1, <2>2
    <3> QED
      BY <1>2, <1>3, <1>4, <2>2, <3>1, <3>2, <3>3
  <2>3. CASE j = N + 1 /\ i = N + 1
    BY <1>1, <1>3, <2>3
  <2> QED
    BY <1>1, <1>5, <2>1, <2>2, <2>3
<1> QED
  BY <1>1, <1>5 DEF Ordered, al

\* One sample more.
LEMMA TracksUpdate ==
  ASSUME params \in Params, NEW w, NEW all, Tracks(w, all), NEW new \in Sample,
         all # <<>> => new.time >= all[Len(all)].time
  PROVE  Tracks(Popped(Append(w, new)), Append(all, new))
<1> DEFINE s == Append(w, new)
           al == Append(all, new)
           n == Len(w)
           N == Len(all)
           L == Len(s)
           d == Popped(s)
<1>1. w \in Seq(Sample) /\ all \in Seq(Sample) /\ SuffixOf(w, all) /\ Ordered(all)
  BY DEF Tracks
<1>2. n \in Nat /\ N \in Nat /\ n <= N
  BY <1>1, LenProperties DEF SuffixOf
<1>3. /\ s \in Seq(Sample) /\ L = n + 1 /\ s # <<>> /\ s[n + 1] = new
      /\ \A k \in 1 .. n : s[k] = w[k]
  BY <1>1, AppendProperties
<1>4. /\ al \in Seq(Sample) /\ Len(al) = N + 1 /\ al # <<>> /\ al[N + 1] = new
      /\ \A k \in 1 .. N : al[k] = all[k]
  BY <1>1, AppendProperties
<1>5. SuffixOf(s, al)
  BY <1>1, AppendedSuffix
<1>6. Ordered(al)
  BY <1>1, OrderedAppend
<1>7. PICK m \in 1 .. L :
           /\ d = SubSeq(s, m, L)
           /\ \/ L - m + 1 <= params.minSamples
              \/ s[L].time - s[m].time <= params.minWindow
           /\ m > 1 => /\ L - m + 1 >= params.minSamples
                       /\ s[L].time - s[m - 1].time > params.minWindow
  BY <1>3, PoppedUntil
<1> DEFINE D == L - m + 1
<1>8. params.minSamples \in Nat \ {0} /\ params.minWindow \in Nat
  BY ParamsNat
<1> HIDE DEF s, al, d
<1>9. /\ d \in Seq(Sample) /\ Len(d) = D /\ SuffixOf(d, al)
      /\ \A k \in 1 .. D : d[k] = s[m + k - 1]
  BY <1>3, <1>4, <1>5, <1>7, SuffixOfSuffix
<1> HIDE DEF n, N, L
<1>10. D \in 1 .. L /\ m \in 1 .. L /\ L \in Nat
  BY <1>2, <1>3, <1>7
<1>11. d[1] = s[m] /\ s[L] = new /\ d # <<>>
  <2>1. 1 \in 1 .. D /\ m + 1 - 1 = m
    BY <1>10
  <2>2. d[1] = s[m]
    BY <1>9, <2>1
  <2>3. d # <<>>
    BY <1>9, <1>10, EmptySeq
  <2> QED
    BY <1>3, <2>2, <2>3
<1>12. \/ D <= params.minSamples
       \/ al[N + 1].time - d[1].time <= params.minWindow
  BY <1>4, <1>7, <1>11
<1>13. ASSUME N + 1 > D
       PROVE  /\ D >= params.minSamples
              /\ al[N + 1].time - al[N + 1 - D].time > params.minWindow
  <2>1. CASE m > 1
    <3>1. m - 1 \in 1 .. L /\ (N + 1) - L + (m - 1) = N + 1 - D
      BY <1>2, <1>10, <2>1
    <3>2. s[m - 1] = al[(N + 1) - L + (m - 1)]
      BY <1>4, <1>5, <3>1 DEF SuffixOf, L
    <3> QED
      BY <1>4, <1>7, <1>11, <2>1, <3>1, <3>2
  <2>2. CASE ~ (m > 1)
    <3>1. m = 1 /\ D = n + 1 /\ N > n /\ N + 1 - D = N - n
      BY <1>2, <1>3, <1>10, <1>13, <2>2
    <3>2. n >= params.minSamples /\ all[N].time - all[N - n].time > params.minWindow
      BY <3>1 DEF Tracks, N, n
    <3>3. N \in 1 .. N /\ N - n \in 1 .. N /\ n > 0
      BY <1>2, <1>8, <3>1, <3>2
    <3>4. all # <<>>
      BY <3>3, EmptySeq DEF N
    <3>5. all[N].time \in Nat /\ all[N - n].time \in Nat /\ new.time \in Nat
      BY <1>1, <3>3, SampleAt, NumbersAssumption DEF N, Sample
    <3>6. new.time >= all[N].time
      BY <3>4 DEF N
    <3>7. al[N + 1].time = new.time /\ al[N + 1 - D].time = all[N - n].time
      BY <1>4, <3>1, <3>3
    <3>8. new.time - all[N - n].time > params.minWindow
      BY <1>8, <3>2, <3>5, <3>6
    <3> QED
      BY <1>2, <1>8, <3>1, <3>2, <3>7, <3>8
  <2> QED
    BY <2>1, <2>2
<1> HIDE DEF D
<1>14. Tracks(d, al)
  <2>1. d # <<>> /\ (\/ Len(d) <= params.minSamples
                     \/ al[Len(al)].time - d[1].time <= params.minWindow)
    BY <1>4, <1>9, <1>11, <1>12
  <2>2. Len(al) > Len(d) =>
          /\ Len(d) >= params.minSamples
          /\ al[Len(al)].time - al[Len(al) - Len(d)].time > params.minWindow
    <3>1. Len(al) = N + 1 /\ Len(d) = D
      BY <1>4, <1>9
    <3>2. N + 1 > D =>
            /\ D >= params.minSamples
            /\ al[N + 1].time - al[N + 1 - D].time > params.minWindow
      BY <1>13
    <3>3. N \in Nat /\ D \in Nat
      BY <1>2, <1>10
    <3> QED
      BY <3>1, <3>2, <3>3
  <2> QED
    BY <1>4, <1>6, <1>9, <2>1, <2>2 DEF Tracks
<1> QED
  BY <1>14 DEF d, s, al

-----------------------------------------------------------------------------
(* The steps *)

LEMMA TracksNothing == Tracks(<<>>, <<>>)
<1>1. <<>> \in Seq(Sample) /\ Len(<<>>) = 0
  BY EmptySeq
<1>2. SuffixOf(<<>>, <<>>) /\ Ordered(<<>>)
  BY <1>1 DEF SuffixOf, Ordered
<1> QED
  BY <1>1, <1>2 DEF Tracks

LEMMA InitInv == Init => IInv
<1> SUFFICES ASSUME Init PROVE IInv
  OBVIOUS
<1>1. <<>> \in Seq(Sample)
  BY EmptySeq
<1> QED
  BY <1>1, TracksNothing DEF Init, IInv

LEMMA ResetStep ==
  ASSUME IInv, NEW p \in Params, Reset(p)
  PROVE  IInv'
<1>1. <<>> \in Seq(Sample)
  BY EmptySeq
<1>2. Tracks(<<>>, <<>>)'
  BY TracksNothing, ParamsNat DEF Reset, Tracks, SuffixOf, Ordered
<1> QED
  BY <1>1, <1>2 DEF Reset, IInv

LEMMA UpdateStep ==
  ASSUME IInv, NEW speed \in Speeds, NEW time \in Times, Update(speed, time)
  PROVE  IInv'
<1>1. CASE ~ params.enabled
  <2>1. UNCHANGED vars
    BY <1>1 DEF Update, vars
  <2> QED
    BY <2>1 DEF IInv, vars, Tracks
<1>2. CASE params.enabled
  <2> DEFINE new == [speed |-> speed, time |-> time]
             now == history.now
  <2>1. new \in Sample /\ (now # <<>> => new.time >= now[Len(now)].time)
    BY DEF Sample, Update, Last
  <2>2. /\ params' = params /\ saved' = saved
        /\ samples' = Popped(Append(samples, new))
        /\ history' = [history EXCEPT !.now = Append(now, new)]
    BY <1>2 DEF Update
  <2> HIDE DEF new
  <2>3. Tracks(samples', Append(now, new))
    BY <2>1, <2>2, TracksUpdate DEF IInv
  <2>4. /\ history' \in [now : Seq(Sample), saved : Seq(Sample)]
        /\ history'.now = Append(now, new) /\ history'.saved = history.saved
    BY <2>2, <2>3 DEF IInv, Tracks
  <2>5. /\ Tracks(samples', history'.now)
        /\ saved' # NoSave => Tracks(saved', history'.saved)
    BY <2>2, <2>3, <2>4 DEF IInv
  <2>6. /\ Tracks(samples, history.now)'
        /\ saved' # NoSave => Tracks(saved, history.saved)'
    BY <2>2, <2>5 DEF Tracks
  <2> QED
    BY <1>2, <2>2, <2>4, <2>6 DEF IInv
<1> QED
  BY <1>1, <1>2

LEMMA SaveStep ==
  ASSUME IInv, Save
  PROVE  IInv'
<1>1. /\ params' = params /\ samples' = samples /\ saved' = samples
      /\ history' = [history EXCEPT !.saved = history.now]
  BY DEF Save
<1>2. /\ history' \in [now : Seq(Sample), saved : Seq(Sample)]
      /\ history'.now = history.now /\ history'.saved = history.now
  BY <1>1 DEF IInv
<1>3. Tracks(samples, history.now)' /\ Tracks(saved, history.saved)'
  BY <1>1, <1>2 DEF IInv, Tracks
<1> QED
  BY <1>1, <1>2, <1>3 DEF IInv

LEMMA RestoreStep ==
  ASSUME IInv, Restore
  PROVE  IInv'
<1>1. /\ params' = params /\ samples' = saved /\ saved' = saved /\ saved # NoSave
      /\ history' = [history EXCEPT !.now = history.saved]
  BY DEF Restore
<1>2. /\ history' \in [now : Seq(Sample), saved : Seq(Sample)]
      /\ history'.now = history.saved /\ history'.saved = history.saved
  BY <1>1 DEF IInv
<1>3. Tracks(samples, history.now)' /\ Tracks(saved, history.saved)'
  BY <1>1, <1>2 DEF IInv, Tracks
<1> QED
  BY <1>1, <1>2, <1>3 DEF IInv

LEMMA NextInv == IInv /\ [Next]_vars => IInv'
<1> SUFFICES ASSUME IInv, [Next]_vars PROVE IInv'
  OBVIOUS
<1>1. ASSUME NEW p \in Params, Reset(p) PROVE IInv'
  BY <1>1, ResetStep
<1>2. ASSUME NEW v \in Speeds, NEW t \in Times, Update(v, t) PROVE IInv'
  BY <1>2, UpdateStep
<1>3. CASE Save
  BY <1>3, SaveStep
<1>4. CASE Restore
  BY <1>4, RestoreStep
<1>5. CASE UNCHANGED vars
  BY <1>5 DEF IInv, vars, Tracks
<1> QED
  BY <1>1, <1>2, <1>3, <1>4, <1>5 DEF Next

LEMMA InvHolds == Spec => []IInv
BY InitInv, NextInv, PTL DEF Spec

-----------------------------------------------------------------------------
(* The theorems *)

LEMMA TypeFromInv == IInv => TypeOK
<1> SUFFICES ASSUME IInv PROVE TypeOK
  OBVIOUS
<1>1. Samples = Seq(Sample)
  BY DEF Samples, Sample
<1> QED
  BY <1>1 DEF IInv, Tracks, TypeOK

\* The samples that are kept are the recent ones.
LEMMA WindowFromInv == IInv => WindowIsRecent
<1> SUFFICES ASSUME IInv PROVE WindowIsRecent
  OBVIOUS
<1> DEFINE all == history.now
           n == Len(all)
           size == Len(samples)
           older == n - size
<1>1. Tracks(samples, all) /\ params \in Params
  BY DEF IInv
<1>2. samples \in Seq(Sample) /\ all \in Seq(Sample) /\ SuffixOf(samples, all)
  BY <1>1 DEF Tracks
<1>3. n \in Nat /\ size \in Nat /\ size <= n
  BY <1>2, LenProperties DEF SuffixOf
<1>4. samples = SubSeq(all, older + 1, n)
  BY <1>2, SuffixIsSubSeq
<1>5. params.minSamples \in Nat \ {0} /\ params.minWindow \in Nat
  BY <1>1, ParamsNat
<1>6. older > 0 => /\ size >= params.minSamples
                   /\ Last(all).time - all[older].time >= params.minWindow
  <2> SUFFICES ASSUME older > 0
               PROVE  /\ size >= params.minSamples
                      /\ Last(all).time - all[older].time >= params.minWindow
    OBVIOUS
  <2>1. size >= params.minSamples /\ all[n].time - all[older].time > params.minWindow
    BY <1>1, <1>3 DEF Tracks
  <2>2. all[n].time \in Nat /\ all[older].time \in Nat
    <3>1. n \in 1 .. n /\ older \in 1 .. n
      BY <1>3
    <3> HIDE DEF older
    <3> QED
      BY <1>2, <3>1, SampleAt
  <2> QED
    BY <1>5, <2>1, <2>2 DEF Last
<1>7. size > params.minSamples => Span(Tail(samples)) <= params.minWindow
  <2> SUFFICES ASSUME size > params.minSamples
               PROVE  Span(Tail(samples)) <= params.minWindow
    OBVIOUS
  <2>1. size > 1 /\ n > 0
    BY <1>3, <1>5
  <2>2. all # <<>> /\ samples # <<>>
    BY <2>1, EmptySeq
  <2>3. all[n].time - samples[1].time <= params.minWindow
    BY <1>1, <1>3, <1>5, <2>2 DEF Tracks
  <2>4. \A k \in 1 .. size : samples[k] = all[older + k]
    BY <1>2 DEF SuffixOf
  <2>5. Span(Tail(samples)) = all[n].time - samples[2].time
    <3>1. /\ Len(Tail(samples)) = size - 1
          /\ \A k \in 1 .. size - 1 : Tail(samples)[k] = samples[k + 1]
      BY <1>2, <2>2, HeadTailProperties
    <3>2. size - 1 \in 1 .. size - 1 /\ 1 \in 1 .. size - 1 /\ size \in 1 .. size
          /\ older + size = n /\ (size - 1) + 1 = size
      BY <1>3, <2>1
    <3>3. Tail(samples)[size - 1] = all[n] /\ Tail(samples)[1] = samples[2]
      BY <2>4, <3>1, <3>2
    <3> QED
      BY <3>1, <3>3 DEF Span, Last
  <2>6. samples[1].time <= samples[2].time
    <3>1. /\ 1 \in 1 .. size /\ 2 \in 1 .. size
          /\ older + 1 \in 1 .. n /\ older + 2 \in 1 .. n /\ older + 1 <= older + 2
      BY <1>3, <2>1
    <3>2. all[older + 1].time <= all[older + 2].time
      BY <1>1, <3>1 DEF Tracks, Ordered
    <3> QED
      BY <2>4, <3>1, <3>2
  <2>7. samples[1].time \in Nat /\ samples[2].time \in Nat /\ all[n].time \in Nat
    <3>1. 1 \in 1 .. size /\ 2 \in 1 .. size /\ n \in 1 .. n
      BY <1>3, <2>1
    <3> QED
      BY <1>2, <3>1, SampleAt
  <2> HIDE DEF n, all
  <2> QED
    BY <1>5, <2>3, <2>5, <2>6, <2>7
<1> QED
  BY <1>4, <1>6, <1>7 DEF WindowIsRecent

\* A sum of speeds is a number.
LEMMA SpeedSumInt ==
  ASSUME samples \in Seq(Sample)
  PROVE  SpeedSum \in Int
<1> DEFINE speeds == [i \in DOMAIN samples |-> samples[i].speed]
<1>1. Len(samples) \in Nat /\ DOMAIN samples = 1 .. Len(samples)
  BY LenProperties
<1>2. \A i \in 1 .. Len(samples) : samples[i].speed \in Int
  <2> SUFFICES ASSUME NEW i \in 1 .. Len(samples) PROVE samples[i].speed \in Int
    OBVIOUS
  <2>1. samples[i] \in Sample
    BY ElementOfSeq
  <2>2. samples[i].speed \in Speeds
    BY <2>1 DEF Sample
  <2>3. \A v \in Speeds : v \in Int
    BY NumbersAssumption
  <2> QED
    BY <2>2, <2>3
<1>3. speeds \in [1 .. Len(samples) -> Int]
  BY <1>1, <1>2
<1>4. speeds \in Seq(Int)
  <2> HIDE DEF speeds
  <2> QED
    BY <1>1, <1>3, IsASeq
<1>5. Total(speeds) \in Int
  <2> HIDE DEF speeds
  <2> QED
    BY <1>4, SumType
<1> QED
  BY <1>5 DEF SpeedSum

LEMMA Product ==
  ASSUME NEW a \in Int, NEW b \in Int
  PROVE  /\ a * b \in Int
         /\ a > 0 /\ b > 0 => a * b > 0
         /\ a >= 0 /\ b >= 0 => a * b >= 0
OBVIOUS

\* The average speed's place between the two bounds is between 0 and 1, and 0
\* for a stroke that is no faster than the lower bound.
LEMMA RatioIs ==
  ASSUME params \in Params, samples \in Seq(Sample), samples # <<>>
  PROVE  /\ SourceRatio.num \in Int /\ SourceRatio.den \in Int /\ SourceRatio.den > 0
         /\ 0 <= SourceRatio.num /\ SourceRatio.num <= SourceRatio.den
         /\ SpeedSum <= params.speedLower * Len(samples) => SourceRatio.num = 0
<1> DEFINE n == Len(samples)
           sum == SpeedSum
           lower == params.speedLower
           upper == params.speedUpper
<1>1. n \in Int /\ n > 0
  BY LenProperties, EmptySeq
<1>2. sum \in Int
  BY SpeedSumInt
<1>3. lower \in Int /\ upper \in Int /\ lower <= upper
  BY ParamsAssumption DEF ParamsType
<1>4. CASE lower = upper
  BY <1>4 DEF SourceRatio
<1>5. CASE lower # upper
  <2> DEFINE num == sum - lower * n
             den == (upper - lower) * n
  <2>1. SourceRatio = Clamp01(num, den)
    BY <1>5 DEF SourceRatio
  <2> HIDE DEF n, sum, lower, upper
  <2>2. num \in Int /\ (sum <= lower * n => num <= 0)
    <3>1. lower * n \in Int
      BY <1>1, <1>3, Product
    <3> QED
      BY <1>2, <3>1
  <2>3. den \in Int /\ den > 0
    <3>1. upper - lower \in Int /\ upper - lower > 0
      BY <1>3, <1>5
    <3> QED
      BY <1>1, <3>1, Product
  <2> HIDE DEF num, den
  <2>4. /\ SourceRatio.num = IF num < 0 THEN 0 ELSE IF num > den THEN den ELSE num
        /\ SourceRatio.den = den
    BY <2>1 DEF Clamp01
  <2> QED
    BY <2>2, <2>3, <2>4 DEF n, sum, lower
<1> QED
  BY <1>4, <1>5

\* Between two strengths, at rn/rd of the way.
LEMMA Between ==
  ASSUME NEW lower \in Int, NEW upper \in Int, upper <= lower, NEW rn \in Int,
         NEW rd \in Int, 0 <= rn, rn <= rd
  PROVE  LET value == lower * rd + (upper - lower) * rn
         IN  /\ upper * rd <= value /\ value <= lower * rd
             /\ rn = 0 => value = lower * rd
<1>1. (lower - upper) * (rd - rn) >= 0 /\ (lower - upper) * rn >= 0
  <2>1. /\ lower - upper \in Int /\ lower - upper >= 0
        /\ rd - rn \in Int /\ rd - rn >= 0
    OBVIOUS
  <2> QED
    BY <2>1, Product
<1>2. /\ lower * rd + (upper - lower) * rn - upper * rd = (lower - upper) * (rd - rn)
      /\ lower * rd - (lower * rd + (upper - lower) * rn) = (lower - upper) * rn
  OBVIOUS
<1>3. /\ lower * rd + (upper - lower) * rn \in Int /\ upper * rd \in Int
      /\ lower * rd \in Int
  OBVIOUS
<1> QED
  BY <1>1, <1>2, <1>3

LEMMA ValueFromInv == IInv => ValueBetweenStrengths
<1> SUFFICES ASSUME IInv, params.enabled, samples # <<>>
             PROVE  LET value == InterpolationValue IN
                    /\ params.atUpper * value.den <= value.num
                    /\ value.num <= params.atLower * value.den
                    /\ SpeedSum <= params.speedLower * Len(samples)
                         => value.num = params.atLower * value.den
  BY DEF ValueBetweenStrengths
<1> DEFINE rn == SourceRatio.num
           rd == SourceRatio.den
           lower == params.atLower
           upper == params.atUpper
<1>1. /\ rn \in Int /\ rd \in Int /\ 0 <= rn /\ rn <= rd
      /\ SpeedSum <= params.speedLower * Len(samples) => rn = 0
  BY RatioIs DEF IInv, Tracks
<1>2. lower \in Int /\ upper \in Int /\ upper <= lower
  BY ParamsAssumption, BoundsAssumption DEF IInv, ParamsType
<1>3. /\ InterpolationValue.num = lower * rd + (upper - lower) * rn
      /\ InterpolationValue.den = rd
  BY DEF InterpolationValue
<1> HIDE DEF rn, rd, lower, upper
<1>4. LET value == lower * rd + (upper - lower) * rn
      IN  /\ upper * rd <= value /\ value <= lower * rd
          /\ rn = 0 => value = lower * rd
  BY <1>1, <1>2, Between
<1> QED
  BY <1>1, <1>3, <1>4 DEF lower, upper

\* Type correctness; a modeler that is not enabled keeps nothing, also what it
\* saved (loop_contraction_mitigation_modeler.cc:35-62).
THEOREM TypeCorrect == Spec => []TypeOK
BY InvHolds, TypeFromInv, PTL

\* The average is over enough recent samples and none that is not needed,
\* whatever the numbers of samples and the windows, also after a Restore
\* (loop_contraction_mitigation_modeler.cc:40-46).
THEOREM WindowCorrect == Spec => []WindowIsRecent
BY InvHolds, WindowFromInv, PTL

\* The share of the spring model is between the two strengths for all speeds and
\* parameters that pass validation, and the one at the lower speed for a slow
\* stroke (loop_contraction_mitigation_modeler.cc:19-33).
THEOREM ValueCorrect == Spec => []ValueBetweenStrengths
BY InvHolds, ValueFromInv, PTL
================================================================================
