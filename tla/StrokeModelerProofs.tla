------------------------- MODULE StrokeModelerProofs -------------------------
(***************************************************************************)
(* Theorems about StrokeModeler, for every set of parameters and inputs    *)
(* and every bound.                                                        *)
(***************************************************************************)
EXTENDS StrokeModeler, TLAPS

-----------------------------------------------------------------------------
(* Type correctness *)

LEMMA CeilDivNat ==
  ASSUME NEW a \in Nat, NEW b \in Nat \ {0}
  PROVE  CeilDiv(a, b) \in Nat
BY DEF CeilDiv

LEMMA StepsNat ==
  ASSUME TypeOK, params # NoParams,
         NEW from \in Inputs, NEW to \in Inputs, from.time <= to.time,
         NEW n \in StepsFor(from, to)
  PROVE  n \in Nat
<1>1. params.outputInterval \in Nat \ {0} /\ params.angleSteps \in Nat
  BY ParamsAssumption DEF TypeOK, ParamsType
<1>2. to.time - from.time \in Nat
  BY InputsAssumption DEF IsInput
<1>3. CeilDiv(to.time - from.time, params.outputInterval) \in Nat
  BY <1>1, <1>2, CeilDivNat
<1> QED
  BY <1>1, <1>3 DEF StepsFor, StepCounts

\* An input that passes Update's checks.
LEMMA UpdateStatusOk ==
  ASSUME NEW in, UpdateStatus(in) = "ok"
  PROVE  /\ params # NoParams
         /\ in.event = "down" => lastInput = NoInput
         /\ in.event # "down" => lastInput # NoInput /\ ~(in.time < lastInput.time)
BY DEF UpdateStatus, OutOfOrder

LEMMA PredictedStatesNat ==
  ASSUME TypeOK, predictor # NoPredictor, NEW n \in PredictedStates
  PROVE  n \in Nat
<1>1. predictor.params.endIterations \in Nat
  BY ParamsAssumption DEF TypeOK, PredictorType, PredictorRecord, ParamsType
<1> QED
  BY <1>1, BoundsAssumption DEF PredictedStates
LEMMA SeqFacts ==
  ASSUME NEW in \in Inputs, NEW s \in Seq(Inputs)
  PROVE  <<in>> \in Seq(Inputs) /\ Append(s, in) \in Seq(Inputs)
OBVIOUS

LEMMA InitType == Init => TypeOK
<1> SUFFICES ASSUME Init PROVE TypeOK
  OBVIOUS
<1>1. <<>> \in Seq(Inputs) /\ NoStylus \in StylusType
  BY DEF NoStylus, StylusType
<1>2. \A S : \A s \in S : Unset(s) \in ModelerType(S)
  BY DEF Unset, ModelerType
<1> QED
  BY <1>1, <1>2 DEF Init, TypeOK, PredictorType, PredictorRecord

LEMMA TrackStylusType ==
  ASSUME NEW p, NEW state \in StylusType, NEW in \in Inputs
  PROVE  TrackStylus(p, state, in) \in StylusType
BY DEF TrackStylus, StylusType, Unknown

LEMMA ModelerResetType ==
  ASSUME NEW S, NEW p \in Params, NEW state \in S
  PROVE  ModelerReset(p, state) \in ModelerType(S)
BY DEF ModelerReset, ModelerType

LEMMA ModelerSaveType ==
  ASSUME NEW S, NEW m \in ModelerType(S)
  PROVE  ModelerSave(m) \in ModelerType(S)
BY DEF ModelerSave, ModelerType

LEMMA ModelerRestoreType ==
  ASSUME NEW S, NEW m \in ModelerType(S)
  PROVE  ModelerRestore(m) \in ModelerType(S)
BY DEF ModelerRestore, ModelerType

LEMMA UpdatesType ==
  ASSUME TypeOK, NEW in \in Inputs
  PROVE  /\ WobbleUpdate(in) \in ModelerType(Seq(Inputs))
         /\ PositionUpdate(in) \in ModelerType(Seq(Inputs))
         /\ StylusUpdate(in) \in ModelerType(StylusType)
         /\ \A n : LoopUpdate(in, n) \in ModelerType(Seq(Inputs))
         /\ PredictorUpdate(in) \in PredictorType
<1>1. StylusUpdate(in) \in ModelerType(StylusType)
  BY TrackStylusType DEF TypeOK, StylusUpdate, ModelerType
<1>2. PredictorUpdate(in) \in PredictorType
  BY DEF TypeOK, PredictorUpdate, PredictorType, PredictorRecord
<1>3. ASSUME NEW m \in ModelerType(Seq(Inputs))
      PROVE  [m EXCEPT !.state = Append(@, in)] \in ModelerType(Seq(Inputs))
  BY SeqFacts DEF ModelerType
<1> QED
  BY <1>1, <1>2, <1>3 DEF TypeOK, WobbleUpdate, PositionUpdate, LoopUpdate

LEMMA NextType == TypeOK /\ [Next]_vars => TypeOK'
<1> SUFFICES ASSUME TypeOK, [Next]_vars PROVE TypeOK'
  OBVIOUS
<1>1. ASSUME NEW p \in Params, ResetParams(p) PROVE TypeOK'
  <2>1. predictor' \in PredictorType
    BY <1>1 DEF ResetParams, MakePredictor, PredictorType, PredictorRecord
  <2>2. loop' \in ModelerType(Seq(Inputs))
    <3>1. <<>> \in Seq(Inputs)
      OBVIOUS
    <3> QED
      BY <1>1, <3>1, ModelerResetType DEF ResetParams
  <2> QED
    BY <1>1, <2>1, <2>2 DEF ResetParams, ResetInternal, Returned, TypeOK
<1>2. ASSUME NEW p \in Params, RejectParams(p) PROVE TypeOK'
  BY <1>2 DEF RejectParams, Returned, TypeOK, modelers, savedVars
<1>3. CASE Reset
  <2>1. lastInput' \in Inputs \cup {NoInput}
    BY <1>3 DEF Reset, ResetInternal, TypeOK
  <2>2. saveActive' \in BOOLEAN
    BY <1>3 DEF Reset, ResetInternal, TypeOK
  <2>3. ret'.results \in Nat
    BY <1>3 DEF Reset, Returned
  <2>4. UNCHANGED <<params, predictor, modelers, savedLastInput, savedPredictor>>
    BY <1>3 DEF Reset
  <2> QED
    BY <2>1, <2>2, <2>3, <2>4 DEF TypeOK, modelers
<1>4. ASSUME NEW in \in Inputs, RejectInput(in) PROVE TypeOK'
  BY <1>4 DEF RejectInput, Returned, TypeOK, modelers, savedVars
<1>5. ASSUME NEW in \in Inputs, ProcessDownEvent(in) PROVE TypeOK'
  <2>1. params \in Params
    BY <1>5, UpdateStatusOk DEF ProcessDownEvent, TypeOK
  <2>2. TrackStylus(params, NoStylus, in) \in StylusType
    <3>1. NoStylus \in StylusType
      BY DEF NoStylus, StylusType
    <3> QED
      BY <3>1, TrackStylusType
  <2>3. /\ wobble' \in ModelerType(Seq(Inputs))
        /\ position' \in ModelerType(Seq(Inputs))
        /\ stylus' \in ModelerType(StylusType)
        /\ loop' \in ModelerType(Seq(Inputs))
    <3>1. <<>> \in Seq(Inputs) /\ <<in>> \in Seq(Inputs)
      OBVIOUS
    <3> QED
      BY <1>5, <2>1, <2>2, <3>1, ModelerResetType DEF ProcessDownEvent
  <2>4. predictor' \in PredictorType
    <3>1. <<in>> \in Seq(Inputs)
      OBVIOUS
    <3> QED
      BY <1>5, <3>1 DEF ProcessDownEvent, PredictorType, PredictorRecord, TypeOK
  <2> QED
    BY <1>5, <2>3, <2>4 DEF ProcessDownEvent, Produced, TypeOK, savedVars
<1>6. ASSUME NEW in \in Inputs, ProcessMoveEvent(in) PROVE TypeOK'
  <2>1. lastInput \in Inputs /\ params # NoParams /\ lastInput.time <= in.time
    BY <1>6, UpdateStatusOk, InputsAssumption DEF ProcessMoveEvent, TypeOK, IsInput
  <2>2. wobble' \in ModelerType(Seq(Inputs)) /\ stylus' \in ModelerType(StylusType)
    BY <1>6, UpdatesType DEF ProcessMoveEvent
  <2>3. CASE /\ Returned("Update", "InvalidArgument")
             /\ UNCHANGED <<position, loop, predictor, lastInput>>
    BY <1>6, <2>2, <2>3 DEF ProcessMoveEvent, Returned, TypeOK, savedVars
  <2>4. ASSUME NEW n \in StepsFor(lastInput, in),
               position' = PositionUpdate(in), predictor' = PredictorUpdate(in),
               lastInput' = in, loop' = LoopUpdate(in, n),
               Produced("Update", n, lastInput'.time)
        PROVE  TypeOK'
    <3>1. n \in Nat
      BY <2>1, StepsNat
    <3> QED
      BY <1>6, <2>2, <2>4, <3>1, UpdatesType
      DEF ProcessMoveEvent, Produced, TypeOK, savedVars
  <2> QED
    BY <1>6, <2>3, <2>4 DEF ProcessMoveEvent
<1>7. ASSUME NEW in \in Inputs, ProcessUpEvent(in) PROVE TypeOK'
  <2>1. lastInput \in Inputs /\ params # NoParams /\ lastInput.time <= in.time
    BY <1>7, UpdateStatusOk, InputsAssumption DEF ProcessUpEvent, TypeOK, IsInput
  <2>2. CASE /\ Returned("Update", "InvalidArgument")
             /\ UNCHANGED <<stylus, position, loop, lastInput>>
    BY <1>7, <2>2 DEF ProcessUpEvent, Returned, TypeOK, savedVars
  <2>3. ASSUME NEW n \in StepsFor(lastInput, in),
               NEW k \in 0 .. params.endIterations, NEW results,
               results = IF n + k = 0 THEN 1 ELSE n + k,
               position' = PositionUpdate(in), stylus' = StylusUpdate(in),
               loop' = LoopUpdate(in, results), lastInput' = NoInput,
               Produced("Update", results, lastInput.time)
        PROVE  TypeOK'
    <3>1. n \in Nat /\ params.endIterations \in Nat
      BY <2>1, StepsNat, ParamsAssumption DEF TypeOK, ParamsType
    <3>2. results \in Nat
      BY <2>3, <3>1
    <3> QED
      BY <1>7, <2>3, <3>2, UpdatesType
      DEF ProcessUpEvent, Produced, TypeOK, savedVars
  <2> QED
    BY <1>7, <2>2, <2>3 DEF ProcessUpEvent
<1>8. CASE Predict
  BY <1>8, PredictedStatesNat
  DEF Predict, Returned, Produced, TypeOK, modelers, savedVars
<1>9. CASE Save
  BY <1>9, ModelerSaveType DEF Save, Returned, TypeOK
<1>10. CASE Restore
  BY <1>10, ModelerRestoreType
  DEF Restore, RestoredPredictor, Returned, TypeOK, modelers, savedVars
<1>11. CASE UNCHANGED vars
  BY <1>11 DEF vars, modelers, savedVars, TypeOK
<1> QED
  BY <1>1, <1>2, <1>3, <1>4, <1>5, <1>6, <1>7, <1>8, <1>9, <1>10, <1>11
  DEF Next, Update

\* Every object of the facade keeps its type, and a call gives a natural number
\* of Results.
THEOREM TypeCorrect == Spec => []TypeOK
BY InitType, NextType, PTL DEF Spec
-----------------------------------------------------------------------------
(* One set of parameters for a stroke, also for a saved one *)

StrokeParams ==
  /\ params # NoParams
  /\ wobble.params = params /\ position.params = params
  /\ stylus.params = params /\ loop.params = params

\* A saved stroke that Restore may bring back is as good as a live one.
ParamsInv ==
  /\ lastInput # NoInput => StrokeParams
  /\ saveActive /\ savedLastInput # NoInput => StrokeParams

LEMMA KeepsParams ==
  ASSUME NEW m, NEW s, NEW S, m \in ModelerType(S)
  PROVE  /\ [m EXCEPT !.state = s].params = m.params
         /\ ModelerSave(m).params = m.params
         /\ ModelerRestore(m).params = m.params
BY DEF ModelerSave, ModelerRestore, ModelerType

LEMMA UpdatesKeepParams ==
  ASSUME TypeOK, NEW in
  PROVE  /\ WobbleUpdate(in).params = wobble.params
         /\ PositionUpdate(in).params = position.params
         /\ StylusUpdate(in).params = stylus.params
         /\ \A n : LoopUpdate(in, n).params = loop.params
BY DEF TypeOK, ModelerType, WobbleUpdate, PositionUpdate, StylusUpdate, LoopUpdate

LEMMA NextParams == TypeOK /\ ParamsInv /\ [Next]_vars => ParamsInv'
<1> SUFFICES ASSUME TypeOK, ParamsInv, [Next]_vars PROVE ParamsInv'
  OBVIOUS
<1> USE DEF ParamsInv, StrokeParams
<1>1. ASSUME NEW p \in Params, ResetParams(p) PROVE ParamsInv'
  BY <1>1 DEF ResetParams, ResetInternal
<1>2. ASSUME NEW p \in Params, RejectParams(p) PROVE ParamsInv'
  BY <1>2 DEF RejectParams, modelers, savedVars
<1>3. CASE Reset
  BY <1>3 DEF Reset, ResetInternal, modelers
<1>4. ASSUME NEW in \in Inputs, RejectInput(in) PROVE ParamsInv'
  BY <1>4 DEF RejectInput, modelers, savedVars
<1>5. ASSUME NEW in \in Inputs, ProcessDownEvent(in) PROVE ParamsInv'
  BY <1>5, UpdateStatusOk DEF ProcessDownEvent, ModelerReset, savedVars
<1>6. ASSUME NEW in \in Inputs, ProcessMoveEvent(in) PROVE ParamsInv'
  <2>1. lastInput # NoInput
    BY <1>6, UpdateStatusOk DEF ProcessMoveEvent
  <2>2. /\ wobble'.params = wobble.params /\ stylus'.params = stylus.params
        /\ position'.params = position.params /\ loop'.params = loop.params
    BY <1>6, UpdatesKeepParams DEF ProcessMoveEvent
  <2> QED
    BY <1>6, <2>1, <2>2 DEF ProcessMoveEvent
<1>7. ASSUME NEW in \in Inputs, ProcessUpEvent(in) PROVE ParamsInv'
  <2>1. lastInput # NoInput
    BY <1>7, UpdateStatusOk DEF ProcessUpEvent
  <2>2. /\ wobble'.params = wobble.params /\ stylus'.params = stylus.params
        /\ position'.params = position.params /\ loop'.params = loop.params
    BY <1>7, UpdatesKeepParams DEF ProcessUpEvent
  <2> QED
    BY <1>7, <2>1, <2>2 DEF ProcessUpEvent
<1>8. CASE Predict
  BY <1>8 DEF Predict, modelers, savedVars
<1>9. CASE Save
  <2>1. /\ wobble'.params = wobble.params /\ stylus'.params = stylus.params
        /\ position'.params = position.params /\ loop'.params = loop.params
    BY <1>9, KeepsParams DEF Save, TypeOK
  <2> QED
    BY <1>9, <2>1 DEF Save
<1>10. CASE Restore
  <2>1. /\ wobble'.params = wobble.params /\ stylus'.params = stylus.params
        /\ position'.params = position.params /\ loop'.params = loop.params
    BY <1>10, KeepsParams DEF Restore, TypeOK, modelers
  <2>2. UNCHANGED <<params, savedLastInput, saveActive>>
    BY <1>10 DEF Restore, savedVars
  <2> QED
    BY <1>10, <2>1, <2>2 DEF Restore
<1>11. CASE UNCHANGED vars
  BY <1>11 DEF vars, modelers, savedVars
<1> QED
  BY <1>1, <1>2, <1>3, <1>4, <1>5, <1>6, <1>7, <1>8, <1>9, <1>10, <1>11
  DEF Next, Update

LEMMA ParamsCorrect == Spec => []ParamsInv
<1>1. Init => ParamsInv
  BY DEF Init, ParamsInv
<1> QED
  BY <1>1, TypeCorrect, NextParams, PTL DEF Spec

\* Whatever the client calls, restored strokes included, a stroke is modelled
\* with the parameters of the last successful Reset(params), in every
\* sub-modeler.
THEOREM OneParams == Spec => []OneParamsPerStroke
<1>1. ParamsInv => OneParamsPerStroke
  BY DEF ParamsInv, StrokeParams, OneParamsPerStroke
<1> QED
  BY <1>1, ParamsCorrect, PTL
-----------------------------------------------------------------------------
(* When the stylus modeler has no samples *)

\* The stylus modeler is empty only after it gave up tracking, which it never
\* does when it projects along the stroke normal; a Restore keeps that.
EmptyOnlyWithoutNormal(state, p) ==
  state.samples = <<>> => ~p.normalProjection

StylusInv ==
  /\ params # NoParams => ValidateStrokeModelParams(params)
  /\ stylus.params # NoParams =>
       /\ EmptyOnlyWithoutNormal(stylus.state, stylus.params)
       /\ stylus.saved # NoSave =>
            EmptyOnlyWithoutNormal(stylus.saved, stylus.params)

LEMMA TrackingFillsStylus ==
  ASSUME NEW p, NEW state \in StylusType, NEW in \in Inputs
  PROVE  EmptyOnlyWithoutNormal(TrackStylus(p, state, in), p)
<1>1. Append(state.samples, in) # <<>>
  BY DEF StylusType
<1> QED
  BY <1>1 DEF TrackStylus, EmptyOnlyWithoutNormal

LEMMA StylusUpdateTracks ==
  ASSUME TypeOK, StylusInv, NEW in \in Inputs, stylus' = StylusUpdate(in),
         params' = params
  PROVE  StylusInv'
<1>1. stylus.state \in StylusType
  BY DEF TypeOK, ModelerType
<1>2. /\ stylus'.params = stylus.params /\ stylus'.saved = stylus.saved
      /\ stylus'.state = TrackStylus(stylus.params, stylus.state, in)
  BY DEF TypeOK, ModelerType, StylusUpdate
<1> QED
  BY <1>1, <1>2, TrackingFillsStylus DEF StylusInv, EmptyOnlyWithoutNormal,
     ValidateStrokeModelParams

LEMMA NextStylus == TypeOK /\ StylusInv /\ [Next]_vars => StylusInv'
<1> SUFFICES ASSUME TypeOK, StylusInv, [Next]_vars PROVE StylusInv'
  OBVIOUS
<1>0. ASSUME UNCHANGED <<params, stylus>> PROVE StylusInv'
  BY <1>0 DEF StylusInv, ValidateStrokeModelParams, EmptyOnlyWithoutNormal
<1>1. ASSUME NEW p \in Params, ResetParams(p) PROVE StylusInv'
  BY <1>1 DEF ResetParams, StylusInv, ValidateStrokeModelParams,
     EmptyOnlyWithoutNormal
<1>2. ASSUME NEW p \in Params, RejectParams(p) PROVE StylusInv'
  BY <1>0, <1>2 DEF RejectParams, modelers
<1>3. CASE Reset
  BY <1>0, <1>3 DEF Reset, modelers
<1>4. ASSUME NEW in \in Inputs, RejectInput(in) PROVE StylusInv'
  BY <1>0, <1>4 DEF RejectInput, modelers
<1>5. ASSUME NEW in \in Inputs, ProcessDownEvent(in) PROVE StylusInv'
  <2>1. stylus' = ModelerReset(params, TrackStylus(params, NoStylus, in))
        /\ params' = params
    BY <1>5 DEF ProcessDownEvent
  <2>2. EmptyOnlyWithoutNormal(TrackStylus(params, NoStylus, in), params)
    <3>1. NoStylus \in StylusType
      BY DEF NoStylus, StylusType
    <3> QED
      BY <3>1, TrackingFillsStylus
  <2> QED
    BY <2>1, <2>2 DEF StylusInv, ModelerReset, EmptyOnlyWithoutNormal,
       ValidateStrokeModelParams
<1>6. ASSUME NEW in \in Inputs, ProcessMoveEvent(in) PROVE StylusInv'
  BY <1>6, StylusUpdateTracks DEF ProcessMoveEvent
<1>7. ASSUME NEW in \in Inputs, ProcessUpEvent(in) PROVE StylusInv'
  BY <1>0, <1>7, StylusUpdateTracks DEF ProcessUpEvent
<1>8. CASE Predict
  BY <1>0, <1>8 DEF Predict, modelers
<1>9. CASE Save
  BY <1>9 DEF Save, ModelerSave, TypeOK, ModelerType, StylusInv,
     ValidateStrokeModelParams, EmptyOnlyWithoutNormal
<1>10. CASE Restore
  <2>1. stylus' \in {stylus, ModelerRestore(stylus)} /\ params' = params
    BY <1>10 DEF Restore, modelers
  <2> QED
    BY <2>1 DEF ModelerRestore, TypeOK, ModelerType, StylusInv,
       ValidateStrokeModelParams, EmptyOnlyWithoutNormal
<1>11. CASE UNCHANGED vars
  BY <1>0, <1>11 DEF vars, modelers
<1> QED
  BY <1>1, <1>2, <1>3, <1>4, <1>5, <1>6, <1>7, <1>8, <1>9, <1>10, <1>11
  DEF Next, Update

\* No default Result of an empty stylus modeler reaches the output: parameter
\* validation forbids exactly the combination that would blend it in.
THEOREM NoDefaultBlended == Spec => []DefaultStateNeverBlended
<1>1. Init => StylusInv
  BY DEF Init, StylusInv, Unset
<1>2. ParamsInv /\ StylusInv => DefaultStateNeverBlended
  BY DEF ParamsInv, StrokeParams, StylusInv, EmptyOnlyWithoutNormal,
     ValidateStrokeModelParams, DefaultStateNeverBlended
<1> QED
  BY <1>1, <1>2, TypeCorrect, ParamsCorrect, NextStylus, PTL DEF Spec
-----------------------------------------------------------------------------
(* The sub-modelers agree about the stroke *)

LEMMA RangeAppend ==
  ASSUME NEW s \in Seq(Inputs), NEW in \in Inputs
  PROVE  Range(Append(s, in)) = Range(s) \cup {in}
<1>1. \A i \in DOMAIN s : i \in DOMAIN Append(s, in) /\ Append(s, in)[i] = s[i]
  OBVIOUS
<1>2. /\ Len(s) + 1 \in DOMAIN Append(s, in)
      /\ Append(s, in)[Len(s) + 1] = in
      /\ \A i \in DOMAIN Append(s, in) : i \in DOMAIN s \/ i = Len(s) + 1
  OBVIOUS
<1> QED
  BY <1>1, <1>2 DEF Range

LEMMA StrokeBegins ==
  ASSUME NEW in \in Inputs, in.event = "down"
  PROVE  /\ IsStroke(<<in>>) /\ Last(<<in>>) = in
         /\ Range(<<in>>) = {in} /\ Range(<<>>) = {}
BY DEF IsStroke, Last, Range

LEMMA StrokeGrows ==
  ASSUME NEW path \in Seq(Inputs), IsStroke(path), NEW in \in Inputs,
         in.event = "move", Last(path).time <= in.time
  PROVE  IsStroke(Append(path, in)) /\ Last(Append(path, in)) = in
BY DEF IsStroke, Last

\* The saved copies of the sub-modelers come and go together while a save is
\* active, and are then a stroke's as much as the live ones.
SavesAgree ==
  saveActive =>
    /\ wobble.saved # NoSave <=> position.saved # NoSave
    /\ stylus.saved # NoSave <=> position.saved # NoSave
    /\ loop.saved # NoSave <=> position.saved # NoSave

StrokeInv == StrokeCoherent /\ SavesAgree

\* Taking an input without following it, as a rejected Move does, keeps the
\* histories coherent, and following it makes it the last of the stroke.
LEMMA MoveCoherent ==
  ASSUME TypeOK, ParamsInv,
         Coherent(lastInput, wobble.state, position.state, stylus.state, loop.state),
         lastInput # NoInput, NEW in \in Inputs, in.event = "move",
         ~(in.time < lastInput.time)
  PROVE  /\ Coherent(lastInput, WobbleUpdate(in).state, position.state,
                     StylusUpdate(in).state, loop.state)
         /\ \A n : Coherent(in, WobbleUpdate(in).state, PositionUpdate(in).state,
                            StylusUpdate(in).state, LoopUpdate(in, n).state)
<1> DEFINE w == WobbleUpdate(in).state
           s == StylusUpdate(in).state
<1>1. /\ wobble.state \in Seq(Inputs) /\ position.state \in Seq(Inputs)
      /\ loop.state \in Seq(Inputs) /\ stylus.state \in StylusType
      /\ lastInput \in Inputs
  BY DEF TypeOK, ModelerType
<1>2. /\ PositionUpdate(in).state = Append(position.state, in)
      /\ s = TrackStylus(params, stylus.state, in)
      /\ w = IF params.wobbleEnabled THEN Append(wobble.state, in) ELSE wobble.state
      /\ \A n : LoopUpdate(in, n).state \in {loop.state, Append(loop.state, in)}
  BY DEF TypeOK, ModelerType, PositionUpdate, StylusUpdate, WobbleUpdate,
     LoopUpdate, ParamsInv, StrokeParams
<1>3. /\ stylus.state.unknown \cup Unknown(in) = s.unknown
      /\ params.normalProjection \/ s.unknown # Fields
           => s.samples = Append(stylus.state.samples, in)
  BY <1>2 DEF TrackStylus
<1>4. stylus.state.unknown \subseteq Fields /\ Unknown(in) \subseteq Fields
  BY <1>1 DEF StylusType, Unknown
<1>5. /\ IsStroke(position.state) /\ Last(position.state) = lastInput
      /\ params.wobbleEnabled => Range(position.state) \subseteq Range(wobble.state)
      /\ \A x \in Range(position.state) : Unknown(x) \subseteq stylus.state.unknown
      /\ params.normalProjection \/ stylus.state.unknown # Fields
           => Range(position.state) \subseteq Range(stylus.state.samples)
      /\ Range(loop.state) \subseteq Range(position.state)
  BY DEF Coherent
<1>6. IsStroke(Append(position.state, in)) /\ Last(Append(position.state, in)) = in
  <2>1. Last(position.state).time <= in.time
    BY <1>1, <1>5, InputsAssumption DEF IsInput
  <2> QED
    BY <1>1, <1>5, <2>1, StrokeGrows
<1>7. Range(Append(position.state, in)) = Range(position.state) \cup {in}
  BY <1>1, RangeAppend
<1>8. params.wobbleEnabled => Range(w) = Range(wobble.state) \cup {in}
  BY <1>1, <1>2, RangeAppend
<1>9. params.normalProjection \/ s.unknown # Fields =>
        /\ Range(s.samples) = Range(stylus.state.samples) \cup {in}
        /\ params.normalProjection \/ stylus.state.unknown # Fields
  <2>1. stylus.state.samples \in Seq(Inputs)
    BY <1>1 DEF StylusType
  <2>2. s.unknown # Fields => stylus.state.unknown # Fields
    BY <1>3, <1>4
  <2>3. Range(Append(stylus.state.samples, in)) = Range(stylus.state.samples) \cup {in}
    BY <2>1, RangeAppend
  <2> HIDE DEF s
  <2> QED
    BY <1>3, <2>2, <2>3
<1>10. \A n : Range(LoopUpdate(in, n).state) \subseteq Range(loop.state) \cup {in}
  <2>1. Range(Append(loop.state, in)) = Range(loop.state) \cup {in}
    BY <1>1, RangeAppend
  <2> QED
    BY <1>2, <2>1
<1>11. Coherent(lastInput, w, position.state, s, loop.state)
  BY <1>3, <1>5, <1>8, <1>9 DEF Coherent
<1>12. ASSUME NEW n
       PROVE  Coherent(in, w, PositionUpdate(in).state, s, LoopUpdate(in, n).state)
  BY <1>2, <1>3, <1>5, <1>6, <1>7, <1>8, <1>9, <1>10 DEF Coherent
<1> QED
  BY <1>11, <1>12

LEMMA DownCoherent ==
  ASSUME NEW in \in Inputs, in.event = "down"
  PROVE  Coherent(in, <<in>>, <<in>>, TrackStylus(params, NoStylus, in), <<>>)
<1> DEFINE s == TrackStylus(params, NoStylus, in)
<1>1. /\ s.unknown = Unknown(in)
      /\ params.normalProjection \/ s.unknown # Fields => s.samples = <<in>>
  <2>1. Append(<<>>, in) = <<in>>
    OBVIOUS
  <2>2. NoStylus.unknown = {} /\ NoStylus.samples = <<>>
    BY DEF NoStylus
  <2> QED
    BY <2>1, <2>2 DEF TrackStylus
<1> QED
  BY <1>1, StrokeBegins DEF Coherent
\* A step that keeps params, the live histories and the saved copies.
LEMMA SameStroke ==
  ASSUME StrokeInv, UNCHANGED <<params, modelers, lastInput, savedVars>>
  PROVE  StrokeInv'
BY DEF StrokeInv, StrokeCoherent, SavesAgree, Coherent, IsStroke, modelers, savedVars

\* A step that leaves the saved copies alone and the live histories coherent.
LEMMA SaveKept ==
  ASSUME StrokeInv, UNCHANGED <<params, savedLastInput, saveActive>>,
         wobble'.saved = wobble.saved, position'.saved = position.saved,
         stylus'.saved = stylus.saved, loop'.saved = loop.saved,
         Coherent(lastInput, wobble.state, position.state, stylus.state,
                  loop.state)'
  PROVE  StrokeInv'
BY DEF StrokeInv, StrokeCoherent, SavesAgree, Coherent

LEMMA UpdatesKeepSaved ==
  ASSUME TypeOK, NEW in
  PROVE  /\ WobbleUpdate(in).saved = wobble.saved
         /\ PositionUpdate(in).saved = position.saved
         /\ StylusUpdate(in).saved = stylus.saved
         /\ \A n : LoopUpdate(in, n).saved = loop.saved
BY DEF TypeOK, ModelerType, WobbleUpdate, PositionUpdate, StylusUpdate, LoopUpdate

\* Without a stroke there is nothing to agree about.
LEMMA NoStrokeCoherent ==
  ASSUME NEW w, NEW q, NEW s, NEW l
  PROVE  Coherent(NoInput, w, q, s, l)
BY DEF Coherent

LEMMA NextStroke ==
  ASSUME RestoreOnlyInSavedStroke
  PROVE  TypeOK /\ ParamsInv /\ StrokeInv /\ [Next]_vars => StrokeInv'
<1> SUFFICES ASSUME TypeOK, ParamsInv, StrokeInv, [Next]_vars PROVE StrokeInv'
  OBVIOUS
<1>1. ASSUME NEW p \in Params, ResetParams(p) PROVE StrokeInv'
  BY <1>1 DEF ResetParams, ResetInternal, StrokeInv, StrokeCoherent,
     SavesAgree, Coherent
<1>2. ASSUME NEW p \in Params, RejectParams(p) PROVE StrokeInv'
  BY <1>2, SameStroke DEF RejectParams
<1>3. CASE Reset
  <2>1. CASE lastInput' = NoInput /\ saveActive' = FALSE
    BY <2>1 DEF StrokeInv, StrokeCoherent, SavesAgree, Coherent
  <2>2. CASE UNCHANGED <<lastInput, saveActive>>
    BY <1>3, <2>2, SameStroke DEF Reset, savedVars
  <2> QED
    BY <1>3, <2>1, <2>2 DEF Reset, ResetInternal
<1>4. ASSUME NEW in \in Inputs, RejectInput(in) PROVE StrokeInv'
  BY <1>4, SameStroke DEF RejectInput
<1>5. ASSUME NEW in \in Inputs, ProcessDownEvent(in) PROVE StrokeInv'
  <2>1. /\ wobble' = ModelerReset(params, <<in>>)
        /\ position' = ModelerReset(params, <<in>>)
        /\ stylus' = ModelerReset(params, TrackStylus(params, NoStylus, in))
        /\ loop' = ModelerReset(params, <<>>)
        /\ lastInput' = in /\ params' = params /\ in.event = "down"
    BY <1>5 DEF ProcessDownEvent
  <2>2. Coherent(lastInput, wobble.state, position.state, stylus.state,
                 loop.state)'
    BY <2>1, DownCoherent DEF ModelerReset, Coherent
  <2>3. /\ wobble'.saved = NoSave /\ position'.saved = NoSave
        /\ stylus'.saved = NoSave /\ loop'.saved = NoSave
    BY <2>1 DEF ModelerReset
  <2> QED
    BY <2>2, <2>3 DEF StrokeInv, StrokeCoherent, SavesAgree
<1>6. ASSUME NEW in \in Inputs, ProcessMoveEvent(in) PROVE StrokeInv'
  <2>1. /\ lastInput # NoInput /\ in.event = "move"
        /\ ~(in.time < lastInput.time)
        /\ wobble' = WobbleUpdate(in) /\ stylus' = StylusUpdate(in)
        /\ UNCHANGED <<params, savedLastInput, saveActive>>
    BY <1>6, UpdateStatusOk DEF ProcessMoveEvent, savedVars
  <2>2. CASE UNCHANGED <<position, loop, lastInput>>
    <3>1. Coherent(lastInput, wobble.state, position.state, stylus.state,
                   loop.state)'
      BY <2>1, <2>2, MoveCoherent DEF StrokeInv, StrokeCoherent, Coherent
    <3> QED
      BY <2>1, <2>2, <3>1, SaveKept, UpdatesKeepSaved
  <2>3. ASSUME NEW n, position' = PositionUpdate(in), lastInput' = in,
               loop' = LoopUpdate(in, n)
        PROVE  StrokeInv'
    <3>1. Coherent(lastInput, wobble.state, position.state, stylus.state,
                   loop.state)'
      BY <2>1, <2>3, MoveCoherent DEF StrokeInv, StrokeCoherent, Coherent
    <3> QED
      BY <2>1, <2>3, <3>1, SaveKept, UpdatesKeepSaved
  <2> QED
    BY <1>6, <2>2, <2>3 DEF ProcessMoveEvent
<1>7. ASSUME NEW in \in Inputs, ProcessUpEvent(in) PROVE StrokeInv'
  <2>1. UNCHANGED <<params, wobble, savedVars>>
    BY <1>7 DEF ProcessUpEvent
  <2>2. CASE UNCHANGED <<stylus, position, loop, lastInput>>
    BY <2>1, <2>2, SameStroke DEF modelers
  <2>3. ASSUME NEW results, position' = PositionUpdate(in),
               stylus' = StylusUpdate(in), loop' = LoopUpdate(in, results),
               lastInput' = NoInput
        PROVE  StrokeInv'
    <3>1. Coherent(lastInput, wobble.state, position.state, stylus.state,
                   loop.state)'
      BY <2>3 DEF Coherent
    <3> QED
      BY <2>1, <2>3, <3>1, SaveKept, UpdatesKeepSaved DEF savedVars
  <2> QED
    BY <1>7, <2>2, <2>3 DEF ProcessUpEvent
<1>8. CASE Predict
  BY <1>8, SameStroke DEF Predict
<1>9. CASE Save
  <2>1. /\ wobble' = ModelerSave(wobble) /\ position' = ModelerSave(position)
        /\ stylus' = ModelerSave(stylus) /\ loop' = ModelerSave(loop)
        /\ savedLastInput' = lastInput /\ UNCHANGED <<params, lastInput>>
    BY <1>9 DEF Save
  <2>2. /\ wobble'.state = wobble.state /\ wobble'.saved = wobble.state
        /\ position'.state = position.state /\ position'.saved = position.state
        /\ stylus'.state = stylus.state /\ stylus'.saved = stylus.state
        /\ loop'.state = loop.state /\ loop'.saved = loop.state
    BY <2>1 DEF ModelerSave, TypeOK, ModelerType
  <2>3. /\ wobble.state # NoSave /\ position.state # NoSave
        /\ stylus.state # NoSave /\ loop.state # NoSave
    BY NoSaveAssumption DEF TypeOK, ModelerType
  <2> QED
    BY <2>1, <2>2, <2>3 DEF StrokeInv, StrokeCoherent, SavesAgree, Coherent
<1>10. CASE Restore
  <2>1. UNCHANGED <<params, savedVars>>
    BY <1>10 DEF Restore
  <2>2. CASE ~saveActive /\ UNCHANGED <<modelers, lastInput, predictor>>
    BY <2>1, <2>2, SameStroke
  <2>3. CASE /\ saveActive
             /\ wobble' = ModelerRestore(wobble)
             /\ position' = ModelerRestore(position)
             /\ stylus' = ModelerRestore(stylus)
             /\ loop' = ModelerRestore(loop)
             /\ lastInput' = savedLastInput
    <3>1. position.saved # NoSave
      BY <1>10, <2>3 DEF Restore
    <3>2. /\ wobble.saved # NoSave /\ stylus.saved # NoSave /\ loop.saved # NoSave
      BY <2>3, <3>1 DEF StrokeInv, SavesAgree
    <3>3. /\ wobble'.state = wobble.saved /\ wobble'.saved = wobble.saved
          /\ position'.state = position.saved /\ position'.saved = position.saved
          /\ stylus'.state = stylus.saved /\ stylus'.saved = stylus.saved
          /\ loop'.state = loop.saved /\ loop'.saved = loop.saved
      BY <2>3, <3>1, <3>2 DEF ModelerRestore, TypeOK, ModelerType
    <3> QED
      BY <2>1, <2>3, <3>1, <3>3
      DEF StrokeInv, StrokeCoherent, SavesAgree, Coherent, savedVars
  <2> QED
    BY <1>10, <2>2, <2>3 DEF Restore
<1>11. CASE UNCHANGED vars
  BY <1>11, SameStroke DEF vars
<1> QED
  BY <1>1, <1>2, <1>3, <1>4, <1>5, <1>6, <1>7, <1>8, <1>9, <1>10, <1>11
  DEF Next, Update

LEMMA StrokeCorrect ==
  ASSUME RestoreOnlyInSavedStroke
  PROVE  Spec => []StrokeInv
<1>1. Init => StrokeInv
  BY DEF Init, StrokeInv, StrokeCoherent, SavesAgree, Coherent
<1>2. TypeOK /\ ParamsInv /\ StrokeInv /\ [Next]_vars => StrokeInv'
  BY NextStroke
<1> QED
  BY <1>1, <1>2, TypeCorrect, ParamsCorrect, PTL DEF Spec

\* If the client restores only strokes it saved, the copies of the stroke in
\* the sub-modelers agree after any sequence of calls, and so do the saved ones.
THEOREM Coherence ==
  ASSUME RestoreOnlyInSavedStroke
  PROVE  Spec => []StrokeCoherent
<1>1. StrokeInv => StrokeCoherent
  BY DEF StrokeInv
<1>2. Spec => []StrokeInv
  BY StrokeCorrect
<1> QED
  BY <1>1, <1>2, PTL
-----------------------------------------------------------------------------
(* The predictor follows the stroke *)

\* A predictor and a saved one exist together, are made from the current
\* parameters, and have received the inputs of the stroke they belong to.
PredictorInv ==
  /\ PredictorFollowsStroke
  /\ predictor # NoPredictor => predictor.params = params
  /\ saveActive /\ savedPredictor # NoPredictor => savedPredictor.params = params
  /\ predictor = NoPredictor => savedPredictor = NoPredictor
  /\ saveActive /\ savedPredictor = NoPredictor => predictor = NoPredictor
  /\ predictor # NoPredictor \/ savedPredictor # NoPredictor =>
       \A p \in Params : p.prediction # "disabled"
  /\ saveActive /\ position.saved # NoSave /\ savedLastInput # NoInput
       /\ savedPredictor # NoPredictor
       => savedPredictor.samples = position.saved

LEMMA NextPredictor ==
  ASSUME RestoreOnlyInSavedStroke, PredictionNeverToggled
  PROVE  TypeOK /\ ParamsInv /\ PredictorInv /\ [Next]_vars => PredictorInv'
<1> SUFFICES ASSUME TypeOK, ParamsInv, PredictorInv, [Next]_vars
             PROVE  PredictorInv'
  OBVIOUS
<1>0. ASSUME UNCHANGED <<params, predictor, position, lastInput, savedVars>>
      PROVE  PredictorInv'
  BY <1>0 DEF PredictorInv, PredictorFollowsStroke, savedVars
<1>1. ASSUME NEW p \in Params, ResetParams(p) PROVE PredictorInv'
  <2>1. /\ lastInput' = NoInput /\ saveActive' = FALSE /\ params' = p
        /\ predictor' = MakePredictor(p) /\ savedPredictor' = savedPredictor
    BY <1>1 DEF ResetParams, ResetInternal
  <2>2. /\ p.prediction = "disabled" => predictor' = NoPredictor
        /\ p.prediction # "disabled" => /\ predictor' \in PredictorRecord
                                        /\ predictor'.params = p
    <3>1. <<>> \in Seq(Inputs)
      OBVIOUS
    <3> QED
      BY <2>1, <3>1 DEF MakePredictor, PredictorRecord
  <2> QED
    BY <2>1, <2>2, NoPredictorAssumption
    DEF PredictionNeverToggled, PredictorInv, PredictorFollowsStroke
<1>2. ASSUME NEW p \in Params, RejectParams(p) PROVE PredictorInv'
  BY <1>0, <1>2 DEF RejectParams, modelers
<1>3. CASE Reset
  <2>1. CASE lastInput' = NoInput /\ saveActive' = FALSE
    BY <1>3, <2>1 DEF Reset, PredictorInv, PredictorFollowsStroke
  <2>2. CASE UNCHANGED <<lastInput, saveActive>>
    BY <1>0, <1>3, <2>2 DEF Reset, modelers, savedVars
  <2> QED
    BY <1>3, <2>1, <2>2 DEF Reset, ResetInternal
<1>4. ASSUME NEW in \in Inputs, RejectInput(in) PROVE PredictorInv'
  BY <1>0, <1>4 DEF RejectInput, modelers
<1>5. ASSUME NEW in \in Inputs, ProcessDownEvent(in) PROVE PredictorInv'
  <2>1. /\ position' = ModelerReset(params, <<in>>)
        /\ UNCHANGED <<params, savedVars>>
        /\ predictor' = IF predictor = NoPredictor THEN NoPredictor
                        ELSE [predictor EXCEPT !.samples = <<in>>]
    BY <1>5 DEF ProcessDownEvent
  <2>2. position'.state = <<in>> /\ position'.saved = NoSave
    BY <2>1 DEF ModelerReset
  <2>3. CASE predictor = NoPredictor
    BY <2>1, <2>2, <2>3 DEF PredictorInv, PredictorFollowsStroke, savedVars
  <2>4. CASE predictor # NoPredictor
    <3>1. predictor \in PredictorRecord /\ <<in>> \in Seq(Inputs)
      BY <2>4 DEF TypeOK, PredictorType
    <3>2. /\ predictor' \in PredictorRecord
          /\ predictor'.samples = <<in>> /\ predictor'.params = predictor.params
      BY <2>1, <2>4, <3>1 DEF PredictorRecord
    <3> QED
      BY <2>1, <2>2, <2>4, <3>2, NoPredictorAssumption
      DEF PredictorInv, PredictorFollowsStroke, savedVars
  <2> QED
    BY <2>3, <2>4
<1>6. ASSUME NEW in \in Inputs, ProcessMoveEvent(in) PROVE PredictorInv'
  <2>1. lastInput # NoInput /\ UNCHANGED <<params, savedVars>>
    BY <1>6, UpdateStatusOk DEF ProcessMoveEvent
  <2>2. CASE UNCHANGED <<position, loop, predictor, lastInput>>
    BY <1>0, <2>1, <2>2
  <2>3. ASSUME NEW n, position' = PositionUpdate(in), lastInput' = in,
               predictor' = PredictorUpdate(in)
        PROVE  PredictorInv'
    <3>1. /\ position'.state = Append(position.state, in)
          /\ position'.saved = position.saved
      BY <2>3 DEF PositionUpdate, TypeOK, ModelerType
    <3>2. CASE predictor = NoPredictor
      BY <2>1, <2>3, <3>1, <3>2
      DEF PredictorUpdate, PredictorInv, PredictorFollowsStroke, savedVars
    <3>3. CASE predictor # NoPredictor
      <4>1. predictor \in PredictorRecord
        BY <3>3 DEF TypeOK, PredictorType
      <4>2. /\ predictor' \in PredictorRecord
            /\ predictor'.samples = Append(predictor.samples, in)
            /\ predictor'.params = predictor.params
        <5>1. predictor' = [predictor EXCEPT !.samples = Append(predictor.samples, in)]
          BY <2>3, <3>3 DEF PredictorUpdate
        <5>2. Append(predictor.samples, in) \in Seq(Inputs)
          BY <4>1 DEF PredictorRecord
        <5> QED
          BY <4>1, <5>1, <5>2 DEF PredictorRecord
      <4>3. predictor # NoPredictor /\ predictor' # NoPredictor
        BY <3>3, <4>2, NoPredictorAssumption
      <4>4. PredictorFollowsStroke'
        BY <2>1, <3>1, <3>3, <4>2 DEF PredictorInv, PredictorFollowsStroke
      <4>5. /\ params' = params /\ savedPredictor' = savedPredictor
            /\ saveActive' = saveActive /\ savedLastInput' = savedLastInput
        BY <2>1 DEF savedVars
      <4> QED
        BY <3>1, <4>2, <4>3, <4>4, <4>5 DEF PredictorInv
    <3> QED
      BY <3>2, <3>3
  <2> QED
    BY <1>6, <2>2, <2>3 DEF ProcessMoveEvent
<1>7. ASSUME NEW in \in Inputs, ProcessUpEvent(in) PROVE PredictorInv'
  <2>1. UNCHANGED <<params, predictor, savedVars>>
    BY <1>7 DEF ProcessUpEvent
  <2>2. CASE UNCHANGED <<stylus, position, loop, lastInput>>
    BY <1>0, <2>1, <2>2
  <2>3. CASE position' = PositionUpdate(in) /\ lastInput' = NoInput
    <3>1. position'.saved = position.saved
      BY <2>3 DEF PositionUpdate, TypeOK, ModelerType
    <3> QED
      BY <2>1, <2>3, <3>1 DEF PredictorInv, PredictorFollowsStroke, savedVars
  <2> QED
    BY <1>7, <2>2, <2>3 DEF ProcessUpEvent
<1>8. CASE Predict
  BY <1>0, <1>8 DEF Predict, modelers
<1>9. CASE Save
  <2>1. /\ position' = ModelerSave(position) /\ savedLastInput' = lastInput
        /\ savedPredictor' = IF predictor # NoPredictor THEN predictor
                             ELSE savedPredictor
        /\ UNCHANGED <<params, predictor, lastInput>>
    BY <1>9 DEF Save
  <2>2. position'.saved = position.state /\ position'.state = position.state
    BY <2>1 DEF ModelerSave, TypeOK, ModelerType
  <2> QED
    BY <2>1, <2>2 DEF PredictorInv, PredictorFollowsStroke
<1>10. CASE Restore
  <2>1. UNCHANGED <<params, savedVars>>
    BY <1>10 DEF Restore
  <2>2. CASE ~saveActive /\ UNCHANGED <<modelers, lastInput, predictor>>
    BY <1>0, <2>1, <2>2 DEF modelers
  <2>3. CASE /\ saveActive
             /\ position' = ModelerRestore(position)
             /\ lastInput' = savedLastInput
             /\ predictor' = RestoredPredictor
    <3>1. position.saved # NoSave
      BY <1>10, <2>3 DEF Restore
    <3>2. position'.state = position.saved /\ position'.saved = position.saved
      BY <2>3, <3>1 DEF ModelerRestore, TypeOK, ModelerType
    <3> QED
      BY <2>1, <2>3, <3>1, <3>2
      DEF RestoredPredictor, PredictorInv, PredictorFollowsStroke, savedVars
  <2> QED
    BY <1>10, <2>2, <2>3 DEF Restore
<1>11. CASE UNCHANGED vars
  BY <1>0, <1>11 DEF vars, modelers
<1> QED
  BY <1>1, <1>2, <1>3, <1>4, <1>5, <1>6, <1>7, <1>8, <1>9, <1>10, <1>11
  DEF Next, Update

\* If the client also never toggles prediction, the predictor has received
\* exactly the inputs of the stroke in progress, with the current parameters.
THEOREM PredictorCoherence ==
  ASSUME RestoreOnlyInSavedStroke, PredictionNeverToggled
  PROVE  Spec => []PredictorFollowsStroke
<1>1. Init => PredictorInv
  BY DEF Init, PredictorInv, PredictorFollowsStroke
<1>2. TypeOK /\ ParamsInv /\ PredictorInv /\ [Next]_vars => PredictorInv'
  BY NextPredictor
<1>3. PredictorInv => PredictorFollowsStroke
  BY DEF PredictorInv
<1> QED
  BY <1>1, <1>2, <1>3, TypeCorrect, ParamsCorrect, PTL DEF Spec
-----------------------------------------------------------------------------
(* StrokeModeler implements StrokeSession *)

\* What the client sees does not depend on the other variables.
LEMMA SameView ==
  ASSUME UNCHANGED <<params, position, lastInput, savedLastInput, saveActive>>
  PROVE  UNCHANGED Session!vars
BY DEF Session!vars, CurrentStroke, SavedStroke

\* A stroke in progress is what the position modeler has followed.
LEMMA StrokeInProgress ==
  ASSUME TypeOK, StrokeInv, lastInput # NoInput
  PROVE  /\ CurrentStroke = position.state /\ CurrentStroke # <<>>
         /\ Session!Last(CurrentStroke) = lastInput
BY DEF StrokeInv, StrokeCoherent, Coherent, IsStroke, CurrentStroke, Last,
   Session!Last

LEMMA NextSession ==
  ASSUME RestoreOnlyInSavedStroke
  PROVE  TypeOK /\ ParamsInv /\ StrokeInv /\ [Next]_vars
           => [Session!Next]_(Session!vars)
<1> SUFFICES ASSUME TypeOK, ParamsInv, StrokeInv, [Next]_vars
             PROVE  [Session!Next]_(Session!vars)
  OBVIOUS
<1>1. ASSUME NEW p \in Params, ResetParams(p) PROVE Session!Configure
  BY <1>1, ParamsAssumption
  DEF ResetParams, ResetInternal, Session!Configure, CurrentStroke, SavedStroke
<1>2. ASSUME NEW p \in Params, RejectParams(p) PROVE UNCHANGED Session!vars
  BY <1>2, SameView DEF RejectParams, modelers, savedVars
<1>3. ASSUME Reset PROVE Session!Configure \/ UNCHANGED Session!vars
  <2>1. CASE params # NoParams /\ ResetInternal
    BY <1>3, <2>1
    DEF Reset, ResetInternal, Session!Configure, CurrentStroke, SavedStroke
  <2>2. CASE UNCHANGED <<lastInput, saveActive>>
    BY <1>3, <2>2, SameView DEF Reset, modelers
  <2> QED
    BY <1>3, <2>1, <2>2 DEF Reset
<1>4. ASSUME NEW in \in Inputs, RejectInput(in) PROVE UNCHANGED Session!vars
  BY <1>4, SameView DEF RejectInput, modelers, savedVars
<1>5. ASSUME NEW in \in Inputs, ProcessDownEvent(in) PROVE Session!Begin(in)
  <2>1. /\ lastInput = NoInput /\ params # NoParams /\ in.event = "down"
        /\ position' = ModelerReset(params, <<in>>)
        /\ lastInput' = in /\ params' = params
    BY <1>5, UpdateStatusOk DEF ProcessDownEvent
  <2>2. position'.state = <<in>> /\ position'.saved = NoSave /\ in # NoInput
    BY <2>1, InputsAssumption DEF ModelerReset
  <2> QED
    BY <2>1, <2>2 DEF Session!Begin, CurrentStroke, SavedStroke
<1>6. ASSUME NEW in \in Inputs, ProcessMoveEvent(in)
      PROVE  Session!Extend(in) \/ UNCHANGED Session!vars
  <2>1. /\ lastInput # NoInput /\ in.event = "move" /\ ~(in.time < lastInput.time)
        /\ UNCHANGED <<params, savedVars>>
    BY <1>6, UpdateStatusOk DEF ProcessMoveEvent
  <2>2. CASE UNCHANGED <<position, loop, predictor, lastInput>>
    BY <2>1, <2>2, SameView DEF savedVars
  <2>3. CASE position' = PositionUpdate(in) /\ lastInput' = in
    <3>1. /\ position'.state = Append(position.state, in)
          /\ position'.saved = position.saved /\ in # NoInput
      BY <2>3, InputsAssumption DEF PositionUpdate, TypeOK, ModelerType
    <3>2. in.time >= lastInput.time
      BY <2>1, InputsAssumption DEF TypeOK, IsInput
    <3> QED
      BY <2>1, <2>3, <3>1, <3>2, StrokeInProgress
      DEF Session!Extend, CurrentStroke, SavedStroke, savedVars
  <2> QED
    BY <1>6, <2>2, <2>3 DEF ProcessMoveEvent
<1>7. ASSUME NEW in \in Inputs, ProcessUpEvent(in)
      PROVE  Session!Finish(in) \/ UNCHANGED Session!vars
  <2>1. /\ lastInput # NoInput /\ in.event = "up" /\ ~(in.time < lastInput.time)
        /\ UNCHANGED <<params, savedVars>>
    BY <1>7, UpdateStatusOk DEF ProcessUpEvent
  <2>2. CASE UNCHANGED <<stylus, position, loop, lastInput>>
    BY <2>1, <2>2, SameView DEF savedVars
  <2>3. CASE position' = PositionUpdate(in) /\ lastInput' = NoInput
    <3>1. position'.saved = position.saved
      BY <2>3 DEF PositionUpdate, TypeOK, ModelerType
    <3>2. in.time >= lastInput.time
      BY <2>1, InputsAssumption DEF TypeOK, IsInput
    <3> QED
      BY <2>1, <2>3, <3>1, <3>2, StrokeInProgress
      DEF Session!Finish, CurrentStroke, SavedStroke, savedVars
  <2> QED
    BY <1>7, <2>2, <2>3 DEF ProcessUpEvent
<1>8. ASSUME Predict PROVE UNCHANGED Session!vars
  BY <1>8, SameView DEF Predict, modelers, savedVars
<1>9. ASSUME Save PROVE Session!Save
  <2>1. /\ position' = ModelerSave(position) /\ savedLastInput' = lastInput
        /\ saveActive' = TRUE /\ UNCHANGED <<params, lastInput>>
    BY <1>9 DEF Save
  <2>2. /\ position'.saved = position.state /\ position'.state = position.state
        /\ position.state # NoSave
    BY <2>1, NoSaveAssumption DEF ModelerSave, TypeOK, ModelerType
  <2> QED
    BY <2>1, <2>2 DEF Session!Save, CurrentStroke, SavedStroke
<1>10. ASSUME Restore PROVE Session!Restore \/ UNCHANGED Session!vars
  <2>1. UNCHANGED <<params, savedVars>>
    BY <1>10 DEF Restore
  <2>2. CASE ~saveActive /\ UNCHANGED <<modelers, lastInput, predictor>>
    BY <2>1, <2>2, SameView DEF modelers, savedVars
  <2>3. CASE /\ saveActive /\ position' = ModelerRestore(position)
             /\ lastInput' = savedLastInput
    <3>1. position.saved # NoSave
      BY <1>10, <2>3 DEF Restore
    <3>2. position'.state = position.saved /\ position'.saved = position.saved
      BY <2>3, <3>1 DEF ModelerRestore, TypeOK, ModelerType
    <3>3. <<>> # NoSave
      <4>1. <<>> \in Seq(Inputs)
        OBVIOUS
      <4> QED
        BY <4>1, NoSaveAssumption
    <3> QED
      BY <2>1, <2>3, <3>1, <3>2, <3>3
      DEF Session!Restore, CurrentStroke, SavedStroke, savedVars
  <2> QED
    BY <1>10, <2>2, <2>3 DEF Restore
<1>11. CASE UNCHANGED vars
  BY <1>11, SameView DEF vars, modelers, savedVars
<1> QED
  BY <1>1, <1>2, <1>3, <1>4, <1>5, <1>6, <1>7, <1>8, <1>9, <1>10, <1>11
  DEF Next, Update, Session!Next

\* If the client restores only strokes it saved, every call does to the stroke
\* what stroke_modeler.h promises, or nothing.
THEOREM Refinement ==
  ASSUME RestoreOnlyInSavedStroke
  PROVE  Spec => SessionSpec
<1>1. Init => Session!Init
  BY DEF Init, Session!Init, CurrentStroke, SavedStroke
<1>2. TypeOK /\ ParamsInv /\ StrokeInv /\ [Next]_vars
        => [Session!Next]_(Session!vars)
  BY NextSession
<1>3. Spec => []StrokeInv
  BY StrokeCorrect
<1> QED
  BY <1>1, <1>2, <1>3, TypeCorrect, ParamsCorrect, PTL
  DEF Spec, SessionSpec, Session!Spec
=============================================================================
