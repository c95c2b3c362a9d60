---------------------------- MODULE StrokeModeler ----------------------------
(***************************************************************************)
(* The StrokeModeler facade (stroke_modeler.cc) and its composition of the *)
(* wobble smoother, position modeler, stylus state modeler, loop           *)
(* contraction mitigation modeler and predictor.                           *)
(*                                                                         *)
(* A sub-modeler is modelled by its history: the sequence of the calls it  *)
(* received since its Reset, each named by the raw input it was made for.  *)
(* What the sub-modeler really keeps (a window of samples, running sums, a *)
(* tip state, a filter) is a function of that history, so two components   *)
(* agree about the stroke exactly when their histories do.  Numbers that   *)
(* depend on positions (how many steps an angle limit asks for, whether an *)
(* estimate overflows, how many end-of-stroke iterations produce a state)  *)
(* are choices over what the parameters allow.                             *)
(***************************************************************************)
EXTENDS Integers, Sequences, FiniteSets, SequencesExt

CONSTANTS
  Params,          \* StrokeModelParams the client may pass to Reset
  Inputs,          \* Inputs the client may pass to Update
  NonFinite,       \* positions with an infinite or NaN coordinate
  FarPositions,    \* positions so large that a step estimate may overflow
  NoParams,        \* std::nullopt for stroke_model_params_
  NoInput,         \* std::nullopt for last_input_
  NoPredictor,     \* nullptr for predictor_
  NoSave,          \* no saved copy since the last Reset
  MaxCalls,        \* bound: calls in the history of a stroke
  PredictionCap,   \* bound: states of a Kalman prediction
  RestoreOnlyInSavedStroke  \* the client calls Restore only when a Save
                            \* was made in the current stroke

Events == {"down", "move", "up"}
Fields == {"pressure", "tilt", "orientation"}
Predictions == {"strokeEnd", "kalman", "disabled"}

\* The fields of StrokeModelParams that the facade's control depends on.
\* inRange: every field-level check of params.cc passes.  outputInterval is
\* 1 / min_output_rate in ticks; angleSteps is the most steps the angle limit
\* can ask for, 0 when it is -1 (off).
ParamsType ==
  [prediction : Predictions, wobbleEnabled : BOOLEAN, loopEnabled : BOOLEAN,
   normalProjection : BOOLEAN, inRange : BOOLEAN,
   outputInterval : Nat \ {0}, maxOutputs : Nat \ {0}, angleSteps : Nat,
   endIterations : Nat \ {0}, minStable : Nat \ {0}]

IsInput(in) ==
  /\ in.event \in Events
  /\ in.time \in Nat
  /\ in.stylus \in [Fields -> {"known", "negative", "nan"}]

\* What the stylus modeler tracks: the fields that were ever unknown, and the
\* inputs in its deque.
StylusType == [unknown : SUBSET Fields, samples : Seq(Inputs)]

\* A predictor: what it was made with, and the inputs since its Reset.
PredictorRecord == [params : Params, samples : Seq(Inputs)]

PredictorType == PredictorRecord \cup {NoPredictor}

ASSUME ParamsAssumption == Params \subseteq ParamsType /\ NoParams \notin Params
ASSUME InputsAssumption == (\A in \in Inputs : IsInput(in)) /\ NoInput \notin Inputs
ASSUME NoSaveAssumption == NoSave \notin Seq(Inputs) \cup StylusType
ASSUME NoPredictorAssumption == NoPredictor \notin PredictorRecord
ASSUME DisciplineAssumption == RestoreOnlyInSavedStroke \in BOOLEAN
ASSUME BoundsAssumption == MaxCalls \in Nat /\ PredictionCap \in Nat

VARIABLES
  params,          \* stroke_model_params_
  predictor,       \* predictor_: [params, samples] or NoPredictor
  wobble,          \* wobble_smoother_
  position,        \* position_modeler_
  stylus,          \* stylus_state_modeler_
  loop,            \* loop_contraction_mitigation_modeler_
  lastInput,       \* last_input_
  savedLastInput,  \* saved_last_input_
  savedPredictor,  \* saved_predictor_
  saveActive,      \* save_active_
  ret              \* the last call, its status, how many Results it gave,
                   \* and the prev_time it passed to ModelStylus

modelers == <<wobble, position, stylus, loop>>
savedVars == <<savedLastInput, savedPredictor, saveActive>>
vars == <<params, predictor, modelers, lastInput, savedVars, ret>>

-----------------------------------------------------------------------------
(* Values: validation, equality and step counts *)

\* Mutant: the cross-field check is missing.
ValidWithoutCrossCheck(p) == p.inRange

\* Loop contraction mitigation blends towards the projected raw input, so it
\* needs the projection along the stroke normal.
ValidateStrokeModelParams(p) == p.inRange /\ (p.loopEnabled => p.normalProjection)

ValidateInput(in) == in.position \notin NonFinite

\* Float equality: an input with a NaN field equals nothing, not even itself.
SameInput(a, b) == a = b /\ \A f \in Fields : a.stylus[f] # "nan"

Unknown(in) == {f \in Fields : in.stylus[f] # "known"}

\* Mutant: one step too few.
StepsForgotten(a, b) == (a - 1) \div b

CeilDiv(a, b) == (a + b - 1) \div b

\* NumberOfStepsBetweenInputs: the steps min_output_rate asks for, or more
\* when the angle limit (which depends on the tip's velocity) asks for more.
StepCounts(from, to) ==
  LET base == CeilDiv(to.time - from.time, params.outputInterval)
  IN  base .. (IF params.angleSteps > base THEN params.angleSteps ELSE base)

\* The estimate of the traversed angle is not finite.  A sample that was only
\* smoothed counts: it moves the corrected positions the tip was pulled to.
MayOverflow(to) ==
  \E in \in Range(position.state) \cup Range(wobble.state) \cup {to} :
     in.position \in FarPositions

StepsMayFail(from, to) ==
  \/ MayOverflow(to)
  \/ \E n \in StepCounts(from, to) : n > params.maxOutputs

StepsFor(from, to) == {n \in StepCounts(from, to) : n <= params.maxOutputs}
-----------------------------------------------------------------------------
(* The sub-modelers: params_, the history since Reset, and the saved copy *)

\* The state and save_active_ flag of each one stand for an optional (their
\* headers say so), which is what saved is here.
Unset(state) == [params |-> NoParams, state |-> state, saved |-> NoSave]

NoStylus == [unknown |-> {}, samples |-> <<>>]

ModelerReset(p, state) == [params |-> p, state |-> state, saved |-> NoSave]

ModelerSave(m) == [m EXCEPT !.saved = m.state]

ModelerRestore(m) == IF m.saved # NoSave THEN [m EXCEPT !.state = m.saved] ELSE m

WobbleUpdate(in) ==
  IF wobble.params.wobbleEnabled
  THEN [wobble EXCEPT !.state = Append(@, in)]
  ELSE wobble

PositionUpdate(in) == [position EXCEPT !.state = Append(@, in)]

\* Mutant: a field is known again as soon as one input has it.
ForgetUnknown(p, state, in) ==
  [unknown |-> Unknown(in),
   samples |-> IF ~p.normalProjection /\ Unknown(in) = Fields
               THEN <<>> ELSE Append(state.samples, in)]

\* Unknown fields stick.  Once none is left there is nothing to interpolate,
\* unless the samples are needed to project along the stroke normal.
TrackStylus(p, state, in) ==
  LET unknown == state.unknown \cup Unknown(in)
  IN  [unknown |-> unknown,
       samples |-> IF ~p.normalProjection /\ unknown = Fields
                   THEN <<>> ELSE Append(state.samples, in)]

StylusUpdate(in) ==
  [stylus EXCEPT !.state = TrackStylus(stylus.params, @, in)]

\* ModelStylus gives the loop modeler one speed per Result, here one entry
\* per call that had Results.
LoopUpdate(in, results) ==
  IF loop.params.loopEnabled /\ results > 0
  THEN [loop EXCEPT !.state = Append(@, in)]
  ELSE loop

MakePredictor(p) ==
  IF p.prediction = "disabled" THEN NoPredictor
  ELSE [params |-> p, samples |-> <<>>]

PredictorUpdate(in) ==
  IF predictor = NoPredictor THEN NoPredictor
  ELSE [predictor EXCEPT !.samples = Append(@, in)]

\* Mutant: Restore leaves the predictor alone.
KeepPredictor == predictor

RestoredPredictor ==
  IF savedPredictor # NoPredictor THEN savedPredictor ELSE predictor

-----------------------------------------------------------------------------
(* The operations *)

NoTime == -1

Returned(op, status) ==
  ret' = [op |-> op, status |-> status, results |-> 0, prevTime |-> NoTime]

Produced(op, results, prevTime) ==
  ret' = [op |-> op, status |-> "ok", results |-> results, prevTime |-> prevTime]

Init ==
  /\ params = NoParams
  /\ predictor = NoPredictor
  /\ wobble = Unset(<<>>)
  /\ position = Unset(<<>>)
  /\ stylus = Unset(NoStylus)
  /\ loop = Unset(<<>>)
  /\ lastInput = NoInput
  /\ savedLastInput = NoInput
  /\ savedPredictor = NoPredictor
  /\ saveActive = FALSE
  /\ ret = [op |-> "none", status |-> "ok", results |-> 0, prevTime |-> NoTime]

\* Mutant: a save outlives the stroke it was made in.
ResetKeepsSave ==
  /\ lastInput' = NoInput
  /\ UNCHANGED saveActive

ResetInternal ==
  /\ lastInput' = NoInput
  /\ saveActive' = FALSE

\* Reset(params).  The other sub-modelers are reset by the next Down.
ResetParams(p) ==
  /\ ValidateStrokeModelParams(p)
  /\ params' = p
  /\ ResetInternal
  /\ predictor' = MakePredictor(p)
  /\ loop' = ModelerReset(p, <<>>)
  /\ Returned("Reset", "ok")
  /\ UNCHANGED <<wobble, position, stylus, savedLastInput, savedPredictor>>

RejectParams(p) ==
  /\ ~ValidateStrokeModelParams(p)
  /\ Returned("Reset", "InvalidArgument")
  /\ UNCHANGED <<params, predictor, modelers, lastInput, savedVars>>

\* Reset() with the parameters the model already has.
Reset ==
  /\ \/ /\ params = NoParams
        /\ Returned("Reset", "FailedPrecondition")
        /\ UNCHANGED <<lastInput, saveActive>>
     \/ /\ params # NoParams
        /\ ResetInternal
        /\ Returned("Reset", "ok")
  /\ UNCHANGED <<params, predictor, modelers, savedLastInput, savedPredictor>>

\* A duplicate of the last accepted input, or one from before it.
OutOfOrder(in) ==
  lastInput # NoInput /\ (SameInput(lastInput, in) \/ in.time < lastInput.time)

\* Update's own checks, in its order, and the event handlers' first check.
UpdateStatus(in) ==
  IF params = NoParams THEN "FailedPrecondition"
  ELSE IF ~ValidateInput(in) \/ OutOfOrder(in) THEN "InvalidArgument"
  ELSE IF (in.event = "down") <=> (lastInput = NoInput) THEN "ok"
  ELSE "FailedPrecondition"

RejectInput(in) ==
  /\ UpdateStatus(in) # "ok"
  /\ Returned("Update", UpdateStatus(in))
  /\ UNCHANGED <<params, predictor, modelers, lastInput, savedVars>>

ProcessDownEvent(in) ==
  /\ UpdateStatus(in) = "ok"
  /\ in.event = "down"
  /\ wobble' = ModelerReset(params, <<in>>)
  /\ position' = ModelerReset(params, <<in>>)
  /\ stylus' = ModelerReset(params, TrackStylus(params, NoStylus, in))
  /\ loop' = ModelerReset(params, <<>>)
  /\ predictor' = IF predictor = NoPredictor THEN NoPredictor
                  ELSE [predictor EXCEPT !.samples = <<in>>]
  /\ lastInput' = in
  /\ Produced("Update", 1, NoTime)
  /\ UNCHANGED <<params, savedVars>>

\* The bound on histories, an Up having room for one more than the Moves.
HistoriesBelow(n) ==
  /\ Len(wobble.state) < n /\ Len(position.state) < n
  /\ Len(stylus.state.samples) < n
  /\ predictor # NoPredictor => Len(predictor.samples) < n

\* The wobble smoother and the stylus modeler take the input before the steps
\* are counted, and keep it when that fails.
ProcessMoveEvent(in) ==
  /\ UpdateStatus(in) = "ok"
  /\ in.event = "move"
  /\ HistoriesBelow(MaxCalls)
  /\ wobble' = WobbleUpdate(in)
  /\ stylus' = StylusUpdate(in)
  /\ \/ /\ StepsMayFail(lastInput, in)
        /\ Returned("Update", "InvalidArgument")
        /\ UNCHANGED <<position, loop, predictor, lastInput>>
     \/ \E n \in StepsFor(lastInput, in) :
          /\ position' = PositionUpdate(in)
          /\ predictor' = PredictorUpdate(in)
          /\ lastInput' = in
          /\ loop' = LoopUpdate(in, n)
          /\ Produced("Update", n, lastInput'.time)
  /\ UNCHANGED <<params, savedVars>>

\* The end of the stroke adds up to endIterations states, and the current
\* state when there would be no Result at all.
ProcessUpEvent(in) ==
  /\ UpdateStatus(in) = "ok"
  /\ in.event = "up"
  /\ HistoriesBelow(MaxCalls + 1)
  /\ \/ /\ StepsMayFail(lastInput, in)
        /\ Returned("Update", "InvalidArgument")
        /\ UNCHANGED <<stylus, position, loop, lastInput>>
     \/ \E n \in StepsFor(lastInput, in), k \in 0 .. params.endIterations :
          LET results == IF n + k = 0 THEN 1 ELSE n + k
          IN  /\ position' = PositionUpdate(in)
              /\ stylus' = StylusUpdate(in)
              /\ loop' = LoopUpdate(in, results)
              /\ lastInput' = NoInput
              /\ Produced("Update", results, lastInput.time)
  /\ UNCHANGED <<params, wobble, predictor, savedVars>>

Update(in) ==
  \/ RejectInput(in)
  \/ ProcessDownEvent(in)
  \/ ProcessMoveEvent(in)
  \/ ProcessUpEvent(in)

\* How many tip states the predictor may construct.
PredictedStates ==
  IF predictor.params.prediction = "strokeEnd"
  THEN 0 .. (IF predictor.samples = <<>> THEN 0 ELSE predictor.params.endIterations)
  ELSE IF Len(predictor.samples) < predictor.params.minStable
       THEN {0} ELSE 1 .. PredictionCap

Predict ==
  /\ \/ /\ params = NoParams \/ predictor = NoPredictor \/ lastInput = NoInput
        /\ Returned("Predict", "FailedPrecondition")
     \/ /\ params # NoParams /\ predictor # NoPredictor /\ lastInput # NoInput
        /\ \E n \in PredictedStates : Produced("Predict", n, lastInput.time)
  /\ UNCHANGED <<params, predictor, modelers, lastInput, savedVars>>

Save ==
  /\ wobble' = ModelerSave(wobble)
  /\ position' = ModelerSave(position)
  /\ stylus' = ModelerSave(stylus)
  /\ loop' = ModelerSave(loop)
  /\ savedLastInput' = lastInput
  /\ savedPredictor' = IF predictor # NoPredictor THEN predictor ELSE savedPredictor
  /\ saveActive' = TRUE
  /\ Returned("Save", "ok")
  /\ UNCHANGED <<params, predictor, lastInput>>

\* A Down clears the sub-modelers' saves but not save_active_, so a client
\* that has not saved in the current stroke must not call Restore.
Restore ==
  /\ RestoreOnlyInSavedStroke /\ saveActive => position.saved # NoSave
  /\ \/ /\ ~saveActive
        /\ UNCHANGED <<modelers, lastInput, predictor>>
     \/ /\ saveActive
        /\ wobble' = ModelerRestore(wobble)
        /\ position' = ModelerRestore(position)
        /\ stylus' = ModelerRestore(stylus)
        /\ loop' = ModelerRestore(loop)
        /\ lastInput' = savedLastInput
        /\ predictor' = RestoredPredictor
  /\ Returned("Restore", "ok")
  /\ UNCHANGED <<params, savedVars>>

Next ==
  \/ \E p \in Params : ResetParams(p) \/ RejectParams(p)
  \/ Reset
  \/ \E in \in Inputs : Update(in)
  \/ Predict
  \/ Save
  \/ Restore

Spec == Init /\ [][Next]_vars
-----------------------------------------------------------------------------
(* Properties *)

ModelerType(S) == [params : Params \cup {NoParams}, state : S,
                   saved : S \cup {NoSave}]

\* The types of the state (stroke_modeler.h:117-138) and of what a call gives.
TypeOK ==
  /\ params \in Params \cup {NoParams}
  /\ predictor \in PredictorType
  /\ savedPredictor \in PredictorType
  /\ wobble \in ModelerType(Seq(Inputs))
  /\ position \in ModelerType(Seq(Inputs))
  /\ stylus \in ModelerType(StylusType)
  /\ loop \in ModelerType(Seq(Inputs))
  /\ lastInput \in Inputs \cup {NoInput}
  /\ savedLastInput \in Inputs \cup {NoInput}
  /\ saveActive \in BOOLEAN
  /\ ret.results \in Nat

\* A stroke: a Down and then Moves, never backwards in time.
IsStroke(path) ==
  /\ path # <<>>
  /\ path[1].event = "down"
  /\ \A i \in 2 .. Len(path) :
       path[i].event = "move" /\ path[i - 1].time <= path[i].time

\* The sub-modelers' histories w, p, s, l all tell of the stroke that ends in
\* last.  The smoother and the stylus modeler may hold more: inputs that
\* Update rejected after they had taken them.
Coherent(last, w, p, s, l) ==
  last # NoInput =>
    /\ IsStroke(p) /\ Last(p) = last
    /\ params.wobbleEnabled => Range(p) \subseteq Range(w)
    /\ \A in \in Range(p) : Unknown(in) \subseteq s.unknown
    /\ params.normalProjection \/ s.unknown # Fields
         => Range(p) \subseteq Range(s.samples)
    /\ Range(l) \subseteq Range(p)

\* After any calls, failed Updates, Saves and Restores among them, the five
\* copies of "the stroke so far" that the facade keeps in separate objects are
\* those of one and the same stroke, and so are their saved copies: a Restore
\* (stroke_modeler.cc:332-343) can never mix two strokes, and a rejected Move
\* (stroke_modeler.cc:288-302) can never lose or invent an accepted input.
StrokeCoherent ==
  /\ Coherent(lastInput, wobble.state, position.state, stylus.state, loop.state)
  /\ saveActive /\ position.saved # NoSave =>
       Coherent(savedLastInput, wobble.saved, position.saved, stylus.saved,
                loop.saved)

\* With a predictor, a prediction (stroke_modeler.cc:178-184) starts from the
\* very inputs the position modeler followed: the predictor has received
\* exactly the inputs of the stroke, also after failures and Restores, and was
\* made from the current parameters.
PredictorFollowsStroke ==
  lastInput # NoInput /\ predictor # NoPredictor =>
    /\ predictor.samples = position.state
    /\ predictor.params = params

\* A stroke is modelled with one set of parameters.  Sub-modelers take theirs
\* at a Down only (stroke_modeler.cc:195-206), so between Reset(params) and the
\* next Down they hold old ones; no stroke, restored or not, may run on them.
OneParamsPerStroke ==
  lastInput # NoInput =>
    /\ params # NoParams
    /\ \A m \in {wobble, position, loop} : m.params = params
    /\ stylus.params = params

\* Query on an empty stylus modeler (stylus_state_modeler.cc:207-216) gives a
\* default at position (0, 0) and time 0.  ModelStylus blends that with the tip
\* state unless loop contraction mitigation is off, so during a stroke it must
\* be off whenever the stylus modeler has stopped tracking.
DefaultStateNeverBlended ==
  lastInput # NoInput /\ stylus.state.samples = <<>> => ~loop.params.loopEnabled

\* The client never turns prediction on or off with Reset(params).
PredictionNeverToggled ==
  \/ \A p \in Params : p.prediction = "disabled"
  \/ \A p \in Params : p.prediction # "disabled"

-----------------------------------------------------------------------------
(* The client's view: StrokeModeler implements StrokeSession *)

CurrentStroke == IF lastInput = NoInput THEN <<>> ELSE position.state

SavedStroke ==
  IF saveActive /\ position.saved # NoSave
  THEN IF savedLastInput = NoInput THEN <<>> ELSE position.saved
  ELSE NoSave

Session == INSTANCE StrokeSession WITH
  configured <- params # NoParams,
  stroke <- CurrentStroke,
  saved <- SavedStroke

\* What Reset, Update, Predict, Save and Restore do to the stroke is what
\* stroke_modeler.h:52-106 promises.
SessionSpec == Session!Spec

-----------------------------------------------------------------------------
(* Statements of the repository that the code does not keep *)

\* stroke_modeler.h:87-89: Predict returns an error "if prediction has been
\* disabled".
PredictHonoursDisabled ==
  ret.op = "Predict" /\ ret.status = "ok" => params.prediction # "disabled"

\* stroke_modeler.h:105-106: Restore "Does nothing if Save() has not been
\* called for this stroke".
RestoreNeedsSave ==
  [][ret'.op = "Restore" /\ position.saved = NoSave => UNCHANGED lastInput]_vars

\* utils.cc:65-71: the stroke normal is that of the path from the previous
\* point, prev_time being the time of the last point before the new ones.
NormalFollowsPath ==
  [][ret'.op = "Update" /\ ret'.status = "ok" /\ lastInput # NoInput
       => ret'.prevTime = lastInput.time]_vars
=============================================================================
