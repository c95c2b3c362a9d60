---------------------------- MODULE StrokeSession ----------------------------
(***************************************************************************)
(* What the StrokeModeler promises its client (stroke_modeler.h:52-106),   *)
(* with nothing of how it is done: the only state is whether the model has *)
(* parameters, the inputs accepted for the stroke in progress, and the     *)
(* stroke that the last Save() kept.  StrokeModeler.tla is shown to        *)
(* implement it.                                                           *)
(***************************************************************************)
EXTENDS Naturals, Sequences, SequencesExt

CONSTANTS Inputs,   \* raw inputs: records with at least .event and .time
          NoSave    \* "Save() has not been called for this stroke"

VARIABLES configured,  \* Reset(params) has succeeded
          stroke,      \* inputs of the stroke in progress, <<>> if none
          saved        \* the stroke as Save() found it, or NoSave

vars == <<configured, stroke, saved>>

Init ==
  /\ configured = FALSE
  /\ stroke = <<>>
  /\ saved = NoSave

\* Reset: "Clears any in-progress stroke", and a save does not outlive it.
Configure ==
  /\ configured' = TRUE
  /\ stroke' = <<>>
  /\ saved' = NoSave

\* An accepted Down begins a stroke for which Save() has not been called.
Begin(in) ==
  /\ configured
  /\ stroke = <<>>
  /\ in.event = "down"
  /\ stroke' = <<in>>
  /\ saved' = NoSave
  /\ UNCHANGED configured

\* An accepted Move extends the stroke, never backwards in time.
Extend(in) ==
  /\ stroke # <<>>
  /\ in.event = "move"
  /\ in.time >= Last(stroke).time
  /\ stroke' = Append(stroke, in)
  /\ UNCHANGED <<configured, saved>>

\* An accepted Up ends the stroke; Restore() may still bring it back.
Finish(in) ==
  /\ stroke # <<>>
  /\ in.event = "up"
  /\ in.time >= Last(stroke).time
  /\ stroke' = <<>>
  /\ UNCHANGED <<configured, saved>>

Save ==
  /\ saved' = stroke
  /\ UNCHANGED <<configured, stroke>>

\* "Discards the portion of input after the last call to Save()."
Restore ==
  /\ saved # NoSave
  /\ stroke' = saved
  /\ UNCHANGED <<configured, saved>>

\* Calls that fail, Predict(), and Restore() without a save are stutters.
Next ==
  \/ Configure
  \/ \E in \in Inputs : Begin(in) \/ Extend(in) \/ Finish(in)
  \/ Save
  \/ Restore

Spec == Init /\ [][Next]_vars
=============================================================================
