---------------------------- MODULE PositionModeler ----------------------------
(***************************************************************************)
(* The position modeler (position_modeler.h) as Move and Up drive it: the  *)
(* pen tip follows the anchor along the path between two inputs, and at    *)
(* the end of the stroke it is let go until it is near the last input.     *)
(* The stroke end predictor (stroke_end_predictor.cc) does the latter on a *)
(* modeler of its own.                                                     *)
(*                                                                         *)
(* Each iteration of the two loops is a step, and no other call is made    *)
(* meanwhile.  The spring may take the tip anywhere: a step chooses its    *)
(* new position among Points.  Times are integers, in units so small that  *)
(* they can be divided and halved as often as the loops do.                *)
(***************************************************************************)
EXTENDS Integers, Sequences, SequencesExt

CONSTANTS
  Points,         \* positions of tip and inputs, as [x, y]
  Times,          \* times of inputs
  Tick,           \* 1 / min_output_rate
  StopDistance,   \* end_of_stroke_stopping_distance
  MaxIterations,  \* end_of_stroke_max_iterations
  MaxOutputs,     \* max_outputs_per_call
  NoStroke,       \* no stroke in progress
  NoSave,         \* saved_state_ is empty
  NoCall,         \* no Move, Up or Predict is being processed
  NoCopy          \* the call works on the position modeler itself

Inputs == [position : Points, time : Times]
TipStates == [position : Points, time : Nat]

CallType ==
  [event : {"move", "up", "predict"}, loop : {"path", "end"}, start : Inputs,
   end : Inputs, steps : 0 .. MaxOutputs, i : Nat, delta : Nat,
   copy : TipStates \cup {NoCopy}]

ASSUME PointsAssumption == Points \subseteq [x : Int, y : Int]
ASSUME TimesAssumption ==
  Times \subseteq Nat /\ \A t \in Times, n \in 1 .. MaxOutputs : t % n = 0
ASSUME ParamsAssumption ==
  /\ Tick \in Nat \ {0}
  /\ StopDistance \in Nat \ {0}
  /\ MaxIterations \in Nat \ {0} /\ MaxOutputs \in Nat \ {0}
\* A whole number of half, quarter, ... ticks.
ASSUME HalvesAssumption ==
  \E half \in [0 .. MaxIterations -> 1 .. Tick] :
    half[0] = Tick /\ \A k \in 1 .. MaxIterations : half[k - 1] = 2 * half[k]
ASSUME NamesAssumption ==
  NoStroke \notin Inputs /\ NoCall \notin CallType /\ NoCopy \notin TipStates

VARIABLES
  tip,        \* state_: position and time
  saved,      \* saved_state_, with the last input the facade saved, or NoSave
  lastInput,  \* last_input_ of the facade, or NoStroke
  call,       \* the loop in progress and its local variables, or NoCall
  outputs     \* tip_state_buffer_

vars == <<tip, saved, lastInput, call, outputs>>

-----------------------------------------------------------------------------
(* Geometry *)

Dot(u, v) == u.x * v.x + u.y * v.y
Minus(p, q) == [x |-> p.x - q.x, y |-> p.y - q.y]
SquaredDistance(p, q) == Dot(Minus(p, q), Minus(p, q))
Within(p, q, distance) == SquaredDistance(p, q) < distance * distance

\* NearestPointOnSegment(from, to, anchor) < 1.
Overshot(from, to, anchor) ==
  \/ from = to
  \/ Dot(Minus(anchor, from), Minus(to, from)) < SquaredDistance(from, to)

\* Mutant: no steps for a short path.
RoundedDown(from, to) == (to.time - from.time) \div Tick .. MaxOutputs

\* NumberOfStepsBetweenInputs: those min_output_rate asks for, or more for a
\* wide angle.  Rounding can make an angle of that between a velocity and
\* itself, so there may be steps even when no time has passed.
StepCounts(from, to) == (to.time - from.time + Tick - 1) \div Tick .. MaxOutputs

\* Mutant: the path starts at its beginning.
PathTimeFromStart(c, i) ==
  c.start.time + ((c.end.time - c.start.time) * (i - 1)) \div c.steps

\* Interp(start_time, end_time, i / n_samples).
PathTime(c, i) == c.start.time + ((c.end.time - c.start.time) * i) \div c.steps

-----------------------------------------------------------------------------
(* The calls *)

Init ==
  /\ tip \in [position : Points, time : {0}]
  /\ saved = NoSave
  /\ lastInput = NoStroke
  /\ call = NoCall
  /\ outputs = <<>>

\* ProcessDownEvent: Reset to the position and time of the input.
Down(in) ==
  /\ call = NoCall /\ lastInput = NoStroke
  /\ tip' = in
  /\ saved' = NoSave
  /\ lastInput' = in
  /\ outputs' = <<in>>
  /\ UNCHANGED call

\* ProcessMoveEvent or ProcessUpEvent up to UpdateAlongLinearPath, for an input
\* that is neither out of order nor too far away.
StartPath(event, in) ==
  /\ call = NoCall /\ lastInput # NoStroke
  /\ in.time >= lastInput.time
  /\ \E n \in StepCounts(lastInput, in) :
       call' = [event |-> event, loop |-> "path", start |-> lastInput,
                end |-> in, steps |-> n, i |-> 1, delta |-> Tick,
                copy |-> NoCopy]
  /\ outputs' = <<>>
  /\ UNCHANGED <<tip, saved, lastInput>>

\* UpdateAlongLinearPath, one iteration.
PathStep(position) ==
  /\ call # NoCall
  /\ call.loop = "path" /\ call.i <= call.steps
  /\ tip' = [position |-> position, time |-> PathTime(call, call.i)]
  /\ outputs' = Append(outputs, tip')
  /\ call' = [call EXCEPT !.i = @ + 1]
  /\ UNCHANGED <<saved, lastInput>>

\* The path is done: a Move is finished, an Up goes on to ModelEndOfStroke.
PathDone ==
  /\ call # NoCall
  /\ call.loop = "path" /\ call.i > call.steps
  /\ \/ /\ call.event = "move"
        /\ lastInput' = call.end
        /\ call' = NoCall
     \/ /\ call.event = "up"
        /\ call' = [call EXCEPT !.loop = "end", !.i = 0]
        /\ UNCHANGED lastInput
  /\ UNCHANGED <<tip, saved, outputs>>

\* StrokeEndPredictor::ConstructPrediction: a modeler reset to the tip goes on
\* to the last position the predictor got, which is that of last_input_.
Predict ==
  /\ call = NoCall /\ lastInput # NoStroke
  /\ call' = [event |-> "predict", loop |-> "end", start |-> lastInput,
              end |-> lastInput, steps |-> 0, i |-> 0, delta |-> Tick, copy |-> tip]
  /\ outputs' = <<>>
  /\ UNCHANGED <<tip, saved, lastInput>>

\* The state_ that ModelEndOfStroke reads and updates.
Current == IF call.copy = NoCopy THEN tip ELSE call.copy

\* Mutant: an Up may give nothing.
FinishAsIs(current, given) ==
  /\ call' = NoCall
  /\ outputs' = given
  /\ IF call.event = "up" THEN tip' = current /\ lastInput' = NoStroke
     ELSE UNCHANGED <<tip, lastInput>>

\* An Up with nothing else to give gives the current state; a prediction may
\* be empty, and leaves the stroke as it was.
Finish(current, given) ==
  /\ call' = NoCall
  /\ \/ /\ call.event = "up"
        /\ tip' = current
        /\ outputs' = IF given = <<>> THEN <<current>> ELSE given
        /\ lastInput' = NoStroke
     \/ /\ call.event = "predict"
        /\ outputs' = given
        /\ UNCHANGED <<tip, lastInput>>

\* The candidate is given, and the next iteration starts from it.
Continue(candidate) ==
  /\ outputs' = Append(outputs, candidate)
  /\ \/ /\ call.event = "up"
        /\ tip' = candidate
        /\ call' = [call EXCEPT !.i = @ + 1]
     \/ /\ call.event = "predict"
        /\ call' = [call EXCEPT !.i = @ + 1, !.copy = candidate]
        /\ UNCHANGED tip
  /\ UNCHANGED lastInput

\* Mutant: the state is not taken back.
RetryFromCandidate(candidate) ==
  /\ tip' = IF call.event = "up" THEN candidate ELSE tip
  /\ call' = [call EXCEPT !.i = @ + 1, !.delta = @ \div 2,
                              !.copy = IF @ = NoCopy THEN @ ELSE candidate]
  /\ UNCHANGED <<lastInput, outputs>>

\* Mutant: a discarded iteration does not count, and the step after a half one
\* is a whole one again.
RetryForFree(candidate) ==
  /\ call' = [call EXCEPT !.delta = IF @ = Tick THEN @ \div 2 ELSE Tick]
  /\ UNCHANGED <<tip, lastInput, outputs>>

\* The anchor was overshot: back to the previous state, half the step.
Retry(candidate) ==
  /\ call' = [call EXCEPT !.i = @ + 1, !.delta = @ \div 2]
  /\ UNCHANGED <<tip, lastInput, outputs>>

\* Mutant: one iteration more.
OneMoreIteration == call.i <= MaxIterations

IterationsLeft == call.i < MaxIterations

\* ModelEndOfStroke, one iteration.  A candidate that did not move is not
\* given, but it stays the current state.
EndStep(position) ==
  LET previous  == Current
      anchor    == call.end.position
      candidate == [position |-> position, time |-> previous.time + call.delta]
  IN  /\ \/ /\ Within(previous.position, position, StopDistance)
            /\ Finish(candidate, outputs)
         \/ /\ ~Within(previous.position, position, StopDistance)
            /\ Overshot(previous.position, position, anchor)
            /\ Retry(candidate)
         \/ /\ ~Within(previous.position, position, StopDistance)
            /\ ~Overshot(previous.position, position, anchor)
            /\ IF Within(position, anchor, StopDistance)
               THEN Finish(candidate, Append(outputs, candidate))
               ELSE Continue(candidate)
      /\ UNCHANGED saved

EndOfStroke ==
  /\ call # NoCall /\ call.loop = "end"
  /\ \/ /\ IterationsLeft
        /\ \E position \in Points : EndStep(position)
     \/ /\ ~IterationsLeft
        /\ Finish(Current, outputs)
        /\ UNCHANGED saved

Save ==
  /\ call = NoCall
  /\ saved' = [tip |-> tip, lastInput |-> lastInput]
  /\ UNCHANGED <<tip, lastInput, call, outputs>>

Restore ==
  /\ call = NoCall /\ saved # NoSave
  /\ tip' = saved.tip
  /\ lastInput' = saved.lastInput
  /\ UNCHANGED <<saved, call, outputs>>

\* What goes on by itself once a call was made.
Proceed ==
  \/ \E position \in Points : PathStep(position)
  \/ PathDone
  \/ EndOfStroke

Next ==
  \/ \E in \in Inputs :
       Down(in) \/ \E event \in {"move", "up"} : StartPath(event, in)
  \/ Predict
  \/ Proceed
  \/ Save
  \/ Restore

\* A call that was made runs on; nothing obliges the client to make one.
Spec == Init /\ [][Next]_vars /\ WF_vars(Proceed)

-----------------------------------------------------------------------------
(* Properties *)

\* The types of position_modeler.h:141-143 and of the loops' variables.  The end
\* of a stroke takes at most end_of_stroke_max_iterations steps, and the buffer
\* never needs more than stroke_modeler.cc:247-249 reserves for it.
TypeOK ==
  /\ tip \in TipStates
  /\ saved # NoSave =>
       saved.tip \in TipStates /\ saved.lastInput \in Inputs \cup {NoStroke}
  /\ lastInput \in Inputs \cup {NoStroke}
  /\ call \in CallType \cup {NoCall}
  /\ call # NoCall =>
       call.i <= IF call.loop = "end" THEN MaxIterations ELSE call.steps + 1
  /\ outputs \in Seq(TipStates)
  /\ Len(outputs) <= IF call = NoCall THEN MaxOutputs + MaxIterations
                     ELSE call.steps + MaxIterations

\* Between two calls of a stroke, also after a prediction or a Restore, the tip
\* is at the time of the last input: what Update integrates over
\* (position_modeler.cc:56) is the time between two inputs, never negative.
TipAtLastInput ==
  call = NoCall /\ lastInput # NoStroke => tip.time = lastInput.time

\* The k-th tip state s[k] of call c is later than the one before it, or than the
\* input the path starts from.  Only the steps of a path over no time are not.
AdvancesAt(c, s, k) ==
  \/ (IF k = 1 THEN c.start.time ELSE s[k - 1].time) < s[k].time
  \/ /\ k <= c.steps
     /\ c.start.time = c.end.time /\ s[k].time = c.start.time

\* The tip states of a call (position_modeler.h:70-128) come one after
\* another in time, across path, end of stroke and retries: none goes back, and
\* none stands still if its call is over some time.  An Up over no time of which
\* every iteration was retried gives the state it found, alone.
OutputsAdvance ==
  [][call # NoCall =>
       \/ \A k \in DOMAIN outputs' : AdvancesAt(call, outputs', k)
       \/ /\ call.start.time = call.end.time
          /\ Len(outputs') = 1 /\ outputs'[1].time = call.start.time]_vars

\* At the end of the stroke (position_modeler.h:82-84) and in a prediction of it
\* the tip only ever gets nearer to the last input, unless it moves less than
\* the stop distance: a state beyond it is neither given nor gone on from,
\* however the retries and steps follow.
EndApproachesInput ==
  [][call # NoCall /\ call.loop = "end" =>
       LET next == IF call' # NoCall THEN Current'
                   ELSE IF outputs' # outputs THEN Last(outputs') ELSE Current
       IN  \/ Within(Current.position, next.position, StopDistance)
           \/ SquaredDistance(next.position, call.end.position)
                < SquaredDistance(Current.position, call.end.position)]_vars

\* An Up gives at least one state, and the last it gives is where the tip is
\* left (stroke_modeler.cc:254-265), but for less than the stop distance.
UpGivesTip ==
  [][call # NoCall /\ call' = NoCall /\ call.event = "up"
       => /\ outputs' # <<>>
          /\ Within(Last(outputs').position, tip'.position, StopDistance)]_vars

\* Every Move, Up and Predict returns: the loop of position_modeler.h:100-127
\* counts the iterations it discards.
CallsReturn == call # NoCall ~> call = NoCall
=============================================================================
