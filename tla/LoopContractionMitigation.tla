---------------------- MODULE LoopContractionMitigation ----------------------
(***************************************************************************)
(* The loop contraction mitigation modeler                                 *)
(* (loop_contraction_mitigation_modeler.cc): a moving average of the speed *)
(* of the Results, and how much of the raw input to blend into the next.   *)
(* The value it gives is the share of the spring model, 1 for no blending. *)
(*                                                                         *)
(* Speeds and times are integers and a quotient is a pair [num, den].      *)
(***************************************************************************)
EXTENDS Sums, FiniteSets, FiniteSetsExt, SequencesExt

CONSTANTS
  Params,      \* LoopContractionMitigationParameters that pass validation
  Speeds,      \* magnitudes of the Results' velocities
  Times,       \* times of the tip states
  One,         \* an interpolation strength of 1: strengths are in 0 .. One
  NoSave,      \* no saved samples since the last Reset
  MaxUpdates   \* bound: Results of one stroke

\* minWindow and minSamples are min_speed_sampling_window and
\* min_discrete_speed_samples, atLower and atUpper the interpolation strengths.
ParamsType ==
  [enabled : BOOLEAN, speedLower : Nat, speedUpper : Nat,
   atLower : 0 .. One, atUpper : 0 .. One,
   minWindow : Nat \ {0}, minSamples : Nat \ {0}]

ASSUME ParamsAssumption ==
  \A p \in Params :
    p \in ParamsType /\ p.speedLower <= p.speedUpper /\ p.atUpper <= p.atLower
ASSUME NumbersAssumption == Speeds \subseteq Nat /\ Times \subseteq Nat
ASSUME BoundsAssumption == MaxUpdates \in Nat /\ One \in Nat \ {0}

VARIABLES
  params,   \* params_
  samples,  \* speed_samples_
  saved,    \* saved_speed_samples_, or NoSave
  history   \* auxiliary: all samples since Reset, with what Save kept of them

vars == <<params, samples, saved, history>>

-----------------------------------------------------------------------------
(* The window and the value *)

Span(s) == Last(s).time - s[1].time

\* Mutant: the number of samples is not looked at.
TooLong(s) == Span(s) > params.minWindow

MayPop(s) == Span(s) > params.minWindow /\ Len(s) > params.minSamples

\* The while loop: the longest suffix of which nothing may be popped.
Popped(s) ==
  LET kept == {i \in DOMAIN s : ~MayPop(SubSeq(s, i, Len(s)))}
  IN  SubSeq(s, Min(kept), Len(s))

SpeedSum == Total([i \in DOMAIN samples |-> samples[i].speed])

\* Mutant: the ratio is not clamped.
Unclamped(num, den) == [num |-> num, den |-> den]

\* utils.h Clamp01, den being positive.
Clamp01(num, den) ==
  [num |-> IF num < 0 THEN 0 ELSE IF num > den THEN den ELSE num, den |-> den]

\* utils.h InverseLerp of the average speed, clamped; 0 for equal bounds.
SourceRatio ==
  IF params.speedLower = params.speedUpper THEN [num |-> 0, den |-> 1]
  ELSE Clamp01(SpeedSum - params.speedLower * Len(samples),
               (params.speedUpper - params.speedLower) * Len(samples))

\* GetInterpolationValue, as num / (den * One).
InterpolationValue ==
  IF samples = <<>> \/ ~params.enabled THEN [num |-> One, den |-> 1]
  ELSE [num |-> params.atLower * SourceRatio.den
                  + (params.atUpper - params.atLower) * SourceRatio.num,
        den |-> SourceRatio.den]

-----------------------------------------------------------------------------
(* The operations, as the facade calls them *)

Init ==
  /\ params \in Params
  /\ samples = <<>>
  /\ saved = NoSave
  /\ history = [now |-> <<>>, saved |-> <<>>]

\* Mutant: the samples of the last stroke stay.
ResetParamsOnly(p) ==
  /\ params' = p
  /\ saved' = NoSave
  /\ history' = [now |-> <<>>, saved |-> <<>>]
  /\ UNCHANGED samples

\* Reset(params) of the facade, and each Down.
Reset(p) ==
  /\ params' = p
  /\ samples' = <<>>
  /\ saved' = NoSave
  /\ history' = [now |-> <<>>, saved |-> <<>>]

\* ModelStylus, once per Result.  Tip states never go back in time.
Update(speed, time) ==
  /\ history.now # <<>> => time >= Last(history.now).time
  /\ Len(history.now) < MaxUpdates
  /\ IF params.enabled
     THEN /\ samples' = Popped(Append(samples, [speed |-> speed, time |-> time]))
          /\ history' = [history EXCEPT !.now =
                           Append(@, [speed |-> speed, time |-> time])]
     ELSE UNCHANGED <<samples, history>>
  /\ UNCHANGED <<params, saved>>

Save ==
  /\ saved' = samples
  /\ history' = [history EXCEPT !.saved = history.now]
  /\ UNCHANGED <<params, samples>>

\* Nothing happens without a save.
Restore ==
  /\ saved # NoSave
  /\ samples' = saved
  /\ history' = [history EXCEPT !.now = history.saved]
  /\ UNCHANGED <<params, saved>>

Next ==
  \/ \E p \in Params : Reset(p)
  \/ \E v \in Speeds, t \in Times : Update(v, t)
  \/ Save
  \/ Restore

Spec == Init /\ [][Next]_vars

-----------------------------------------------------------------------------
(* Properties *)

Samples == Seq([speed : Speeds, time : Times])

\* The types of loop_contraction_mitigation_modeler.h, of the saved copy too; a
\* modeler that is not enabled keeps nothing.
TypeOK ==
  /\ params \in Params
  /\ samples \in Samples
  /\ saved \in Samples \cup {NoSave}
  /\ ~params.enabled => samples = <<>>

\* After any Updates, Saves and Restores of a stroke, the average
\* (loop_contraction_mitigation_modeler.cc:40-46) is over its last samples:
\* all, or at least min_discrete_speed_samples and every sample of less than
\* min_speed_sampling_window ago; and no sample is kept that is not needed: a
\* number that is enough without the oldest does not span more than the window.
\* That the samples kept span the window, as params.h:96-102 says, is not
\* claimed: the code pops the one that makes them span it, too.
WindowIsRecent ==
  LET n == Len(history.now)
      older == n - Len(samples)
  IN  /\ samples = SubSeq(history.now, older + 1, n)
      /\ older > 0 =>
           /\ Len(samples) >= params.minSamples
           /\ Last(history.now).time - history.now[older].time >= params.minWindow
      /\ Len(samples) > params.minSamples => Span(Tail(samples)) <= params.minWindow

\* Whatever speeds are in the window, the share of the spring model stays
\* between the two strengths (loop_contraction_mitigation_modeler.cc:19-33), so
\* that a Result lies between the spring model and the raw input; for a slow
\* stroke it is the one at the lower speed (params.h:85-89).
ValueBetweenStrengths ==
  params.enabled /\ samples # <<>> =>
    LET value == InterpolationValue IN
    /\ params.atUpper * value.den <= value.num
    /\ value.num <= params.atLower * value.den
    /\ SpeedSum <= params.speedLower * Len(samples)
         => value.num = params.atLower * value.den
=============================================================================
