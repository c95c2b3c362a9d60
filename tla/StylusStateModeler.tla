-------------------------- MODULE StylusStateModeler --------------------------
(***************************************************************************)
(* The stylus state modeler (stylus_state_modeler.cc): a window of recent  *)
(* raw inputs, the polyline through them, and the projection of a tip      *)
(* position to it that gives a Result its pressure, tilt and orientation.  *)
(*                                                                         *)
(* Positions are on a line, times are integers, and of the pressure and    *)
(* tilt only whether they are known is kept.  Orientations are integers, a *)
(* full turn being FullTurn.  Where a stroke normal hits the polyline, and *)
(* how far away, is chosen: any hits can be drawn in the plane.            *)
(***************************************************************************)
EXTENDS Integers, Sequences, FiniteSets, FiniteSetsExt, SequencesExt

CONSTANTS
  Params,        \* StylusStateModelerParams that pass validation
  Inputs,        \* raw inputs: position, time, orientation, unknown fields
  FullTurn,      \* 2 pi
  TipPositions,  \* positions a Query may ask for
  Hits,          \* hits of a tip's normal: side, distance, ratio along segment
  NoStroke,      \* no stroke in progress
  NoSave,        \* no saved state since the last Reset
  NoOutput,      \* the last call was not a Query
  NoNormal,      \* GetStrokeNormal gives no normal
  Unknown,       \* -1, for a field that is not given
  MaxInputs      \* bound: inputs of one stroke

Fields == {"pressure", "tilt", "orientation"}

ParamsType ==
  [normalProjection : BOOLEAN, maxSamples : Nat \ {0},
   minSamples : Nat \ {0}, minDuration : Nat \ {0}]

InputType ==
  [position : Int, time : Nat, orientation : Nat, unknown : SUBSET Fields]

HitType ==
  [side : {"left", "right"}, distance : Nat, num : Nat, den : Nat \ {0}]

ASSUME ParamsAssumption == Params \subseteq ParamsType
ASSUME InputsAssumption ==
  /\ Inputs \subseteq InputType /\ TipPositions \subseteq Int
  /\ Hits \subseteq HitType /\ \A hit \in Hits : hit.num <= hit.den
  /\ FullTurn \in Nat \ {0} /\ FullTurn % 2 = 0
ASSUME NoStrokeAssumption == NoStroke \notin Nat
ASSUME BoundsAssumption == MaxInputs \in Nat

VARIABLES
  params,    \* params_
  state,     \* state_: raw_input_and_stylus_states and the three flags
  saved,     \* saved_state_, or NoSave
  output,    \* what the last Query was for and what it gave, or NoOutput
  lastTime,  \* time of the facade's last_input_, or NoStroke
  history    \* auxiliary: all inputs since Reset, with what Save kept of them

vars == <<params, state, saved, output, lastTime, history>>

-----------------------------------------------------------------------------
(* The window *)

\* Mutant: one sample more than max_input_samples is kept.
DropLate(p, s) ==
  IF p.normalProjection
  THEN Len(s) > p.minSamples /\ Last(s).time - s[2].time > p.minDuration
  ELSE Len(s) > p.maxSamples + 1

\* Mutant: the duration is that from the oldest sample, not the one after it.
DropCountsOldest(p, s) ==
  IF p.normalProjection
  THEN Len(s) > p.minSamples /\ Last(s).time - s[1].time > p.minDuration
  ELSE Len(s) > p.maxSamples

ShouldDropOldestInput(p, s) ==
  IF p.normalProjection
  THEN Len(s) > p.minSamples /\ Last(s).time - s[2].time > p.minDuration
  ELSE Len(s) > p.maxSamples

\* The while loop: the longest suffix of s whose oldest input may not go.
DropOldest(p, s) ==
  LET kept == {i \in DOMAIN s : ~ShouldDropOldestInput(p, SubSeq(s, i, Len(s)))}
  IN  SubSeq(s, Min(kept), Len(s))

Nothing == [samples |-> <<>>, unknown |-> {}]

\* Update: unknown fields stick, and with no field left to interpolate the
\* samples are dropped unless the projection needs their positions.
Tracked(p, st, in) ==
  LET unknown == st.unknown \cup in.unknown
  IN  [unknown |-> unknown,
       samples |-> IF ~p.normalProjection /\ unknown = Fields THEN <<>>
                   ELSE DropOldest(p, Append(st.samples, in))]

-----------------------------------------------------------------------------
(* Projections *)

Dist(p, q) == IF p < q THEN q - p ELSE p - q

Segments == 1 .. Len(state.samples) - 1

SegmentEnds(i) == {state.samples[i].position, state.samples[i + 1].position}

\* NearestPointOnSegment, as the point itself.
NearestPoint(i, tip) ==
  IF tip < Min(SegmentEnds(i)) THEN Min(SegmentEnds(i))
  ELSE IF tip > Max(SegmentEnds(i)) THEN Max(SegmentEnds(i))
  ELSE tip

\* Mutant: the nearest point is looked for on the last segment only.
LastSegment(tip) == {Len(state.samples) - 1} \cap Segments

\* ProjectToClosestPoint: the last of the segments at the least distance, if
\* there is a segment at all.
ProjectToClosestPoint(tip) ==
  LET distance(i) == Dist(tip, NearestPoint(i, tip))
      nearest == {i \in Segments : \A j \in Segments : distance(i) <= distance(j)}
  IN  IF nearest = {} THEN {} ELSE {Max(nearest)}

\* The first of the nearest hits on one side of the stroke, if any.
BestOn(side, hits) ==
  LET there == {i \in DOMAIN hits : hits[i].side = side}
      nearest == {i \in there : \A j \in there : hits[i].distance <= hits[j].distance}
  IN  IF nearest = {} THEN {} ELSE {Min(nearest)}

\* Mutant: the inside of the turn.
ProjectInside(hits, turn) ==
  IF BestOn("left", hits) # {} /\ BestOn("right", hits) # {}
  THEN BestOn(turn, hits)
  ELSE BestOn("left", hits) \cup BestOn("right", hits)

\* ProjectAlongStrokeNormal: with hits on both sides the one on the outside of
\* the turn, acceleration pointing to its inside.
ProjectAlongStrokeNormal(hits, turn) ==
  IF BestOn("left", hits) # {} /\ BestOn("right", hits) # {}
  THEN BestOn(IF turn = "left" THEN "right" ELSE "left", hits)
  ELSE BestOn("left", hits) \cup BestOn("right", hits)

\* The segment a tip is projected to, {} if there is none.
Projection(tip, hits, turn) ==
  IF params.normalProjection /\ hits # NoNormal
  THEN ProjectAlongStrokeNormal(hits, turn)
  ELSE ProjectToClosestPoint(tip)

\* Without a projection, the front or the back of the polyline.
ClosestEnd(tip) ==
  IF Dist(state.samples[1].position, tip) < Dist(Last(state.samples).position, tip)
  THEN 1 ELSE Len(state.samples)

\* The samples a Query interpolates, or the one it takes.
Sources(tip, hits, turn) ==
  IF state.samples = <<>> THEN {}
  ELSE LET projection == Projection(tip, hits, turn)
       IN  IF projection = {} THEN {ClosestEnd(tip)}
           ELSE projection \cup {i + 1 : i \in projection}

\* Mutant: the nearest way on the number line.
InterpAngleStraight(start, end, num, den) ==
  start * den + (end - start) * num

\* normalize_angle, of an angle that is not negative: a full turn stays one.
NormalizeAngle(angle, full) ==
  IF angle > full THEN ((angle - 1) % full) + 1 ELSE angle

\* InterpAngle, in units of 1 / den.
InterpAngle(start, end, num, den) ==
  LET from == NormalizeAngle(start, FullTurn)
      to   == NormalizeAngle(end, FullTurn)
      near == IF to - from < -(FullTurn \div 2) THEN to + FullTurn
              ELSE IF to - from > FullTurn \div 2 THEN to - FullTurn
              ELSE to
      angle == from * den + (near - from) * num
  IN  IF angle < 0 THEN angle + FullTurn * den
      ELSE NormalizeAngle(angle, FullTurn * den)

\* How far along segment i the projection is, as [num, den].
RatioAlong(i, tip, hits) ==
  IF params.normalProjection /\ hits # NoNormal
  THEN [num |-> hits[i].num, den |-> hits[i].den]
  ELSE LET start == state.samples[i].position
           end   == state.samples[i + 1].position
       IN  IF start = end THEN [num |-> 0, den |-> 1]
           ELSE [num |-> Dist(NearestPoint(i, tip), start), den |-> Dist(start, end)]

\* The orientation of the Result, if it has one, as [num, den].
Orientation(sources, tip, hits) ==
  IF Cardinality(sources) = 2
  THEN LET i == Min(sources)
           ratio == RatioAlong(i, tip, hits)
       IN  [num |-> InterpAngle(state.samples[i].orientation,
                                state.samples[i + 1].orientation,
                                ratio.num, ratio.den),
            den |-> ratio.den]
  ELSE [num |-> state.samples[Min(sources)].orientation, den |-> 1]

\* Mutant: missing fields are not stripped.
MissingOnSegment(sources) ==
  IF sources = {} THEN Fields
  ELSE UNION {state.samples[i].unknown : i \in sources}

\* InterpResult leaves out what either end lacks, and Query what any input
\* since Reset lacked.
Missing(sources) ==
  IF sources = {} THEN Fields
  ELSE state.unknown \cup UNION {state.samples[i].unknown : i \in sources}

-----------------------------------------------------------------------------
(* The operations, as the facade calls them *)

Init ==
  /\ params \in Params
  /\ state = Nothing
  /\ saved = NoSave
  /\ output = NoOutput
  /\ lastTime = NoStroke
  /\ history = [now |-> <<>>, saved |-> <<>>]

\* A Down: Reset and then the first Update, with the new parameters.
ResetAndUpdate(p, in) ==
  /\ lastTime = NoStroke
  /\ params' = p
  /\ state' = Tracked(p, Nothing, in)
  /\ saved' = NoSave
  /\ output' = NoOutput
  /\ lastTime' = in.time
  /\ history' = [now |-> <<in>>, saved |-> <<>>]

\* A Move or Up that is not before the last accepted input.  A Move may be
\* rejected after this, which leaves last_input_ as it was; an Up that is
\* accepted ends the stroke.
Update(in) ==
  /\ lastTime # NoStroke /\ in.time >= lastTime
  /\ Len(history.now) < MaxInputs
  /\ state' = Tracked(params, state, in)
  /\ lastTime' \in {in.time, NoStroke, lastTime}
  /\ output' = NoOutput
  /\ history' = [history EXCEPT !.now = Append(@, in)]
  /\ UNCHANGED <<params, saved>>

\* ModelStylus queries for each tip state.  Query is const: a second one would
\* find what the first one found, so each state is queried once.
Query(tip, hits, turn) ==
  /\ history.now # <<>> /\ output = NoOutput
  /\ LET sources == Sources(tip, hits, turn)
         missing == Missing(sources)
     IN  output' = [tip |-> tip, hits |-> hits, turn |-> turn,
                    sources |-> sources, missing |-> missing,
                    orientation |-> IF "orientation" \in missing THEN Unknown
                                    ELSE Orientation(sources, tip, hits)]
  /\ UNCHANGED <<params, state, saved, lastTime, history>>

\* A tip may be anywhere and its normal, if it has one, hit any segments.
QueryAny ==
  \E tip \in TipPositions :
    \/ Query(tip, NoNormal, "right")
    \/ /\ params.normalProjection
       /\ \E on \in SUBSET Segments, turn \in {"left", "right"} :
            \E hits \in [on -> Hits] : Query(tip, hits, turn)

Save ==
  /\ saved' = [state |-> state, lastTime |-> lastTime]
  /\ history' = [history EXCEPT !.saved = history.now]
  /\ output' = NoOutput
  /\ UNCHANGED <<params, state, lastTime>>

Restore ==
  /\ saved # NoSave
  /\ state' = saved.state
  /\ lastTime' = saved.lastTime
  /\ history' = [history EXCEPT !.now = history.saved]
  /\ output' = NoOutput
  /\ UNCHANGED <<params, saved>>

Next ==
  \/ \E p \in Params, in \in Inputs : ResetAndUpdate(p, in)
  \/ \E in \in Inputs : Update(in)
  \/ QueryAny
  \/ Save
  \/ Restore

Spec == Init /\ [][Next]_vars

-----------------------------------------------------------------------------
(* Properties *)

StateType == [samples : Seq(Inputs), unknown : SUBSET Fields]

\* The types of stylus_state_modeler.h:89-110; without normal projection the
\* deque is bounded, and a Query reads samples that are in it.
TypeOK ==
  /\ params \in Params
  /\ state \in StateType
  /\ params.normalProjection \/ Len(state.samples) <= params.maxSamples
  /\ saved # NoSave =>
       saved.state \in StateType /\ saved.lastTime \in Nat \cup {NoStroke}
  /\ lastTime \in Nat \cup {NoStroke}
  /\ output # NoOutput =>
       /\ output.sources \subseteq DOMAIN state.samples
       /\ output.missing \subseteq Fields
       /\ output.orientation \in [num : Nat, den : Nat \ {0}] \cup {Unknown}

\* params.h:176-183, "we accumulate samples until both of the following
\* conditions are true".
Enough(s) ==
  Len(s) >= params.minSamples /\ Last(s).time - s[1].time > params.minDuration

\* No Move was rejected and then followed by one of an earlier time.
InOrder(s) == \A i \in 2 .. Len(s) : s[i - 1].time <= s[i].time

\* While the modeler tracks the stroke, its window is a suffix of the inputs
\* it got and never has too few (params.h:176-183) as long as there are older
\* inputs; without normal projection it is the last max_input_samples.  With
\* inputs in the order of their times it is never too short and never longer
\* than need be: no input dropped earlier is ever missed.
WindowSufficient ==
  state.samples # <<>> =>
    LET n == Len(state.samples)
        older == Len(history.now) - n
    IN  /\ state.samples = SubSeq(history.now, older + 1, Len(history.now))
        /\ IF params.normalProjection
           THEN /\ older > 0 => n >= params.minSamples
                /\ InOrder(history.now) =>
                     /\ older > 0 => Enough(state.samples)
                     /\ n > 1 => ~Enough(Tail(state.samples))
           ELSE n = Min({params.maxSamples, Len(history.now)})

\* A field that any input since the Down lacked (stylus_state_modeler.cc:55-63)
\* is missing from every Result, also when that input has left the window,
\* the Move it came with was rejected, or a Restore came in between; and a
\* Result never lacks a field that all inputs had.
MissingFieldsStick ==
  output # NoOutput =>
    output.missing = UNION {history.now[i].unknown : i \in DOMAIN history.now}

\* Without a stroke normal the tip is projected to the closest point of the
\* polyline (stylus_state_modeler.cc:181-201): on a line, to the tip itself
\* when it is between the extreme inputs, and else to the nearer extreme.
ProjectionIsClosest ==
  output # NoOutput /\ Cardinality(output.sources) = 2
    /\ (output.hits = NoNormal \/ ~params.normalProjection) =>
       LET positions == {state.samples[i].position : i \in DOMAIN state.samples}
           ends == {state.samples[i].position : i \in output.sources}
           clamped == Max({Min(positions), Min({output.tip, Max(positions)})})
       IN  Min(ends) <= clamped /\ clamped <= Max(ends)

\* Along a stroke normal (stylus_state_modeler.cc:137-178): a hit is used if
\* there is one, never one on the inside of a turn that has an outside one,
\* and none on its side is nearer.
ProjectionIsOutside ==
  output # NoOutput /\ params.normalProjection /\ output.hits # NoNormal =>
       LET used == output.hits[Min(output.sources)]
       IN  \A i \in DOMAIN output.hits :
             \/ output.hits[i].side # used.side /\ used.side # output.turn
             \/ output.hits[i].side = used.side
                  /\ used.distance <= output.hits[i].distance

\* The angle between two orientations, the shorter way.
Arc(a, b, full) == LET turn == Dist(a, b) % full IN Min({turn, full - turn})

\* An orientation is interpolated around the shorter path (utils.h:63-66): it
\* is turned from that of the one input towards that of the other as far as
\* the projection is along the segment, across zero too.  This is of directions:
\* the code may give a full turn for 0 (utils.h:70), which utils.h:65-66 excludes.
OrientationTakesShorterPath ==
  output # NoOutput /\ Cardinality(output.sources) = 2
    /\ output.orientation # Unknown =>
       LET i     == Min(output.sources)
           ratio == RatioAlong(i, output.tip, output.hits)
           full  == FullTurn * ratio.den
           from  == state.samples[i].orientation
           to    == state.samples[i + 1].orientation
           angle == output.orientation.num
       IN  /\ Arc(from * ratio.den, angle, full) = Arc(from, to, FullTurn) * ratio.num
           /\ Arc(angle, to * ratio.den, full)
                = Arc(from, to, FullTurn) * (ratio.den - ratio.num)
=============================================================================
