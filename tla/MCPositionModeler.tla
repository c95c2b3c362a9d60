--------------------------- MODULE MCPositionModeler ---------------------------
(***************************************************************************)
(* A small instance of PositionModeler.                                    *)
(***************************************************************************)
EXTENDS PositionModeler

At(px, py) == [x |-> px, y |-> py]

\* Steps towards an input, beside it and beyond it, and one (from x = 4 to
\* x = 5) below the stop distance.
MCPoints == {At(0, 0), At(2, 0), At(4, 0), At(5, 1)}

\* With Tick = 8: a part of a step, a whole one, two steps.
MCTimes == {0, 4, 12}
=============================================================================
