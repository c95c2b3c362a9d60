--------------------- MODULE MCLoopContractionMitigation ---------------------
(***************************************************************************)
(* Small instances of LoopContractionMitigation.                           *)
(***************************************************************************)
EXTENDS LoopContractionMitigation

MCParam(enabled, lower, upper, minWindow, minSamples) ==
  [enabled |-> enabled, speedLower |-> lower, speedUpper |-> upper,
   atLower |-> 3, atUpper |-> 1, minWindow |-> minWindow,
   minSamples |-> minSamples]

\* Windows bounded by duration, by number and by both; equal speed bounds; off.
MCParams == {
  MCParam(TRUE, 1, 4, 2, 1), MCParam(TRUE, 2, 3, 1, 3),
  MCParam(TRUE, 2, 2, 3, 2), MCParam(FALSE, 0, 0, 1, 1) }

MCSpeeds == {0, 2, 6}
MCTimes == {0, 1, 2, 4}
=============================================================================
