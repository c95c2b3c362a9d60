--------------------------------- MODULE Sums ---------------------------------
(***************************************************************************)
(* Sums of sequences of numbers, as the running sums of the modelers are   *)
(* of what is in their windows.                                            *)
(***************************************************************************)
EXTENDS Integers, Sequences

Total(values) ==
  LET sum[n \in 0 .. Len(values)] == IF n = 0 THEN 0 ELSE sum[n - 1] + values[n]
  IN  sum[Len(values)]
=============================================================================
