--------------------------- MODULE MCRetrySchedule --------------------------
(* RetrySchedule with two ticks a second and a five-bit duration, so that the
   longest Retry-After overflows. *)
EXTENDS RetrySchedule, TLC

Symmetry == Permutations(Rows)
=============================================================================
