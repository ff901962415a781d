--------------------------- MODULE MCObservationLog ---------------------------
(* ObservationLog for TLC: the requests are alike, so states that differ only *)
(* in their names are explored once.  No liveness is checked with this.       *)
EXTENDS ObservationLog, TLC

RequestsAlike == Permutations(Writers)
=============================================================================
