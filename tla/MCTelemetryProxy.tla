-------------------------- MODULE MCTelemetryProxy --------------------------
(* The instances of TelemetryProxy that TLC checks. *)
EXTENDS TelemetryProxy, TLC

Symmetry == Permutations(Conns)
=============================================================================
