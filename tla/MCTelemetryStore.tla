-------------------------- MODULE MCTelemetryStore --------------------------
(***************************************************************************)
(* TelemetryStore for TLC: the two streams are interchangeable, since the  *)
(* store only compares them, and every property here is one of states.     *)
(* Number 3 never arrives: a gap is of one number, after 2, or of two.     *)
(***************************************************************************)
EXTENDS TelemetryStore, TLC

SomePackets == [stream: Streams, source: Sources, ssn: SourceNumbers, g: (1..MaxNumber) \ {3}]
StreamSymmetry == Permutations(Streams)
=============================================================================
