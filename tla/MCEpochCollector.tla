-------------------------- MODULE MCEpochCollector --------------------------
(* Instances of EpochCollector. *)
EXTENDS EpochCollector

CONSTANTS c1, c2

=============================================================================
