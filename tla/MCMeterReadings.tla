--------------------------- MODULE MCMeterReadings ---------------------------
(* Instances of MeterReadings for TLC. *)
EXTENDS MeterReadings, TLC

CONSTANTS m1

\* Legacy instants were read one step late; instant 2 falls into the hour that
\* the change to summer time skips and has no correct instant.
EarlyOrGap == [t \in 0..LastTime |-> IF t = 2 THEN None ELSE t - 1]
=============================================================================
