------------------------------- MODULE MCRelayer -------------------------------
(* Instances of the relayer job for TLC. *)
EXTENDS RelayerJob

CONSTANTS EngineA, EngineB

AllKinds == {"placement", "recovery", "control"}
TwoEngines == {EngineA, EngineB}

================================================================================
