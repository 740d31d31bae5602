---------------------------- MODULE MCSensorNode ----------------------------
(* Instances of SensorNode for TLC; the values are in the configurations.   *)
EXTENDS SensorNodeProperties
=============================================================================
