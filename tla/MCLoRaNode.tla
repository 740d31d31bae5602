----------------------------- MODULE MCLoRaNode -----------------------------
(* Instances of LoRaNode for TLC; the values are in the configurations.     *)
EXTENDS LoRaNodeProperties
=============================================================================
