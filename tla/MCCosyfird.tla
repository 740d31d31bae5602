----------------------------- MODULE MCCosyfird -----------------------------
(* Instances of Cosyfird for TLC: the kinds of messages are model values.   *)
EXTENDS CosyfirdProperties
=============================================================================
