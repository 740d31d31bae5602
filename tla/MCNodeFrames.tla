---------------------------- MODULE MCNodeFrames ----------------------------
(* A sensor node with two samples; an unassigned port is one of three.      *)
EXTENDS NodeFramesProperties

MCGarbage == {0, 2, 255}
=============================================================================
