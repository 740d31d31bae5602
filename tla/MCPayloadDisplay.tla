-------------------------- MODULE MCPayloadDisplay --------------------------
(* An instance of PayloadDisplay for TLC.                                  *)
EXTENDS PayloadDisplayProperties

\* A payload of n bytes, small and large ones mixed.
Ramp(n) == [i \in 1 .. n |-> (i * 37) % 256]

\* No byte, one, the sensor's three, the limit of the line and its
\* neighbours, and the largest frame.
MCPayloads == {Ramp(n) : n \in {0, 1, 7, 8, 9, 242}} \cup {<<254, 1, 145>>}
=============================================================================
