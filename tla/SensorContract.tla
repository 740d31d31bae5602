--------------------------- MODULE SensorContract ---------------------------
(***************************************************************************)
(* What a measurement promises the node that asks for it: one answer,      *)
(* which is the one value that the sensor converted in this very call if   *)
(* nothing disturbed it, and 0 if the driver knows that it failed; and     *)
(* what is sent is this answer.  A disturbed call that does not know of it *)
(* may answer with anything.                                               *)
(***************************************************************************)
EXTENDS Naturals

CONSTANTS
  Temperatures,  \* what the sensor may measure
  Word,          \* what an answer may be
  Nothing        \* no conversion in this call

VARIABLES
  phase,        \* "resting", "measuring", "answered"
  disturbed,    \* something went wrong in this call, or after it
  measured,
  success, temperature,  \* the last answer
  sent                   \* the temperature of the last frame

vars == <<phase, disturbed, measured, success, temperature, sent>>

Init ==
  /\ phase = "resting"
  /\ disturbed = FALSE
  /\ measured = Nothing
  /\ success = FALSE /\ temperature = 0
  /\ sent = 0

Ask ==
  /\ phase = "resting"
  /\ phase' = "measuring"
  /\ disturbed' \in BOOLEAN
  /\ measured' = Nothing
  /\ UNCHANGED <<success, temperature, sent>>

Disturb ==
  /\ disturbed' = TRUE
  /\ UNCHANGED <<phase, measured, success, temperature, sent>>

Convert ==
  /\ phase = "measuring"
  /\ measured = Nothing
  /\ measured' \in Temperatures
  /\ UNCHANGED <<phase, disturbed, success, temperature, sent>>

Answer ==
  /\ phase = "measuring"
  /\ phase' = "answered"
  /\ UNCHANGED <<measured, sent>>

Succeed ==
  /\ Answer
  /\ success' = TRUE
  /\ temperature' \in Word
  /\ \/ disturbed' = TRUE
     \/ /\ UNCHANGED disturbed
        /\ measured # Nothing
        /\ temperature' = measured

Fail ==
  /\ Answer
  /\ success' = FALSE
  /\ temperature' = 0
  /\ disturbed' = TRUE

Send ==
  /\ phase = "answered"
  /\ phase' = "resting"
  /\ sent' = temperature
  /\ UNCHANGED <<disturbed, measured, success, temperature>>

Next == Ask \/ Disturb \/ Convert \/ Succeed \/ Fail \/ Send

Spec == Init /\ [][Next]_vars
=============================================================================
