--------------------------- MODULE PayloadContract ---------------------------
(***************************************************************************)
(* What the user sees of a message's payload: one line in the middle of    *)
(* the payload window, with as many of its bytes as fit, and a warning     *)
(* with their number when there are more.  No byte is read twice and none  *)
(* of another message; the next message comes after that.                  *)
(***************************************************************************)
EXTENDS Integers, Sequences, FiniteSets

CONSTANTS
  Payloads,
  Shown,      \* bytes that fit
  Separator,  \* columns of what precedes and follows every number
  Width       \* columns of the window

VARIABLES phase, payload, window, warning

vars == <<phase, payload, window, warning>>

ShownBytes(p) == SubSeq(p, 1, IF Len(p) < Shown THEN Len(p) ELSE Shown)

\* Every number has a digit, and one above 15 has two.
LineSize(bytes) ==
  Separator + Len(bytes) * (1 + Separator)
    + Cardinality({i \in 1 .. Len(bytes) : bytes[i] > 15})

Centred(bytes) ==
  [column |-> (Width - LineSize(bytes)) \div 2,
   text   |-> bytes,
   size   |-> LineSize(bytes)]

Init ==
  /\ phase = "waiting"
  /\ payload = <<>>
  /\ window = [column |-> 0, text |-> <<>>, size |-> 0]
  /\ warning = 0

Receive ==
  /\ phase = "waiting"
  /\ phase' = "received"
  /\ payload' \in Payloads
  /\ warning' = 0
  /\ UNCHANGED window

Show ==
  /\ phase = "received"
  /\ phase' = "shown"
  /\ window' = Centred(ShownBytes(payload))
  /\ UNCHANGED <<payload, warning>>

Warn ==
  /\ phase = "shown"
  /\ phase' = "waiting"
  /\ warning' = IF Len(payload) > Shown THEN Len(payload) ELSE 0
  /\ UNCHANGED <<payload, window>>

Next == Receive \/ Show \/ Warn

Spec == Init /\ [][Next]_vars

\* Every payload that was received is shown, and its warning printed.
FairSpec == Spec /\ WF_vars(Show) /\ WF_vars(Warn)
=============================================================================
