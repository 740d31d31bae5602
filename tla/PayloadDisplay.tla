--------------------------- MODULE PayloadDisplay ---------------------------
(***************************************************************************)
(* What MqttClient::on_message makes of a decoded payload                  *)
(* (server/source/network/mqttclient.cpp): the bytes are read from a       *)
(* stream one by one, counted in a uint8_t, printed in hex up to           *)
(* BYTE_COUNT of them, and centred in the window " Last payload (hex) ".   *)
(*                                                                         *)
(* One message after the other; nobody else writes this window.            *)
(***************************************************************************)
EXTENDS Integers, Sequences

CONSTANTS
  Payloads,     \* what base64Decoder.decode may leave in the stream
  MaxPayload,   \* LORAWAN_APP_DATA_MAX_SIZE
  SizeModulus   \* of size_t

Byte == 0 .. 255

ASSUME MaxPayloadAssumption == MaxPayload \in Byte
ASSUME SizeModulusAssumption == SizeModulus \in Nat /\ SizeModulus > 100
ASSUME PayloadsAssumption ==
  \A p \in Payloads : p \in Seq(Byte) /\ Len(p) <= MaxPayload

VARIABLES
  pc,
  out,         \* the stream of decoded bytes
  gets,        \* how many of them out.get() has extracted
  validBytes,
  text,        \* the numbers printed to sstring
  size,        \* the length of sstring
  window,      \* what the payload window shows, and at which column
  warning      \* the number of bytes this message's warning names, or 0

sstring == <<text, size>>
vars == <<pc, out, gets, validBytes, sstring, window, warning>>

\* A uint8_t.
CounterModulus == 256

\* (mutant) more bytes than the window is wide
ByteCountTwelve == 12

BYTE_COUNT == 8

\* Columns of " | ", which precedes and follows every number.
Separator == 3

\* The window has 60 columns, two of them for the box.
WindowWidth == 58

\* Digits of a number in hex.  setw(2) holds for one output only, and that is
\* the first separator: no number is filled up.
Digits(value) == IF value < 16 THEN 1 ELSE 2

TypeOK ==
  /\ pc \in {"idle", "loop", "show", "warn"}
  /\ out \in Seq(Byte)
  /\ gets \in Nat
  /\ validBytes \in Byte
  /\ text \in Seq(Byte)
  /\ size \in Nat
  /\ window \in [column : Nat, text : Seq(Byte), size : Nat]
  /\ warning \in Byte

Init ==
  /\ pc = "idle"
  /\ out = <<>>
  /\ gets = 0
  /\ validBytes = 0
  /\ text = <<>>
  /\ size = 0
  /\ window = [column |-> 0, text |-> <<>>, size |-> 0]
  /\ warning = 0

-----------------------------------------------------------------------------

\* (mutant) the counter goes on from message to message
DecodeGoingOn ==
  /\ pc = "idle"
  /\ out' \in Payloads
  /\ gets' = 0
  /\ text' = <<>>
  /\ size' = Separator
  /\ warning' = 0
  /\ pc' = "loop"
  /\ UNCHANGED <<validBytes, window>>

\* The payload is decoded, and the line begun with a separator.
Decode ==
  /\ pc = "idle"
  /\ out' \in Payloads
  /\ gets' = 0
  /\ validBytes' = 0
  /\ text' = <<>>
  /\ size' = Separator
  /\ warning' = 0
  /\ pc' = "loop"
  /\ UNCHANGED window

\* (mutant) without the bitmask: a char is signed
GetByteSigned ==
  /\ pc = "loop"
  /\ gets < Len(out)
  /\ gets' = gets + 1
  /\ validBytes' = (validBytes + 1) % CounterModulus
  /\ IF validBytes' <= BYTE_COUNT
     THEN LET value == ((out[gets'] + 128) % 256) - 128
          IN  /\ text' = Append(text, value)
              /\ size' = size + Digits(value) + Separator
     ELSE UNCHANGED sstring
  /\ UNCHANGED <<pc, out, window, warning>>

\* out.get() extracts a byte: gcount() is 1.
GetByte ==
  /\ pc = "loop"
  /\ gets < Len(out)
  /\ gets' = gets + 1
  /\ validBytes' = (validBytes + 1) % CounterModulus
  /\ IF validBytes' <= BYTE_COUNT
     THEN /\ text' = Append(text, out[gets'])
          /\ size' = size + Digits(out[gets']) + Separator
     ELSE UNCHANGED sstring
  /\ UNCHANGED <<pc, out, window, warning>>

\* (mutant) the attempt to read behind the last byte is counted
GetEndCounted ==
  /\ pc = "loop"
  /\ gets = Len(out)
  /\ validBytes' = (validBytes + 1) % CounterModulus
  /\ pc' = "show"
  /\ UNCHANGED <<out, gets, sstring, window, warning>>

\* out.get() meets the end: gcount() is 0, and the stream is no longer good.
GetEnd ==
  /\ pc = "loop"
  /\ gets = Len(out)
  /\ pc' = "show"
  /\ UNCHANGED <<out, gets, validBytes, sstring, window, warning>>

\* m_payloadWindow.display() << sstring: Window::showString clears the window
\* and prints at a column it computes in the arithmetic of size_t.
ShowString ==
  /\ pc = "show"
  /\ window' = [column |-> ((WindowWidth - size) % SizeModulus) \div 2,
                text |-> text, size |-> size]
  /\ pc' = "warn"
  /\ UNCHANGED <<out, gets, validBytes, sstring, warning>>

\* The warning goes to the log window.
Warn ==
  /\ pc = "warn"
  /\ warning' = IF validBytes > BYTE_COUNT THEN validBytes ELSE 0
  /\ pc' = "idle"
  /\ UNCHANGED <<out, gets, validBytes, sstring, window>>

Next == Decode \/ GetByte \/ GetEnd \/ ShowString \/ Warn

Spec == Init /\ [][Next]_vars

\* on_message runs to its end; nobody promises another message.
FairSpec == Spec /\ WF_vars(pc # "idle" /\ Next)
=============================================================================
