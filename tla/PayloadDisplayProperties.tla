---------------------- MODULE PayloadDisplayProperties ----------------------
(***************************************************************************)
(* What the payload window and the warning say about a payload.            *)
(***************************************************************************)
EXTENDS PayloadDisplay

Smaller(a, b) == IF a < b THEN a ELSE b

\* When a message has been dealt with the window shows its first bytes, every
\* one once and in order, whatever messages came before and although the
\* last get() of every message fails (mqttclient.cpp:184-199).  The counter
\* is a uint8_t; no payload that fits a frame makes it wrap.
ShowsFirstBytes ==
  pc = "idle" => window.text = SubSeq(out, 1, Smaller(Len(out), BYTE_COUNT))

\* A warning is printed for exactly the messages whose bytes are not all in the
\* window, and names the number they have (mqttclient.cpp:201-206).
WarningIsTrue ==
  pc = "idle" =>
    /\ (warning # 0) = (Len(window.text) < Len(out))
    /\ warning \in {0, Len(out)}

\* The unsigned subtraction in Window::showString never wraps: every line
\* lies inside the window, as far from its left edge as from its right edge
\* (window.cpp:104-109).
LineFits ==
  /\ window.column + window.size <= WindowWidth
  /\ pc = "warn" => 2 * window.column + size \in {WindowWidth - 1, WindowWidth}

\* Readme.md:147 shows the payload as "| 42 | BE | EF | CA | FE |": two hex
\* digits for each byte.
TwoDigitsPerByte ==
  pc = "warn" => size = Separator + Len(text) * (2 + Separator)

-----------------------------------------------------------------------------
(* Refinement                                                              *)

ContractPhase ==
  CASE pc = "idle"             -> "waiting"
    [] pc \in {"loop", "show"} -> "received"
    [] pc = "warn"             -> "shown"

Contract == INSTANCE PayloadContract
  WITH phase <- ContractPhase, payload <- out,
       Shown <- BYTE_COUNT, Width <- WindowWidth

\* The loop over a stream, with its 8 bit counter, its failing last get and
\* the unsigned arithmetic of the column, shows what PayloadContract says,
\* and comes to an end (mqttclient.cpp:170-212, window.cpp:94-111).
ImplementsContract == Contract!FairSpec

-----------------------------------------------------------------------------
(* The inductive invariant                                                 *)

\* The counter is the number of bytes read, and the line a beginning of them;
\* its length is 0 before the first message.
CounterFollows ==
  /\ gets <= Len(out) /\ Len(out) <= MaxPayload
  /\ validBytes = gets
  /\ text = SubSeq(out, 1, Smaller(gets, BYTE_COUNT))
  /\ size = Contract!LineSize(text) \/ (pc = "idle" /\ size = 0)
  /\ pc # "loop" => gets = Len(out)
  /\ pc \in {"warn", "idle"} => window.text = text /\ window.size = size

IInv ==
  /\ TypeOK
  /\ CounterFollows
  /\ LineFits
  /\ ShowsFirstBytes
  /\ WarningIsTrue
=============================================================================
