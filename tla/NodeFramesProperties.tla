------------------------ MODULE NodeFramesProperties ------------------------
(***************************************************************************)
(* What a node sends, what it says it has sent, and whether it sends when  *)
(* it is asked to.                                                         *)
(***************************************************************************)
EXTENDS NodeFrames, LoRaNodeProperties

\* What McpsConfirm is going to print of the uplink in flight is what the MAC
\* sends, although it reads variables that every attempt overwrites: only an
\* attempt that the MAC refused meanwhile makes the report wrong, and a frame
\* without data is never reported with a port's old data (LoRa.c:213-222,
\* :303-318).
ReportFitsFrame ==
  macRequest = "uplink" /\ ~overtaken =>
    /\ Described.MsgType = onAir.MsgType
    /\ Described.Data = onAir.Data
    /\ Described.Data # "empty" => Described.Port = AppPort

\* An uplink that the server or the MAC asked for is sent in the end, unless
\* the node restarts: no refusal, confirmation or timer between the request
\* and the attempt makes the node forget it (LoRa.c:395-400, :505-510).
WantedIsSent == wanted ~> ~wanted

-----------------------------------------------------------------------------
(* The inductive invariant, on top of LoRaNode's TypeOK                    *)

FramesInv ==
  /\ TypeOK
  /\ FramesTypeOK
  /\ ReportFitsFrame
=============================================================================
