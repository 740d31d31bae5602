----------------------------- MODULE NodeFrames -----------------------------
(***************************************************************************)
(* The frames of a node (node/common/LoRa.c:179-231, :258-357): the state  *)
(* machine of LoRaNode together with what its handlers write into          *)
(* AppDataBuffer and AppData, what the MAC puts on the air of it, and the  *)
(* report that McpsConfirm prints from the same variables.                 *)
(*                                                                         *)
(* Every step is a step of LoRaNode.  A sample is what PrepareTxFrame of   *)
(* the node program writes: battery level and temperature of a sensor      *)
(* (see SensorNode), the battery level of an actuator.  The MAC copies     *)
(* what it accepts.                                                        *)
(***************************************************************************)
EXTENDS LoRaNode

CONSTANTS
  Samples,
  AppDataSize,    \* 3 in a sensor, 1 in an actuator
  IsTxConfirmed,  \* LORAWAN_CONFIRMED_MSG_ON
  Garbage         \* values of a port that was never assigned

ASSUME AppDataSizeAssumption == AppDataSize \in Nat \ {0}
ASSUME IsTxConfirmedAssumption == IsTxConfirmed \in BOOLEAN
ASSUME GarbageAssumption == Garbage \subseteq 0 .. 255
ASSUME SamplesAssumption == {"zero", "empty"} \cap Samples = {}

VARIABLES
  AppDataBuffer,
  AppData,        \* its Buffer is AppDataBuffer, if BufferSize is not 0
  onAir,          \* (external) the last frame the MAC accepted
  overtaken,      \* another attempt was made after that
  wanted          \* an uplink was asked for, and none was accepted since

frameVars == <<AppDataBuffer, AppData, onAir, overtaken, wanted>>
allVars == <<vars, frameVars>>

AppPort == 2

MsgType == {"UNCONFIRMED", "CONFIRMED"}

FramesTypeOK ==
  /\ AppDataBuffer \in {"zero"} \cup Samples
  /\ AppData \in [MsgType : MsgType, Port : 0 .. 255,
                  BufferSize : {0, AppDataSize}]
  /\ onAir \in [MsgType : MsgType, Port : 0 .. 255,
                Data : {"empty"} \cup Samples]
  /\ overtaken \in BOOLEAN
  /\ wanted \in BOOLEAN

FramesInit ==
  /\ Init
  /\ AppDataBuffer = "zero"
  /\ AppData = [MsgType |-> "UNCONFIRMED", Port |-> 0, BufferSize |-> 0]
  /\ onAir = [MsgType |-> "UNCONFIRMED", Port |-> 0, Data |-> "empty"]
  /\ overtaken = FALSE
  /\ wanted = FALSE

\* The frame that AppData describes and McpsConfirm prints.
Described ==
  [MsgType |-> AppData.MsgType,
   Port    |-> AppData.Port,
   Data    |-> IF AppData.BufferSize = 0 THEN "empty" ELSE AppDataBuffer]

\* PrepareTxFrame(AppPort) of the node program.
PrepareTxFrame == AppDataBuffer' \in Samples

\* The requests of SendFrame: one with the sample, and one without data, for
\* the case that the sample is too long for the data rate.  The port of the
\* second is never assigned.
DataRequest(sample) ==
  [MsgType |-> IF IsTxConfirmed THEN "CONFIRMED" ELSE "UNCONFIRMED",
   Port    |-> AppPort,
   Data    |-> sample]

EmptyRequest(port) ==
  [MsgType |-> "UNCONFIRMED", Port |-> port, Data |-> "empty"]

\* (mutant) AppData is written for a frame with data only
SetAppDataIfAny(req) ==
  AppData' = IF req.Data = "empty" THEN AppData
             ELSE [MsgType |-> req.MsgType, Port |-> req.Port,
                   BufferSize |-> AppDataSize]

SetAppData(req) ==
  AppData' = [MsgType    |-> req.MsgType,
              Port       |-> req.Port,
              BufferSize |-> IF req.Data = "empty" THEN 0 ELSE AppDataSize]

\* DEVICE_STATE_SEND with NextTx: the variables are overwritten, whatever the
\* MAC answers then.
Attempt ==
  /\ PrepareTxFrame
  /\ \E req \in {DataRequest(AppDataBuffer')} \cup
                {EmptyRequest(port) : port \in Garbage} :
       /\ SetAppData(req)
       /\ \/ /\ Accepted
             /\ onAir' = req
             /\ overtaken' = FALSE
             /\ wanted' = FALSE
          \/ /\ ~Accepted
             /\ overtaken' = TRUE
             /\ UNCHANGED <<onAir, wanted>>

CaseSendFrame ==
  /\ CaseSend
  /\ IF NextTx THEN Attempt ELSE UNCHANGED frameVars

\* The server has more data, or the MAC wants to answer it.
UplinkWanted ==
  /\ McpsIndication \/ MlmeIndication
  /\ wanted' = TRUE
  /\ UNCHANGED <<AppDataBuffer, AppData, onAir, overtaken>>

ResetFrames ==
  /\ Reset
  /\ AppDataBuffer' = "zero"
  /\ AppData' = [MsgType |-> "UNCONFIRMED", Port |-> 0, BufferSize |-> 0]
  /\ overtaken' = FALSE
  /\ wanted' = FALSE
  /\ UNCHANGED onAir

\* Whatever else the node does leaves its frames alone.
OtherStep ==
  /\ \/ InitializeMac \/ Halted \/ LoRaMacProcess
     \/ RequestContinues \/ Confirm \/ NoUplinkWanted
     \/ Dispatch \/ CaseRestore \/ CaseStart \/ CaseJoin \/ CaseSendDone
     \/ CaseCycleJoin \/ ArmJoin \/ CaseCycleRun \/ ArmRun
     \/ CaseSleep \/ SleepPending \/ SleepLowPower \/ LeaveCritical
     \/ TimerInterrupt \/ OnMacProcessNotify
  /\ UNCHANGED frameVars

FramesNext == CaseSendFrame \/ UplinkWanted \/ ResetFrames \/ OtherStep

FramesSpec == FramesInit /\ [][FramesNext]_allVars

\* As in LoRaNode; and a MAC that is asked again and again while it is idle
\* takes a frame in the end (the band is free, the frame fits).
FramesFairSpec ==
  FramesSpec /\ Fairness /\ SF_vars(CaseSend /\ Accepted)
=============================================================================
