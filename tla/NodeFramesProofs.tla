-------------------------- MODULE NodeFramesProofs --------------------------
(***************************************************************************)
(* The report of an uplink is true, for any samples, any size of them and  *)
(* confirmed and unconfirmed messages.  A node with frames is a node, so   *)
(* everything LoRaNodeProofs shows holds of it as well.                    *)
(***************************************************************************)
EXTENDS NodeFramesProperties, LoRaNodeLivenessProofs

-----------------------------------------------------------------------------
(* A node with frames is a node                                            *)

LEMMA FramesStepIsStep == [FramesNext]_allVars => [Next]_vars
  <1>1. CaseSendFrame => Next
    BY DEF CaseSendFrame, Next, MainLoop, Cases
  <1>2. UplinkWanted => Next
    BY DEF UplinkWanted, Next, MainLoop, Callbacks
  <1>3. ResetFrames => Next
    BY DEF ResetFrames, Next
  <1>4. OtherStep => Next
    BY DEF OtherStep, Next, MainLoop, Callbacks, Cases
  <1> QED
    BY <1>1, <1>2, <1>3, <1>4 DEF FramesNext, allVars

\* Whatever the frames contain, the state machine behaves as LoRaNode says.
THEOREM FramesImplementNode == FramesSpec => Spec
  <1>1. FramesInit => Init
    BY DEF FramesInit
  <1> QED
    BY <1>1, FramesStepIsStep, PTL DEF FramesSpec, Spec

-----------------------------------------------------------------------------
(* Types and the report                                                    *)

LEMMA FramesInvInit == FramesInit => FramesInv
  <1> SUFFICES ASSUME FramesInit
               PROVE  FramesInv
    OBVIOUS
  <1>1. TypeOK
    BY TypeInit DEF FramesInit
  <1>2. FramesTypeOK
    <2>1. overtaken \in BOOLEAN /\ wanted \in BOOLEAN
      BY Zenon DEF FramesInit
    <2> QED
      BY <2>1, GarbageAssumption DEF FramesInit, FramesTypeOK, MsgType
  <1>3. ReportFitsFrame
    BY DEF FramesInit, Init, ReportFitsFrame
  <1> QED
    BY <1>1, <1>2, <1>3 DEF FramesInv

\* An attempt makes AppData describe the request, and only an accepted one
\* is in flight afterwards without having been overtaken.
LEMMA AttemptKeeps ==
  ASSUME FramesInv, CaseSend, NextTx, Attempt
  PROVE  FramesTypeOK' /\ ReportFitsFrame'
  <1> USE DEF FramesInv
  <1>1. PICK req \in {DataRequest(AppDataBuffer')} \cup
                     {EmptyRequest(port) : port \in Garbage} :
          /\ SetAppData(req)
          /\ \/ Accepted /\ onAir' = req /\ overtaken' = FALSE /\ wanted' = FALSE
             \/ ~Accepted /\ overtaken' = TRUE /\ UNCHANGED <<onAir, wanted>>
    BY DEF Attempt
  <1>2. AppDataBuffer' \in Samples /\ AppDataBuffer' # "empty"
    BY SamplesAssumption DEF Attempt, PrepareTxFrame
  <1>3. /\ req.MsgType \in MsgType
        /\ req.Port \in 0 .. 255
        /\ req.Data = "empty" \/ req.Data = AppDataBuffer'
        /\ req.Data = AppDataBuffer' => req.Port = AppPort
        /\ req = [MsgType |-> req.MsgType, Port |-> req.Port, Data |-> req.Data]
    BY <1>2, GarbageAssumption
    DEF DataRequest, EmptyRequest, MsgType, AppPort
  <1>4. /\ AppData'.MsgType = req.MsgType
        /\ AppData'.Port = req.Port
        /\ AppData'.BufferSize = IF req.Data = "empty" THEN 0 ELSE AppDataSize
    BY <1>1 DEF SetAppData
  <1>5. Described'.Data = req.Data /\ Described'.MsgType = req.MsgType
          /\ Described'.Port = req.Port
    BY <1>2, <1>3, <1>4, AppDataSizeAssumption DEF Described
  <1>6. FramesTypeOK'
    <2>1. AppData' \in [MsgType : MsgType, Port : 0 .. 255,
                        BufferSize : {0, AppDataSize}]
      BY <1>1, <1>3 DEF SetAppData
    <2>2. onAir' \in [MsgType : MsgType, Port : 0 .. 255,
                      Data : {"empty"} \cup Samples]
      BY <1>1, <1>2, <1>3 DEF FramesTypeOK
    <2>3. overtaken' \in BOOLEAN /\ wanted' \in BOOLEAN
      BY <1>1, Zenon DEF FramesTypeOK
    <2> QED
      BY <1>2, <2>1, <2>2, <2>3 DEF FramesTypeOK
  <1>7. ReportFitsFrame'
    BY <1>1, <1>2, <1>3, <1>5 DEF ReportFitsFrame
  <1> QED
    BY <1>6, <1>7

LEMMA FramesInvStep == FramesInv /\ [FramesNext]_allVars => FramesInv'
  <1> SUFFICES ASSUME FramesInv, [FramesNext]_allVars
               PROVE  FramesInv'
    OBVIOUS
  <1>1. TypeOK'
    BY FramesStepIsStep, TypeStep DEF FramesInv
  <1>2. CASE UNCHANGED <<macRequest, frameVars>>
    BY <1>1, <1>2
    DEF FramesInv, FramesTypeOK, ReportFitsFrame, Described, frameVars
  <1>3. CASE CaseSendFrame
    <2>1. CASE NextTx
      BY <1>1, <1>3, <2>1, AttemptKeeps DEF CaseSendFrame, FramesInv
    <2>2. CASE ~NextTx
      <3>1. UNCHANGED <<macRequest, frameVars>>
        BY <1>3, <2>2 DEF CaseSendFrame, CaseSend
      <3> QED
        BY <1>2, <3>1
    <2> QED
      BY <2>1, <2>2
  <1>4. CASE UplinkWanted
    <2>1. /\ UNCHANGED <<AppDataBuffer, AppData, onAir, overtaken>>
          /\ wanted' = TRUE
      BY <1>4 DEF UplinkWanted
    <2>2. macRequest' = "uplink" => macRequest = "uplink"
      BY <1>4 DEF UplinkWanted, McpsIndication, MlmeIndication,
                  OnTxNextPacketTimerEvent, JoinNetwork
    <2>3. FramesTypeOK'
      <3>1. overtaken' \in BOOLEAN
        BY <2>1, Zenon DEF FramesInv, FramesTypeOK
      <3>2. wanted' \in BOOLEAN
        BY <2>1, Zenon
      <3> QED
        BY <2>1, <3>1, <3>2 DEF FramesInv, FramesTypeOK
    <2>4. ReportFitsFrame'
      BY <2>1, <2>2 DEF FramesInv, ReportFitsFrame, Described
    <2> QED
      BY <1>1, <2>3, <2>4 DEF FramesInv
  <1>5. CASE ResetFrames
    <2>1. macRequest' # "uplink"
      BY <1>5 DEF ResetFrames, Reset
    <2>2. FramesTypeOK'
      <3>1. overtaken' \in BOOLEAN /\ wanted' \in BOOLEAN
        BY <1>5, Zenon DEF ResetFrames
      <3>2. AppDataBuffer' = "zero" /\ UNCHANGED onAir
        BY <1>5 DEF ResetFrames
      <3>3. AppData' = [MsgType |-> "UNCONFIRMED", Port |-> 0, BufferSize |-> 0]
        BY <1>5 DEF ResetFrames
      <3> QED
        BY <3>1, <3>2, <3>3 DEF FramesInv, FramesTypeOK, MsgType
    <2> QED
      BY <1>1, <2>1, <2>2 DEF FramesInv, ReportFitsFrame
  <1>6. CASE OtherStep
    <2>1. UNCHANGED frameVars
      BY <1>6 DEF OtherStep
    <2>2. macRequest' = "uplink" => macRequest = "uplink"
      BY <1>6
      DEF OtherStep, InitializeMac, Halted, LoRaMacProcess, RequestContinues,
          Confirm, MlmeConfirmJoined, MlmeConfirmFailed, McpsConfirm,
          NoUplinkWanted, Dispatch, CaseRestore, CaseStart, CaseJoin,
          JoinNetwork, CaseSendDone, CaseCycleJoin, ArmJoin, CaseCycleRun,
          ArmRun, CaseSleep, SleepPending, SleepLowPower, LeaveCritical,
          TimerInterrupt, OnTxNextPacketTimerEvent, OnMacProcessNotify,
          vars, envVars
    <2>3. FramesTypeOK'
      BY <2>1 DEF FramesInv, FramesTypeOK, frameVars
    <2>4. ReportFitsFrame'
      BY <2>1, <2>2 DEF FramesInv, ReportFitsFrame, Described, frameVars
    <2> QED
      BY <1>1, <2>3, <2>4 DEF FramesInv
  <1> QED
    BY <1>2, <1>3, <1>4, <1>5, <1>6 DEF FramesNext, allVars, vars

\* AppData, AppDataBuffer and the frames keep their types, and AppData
\* describes the frame in flight (LoRa.c:179-231).
THEOREM FramesInductive == FramesSpec => []FramesInv
  BY FramesInvInit, FramesInvStep, PTL DEF FramesSpec

\* The types alone (LoRa.c:34-37, :100).
THEOREM FramesTypeCorrect == FramesSpec => []FramesTypeOK
  <1>1. FramesInv => FramesTypeOK
    BY DEF FramesInv
  <1> QED
    BY <1>1, FramesInductive, PTL

\* Only an attempt that was refused makes the report of an uplink wrong
\* (LoRa.c:213-222, :303-318).
THEOREM ReportIsTrue == FramesSpec => []ReportFitsFrame
  <1>1. FramesInv => ReportFitsFrame
    BY DEF FramesInv
  <1> QED
    BY <1>1, FramesInductive, PTL

-----------------------------------------------------------------------------
(* What is wanted is sent                                                  *)

\* Only a node with a session is asked for an uplink, and a restart forgets
\* both.
LEMMA WantedInSession == FramesSpec => [](wanted => activated)
  <1>1. FramesInit => (wanted => activated)
    BY DEF FramesInit
  <1>2. IInv /\ (wanted => activated) /\ [FramesNext]_allVars
          => (wanted => activated)'
    <2> SUFFICES ASSUME IInv, wanted => activated, [FramesNext]_allVars,
                        wanted'
                 PROVE  activated'
      OBVIOUS
    <2>1. CASE CaseSendFrame \/ UplinkWanted
      BY <2>1
      DEF CaseSendFrame, CaseSend, Attempt, UplinkWanted, McpsIndication,
          MlmeIndication, frameVars
    <2>2. CASE ResetFrames
      BY <2>2 DEF ResetFrames
    <2>3. CASE OtherStep
      <3>1. wanted
        BY <2>3 DEF OtherStep, frameVars
      <3>2. activated /\ pc # "case_RESTORE"
        BY <3>1 DEF IInv, CaseFitsState, SessionFitsState
      <3> QED
        BY <2>3, <3>2
        DEF OtherStep, InitializeMac, Halted, LoRaMacProcess,
            RequestContinues, Confirm, MlmeConfirmJoined, MlmeConfirmFailed,
            McpsConfirm, NoUplinkWanted, Dispatch, CaseRestore, CaseStart,
            CaseJoin, CaseSendDone, CaseCycleJoin, ArmJoin, CaseCycleRun,
            ArmRun, CaseSleep, SleepPending, SleepLowPower, LeaveCritical,
            TimerInterrupt, OnMacProcessNotify, vars
    <2>4. CASE UNCHANGED allVars
      BY <2>4 DEF allVars, vars, frameVars
    <2> QED
      BY <2>1, <2>2, <2>3, <2>4 DEF FramesNext
  <1> QED
    BY <1>1, <1>2, FramesImplementNode, Inductive, PTL DEF FramesSpec

\* As long as an uplink is wanted nobody else makes the idle MAC busy.
LEMMA IdleUntilAccepted ==
  ASSUME IInv, [FramesNext]_allVars, wanted, wanted', activated,
         macRequest = "none"
  PROVE  macRequest' = "none"
  <1>1. CASE CaseSendFrame
    <2>1. CASE NextTx
      BY <1>1, <2>1
      DEF CaseSendFrame, Attempt, Accepted, CaseSend, SendFrame
    <2>2. CASE ~NextTx
      BY <1>1, <2>2 DEF CaseSendFrame, CaseSend
    <2> QED
      BY <2>1, <2>2
  <1>2. CASE UplinkWanted \/ ResetFrames
    BY <1>2
    DEF UplinkWanted, ResetFrames, Reset, McpsIndication, MlmeIndication,
        OnTxNextPacketTimerEvent
  <1>3. CASE OtherStep
    <2>1. pc # "case_JOIN"
      BY DEF IInv, CaseFitsState, SessionFitsState
    <2> QED
      BY <1>3, <2>1
      DEF OtherStep, InitializeMac, Halted, LoRaMacProcess,
          RequestContinues, Confirm, MlmeConfirmJoined, MlmeConfirmFailed,
          McpsConfirm, NoUplinkWanted, Dispatch, CaseRestore, CaseStart,
          CaseJoin, CaseSendDone, CaseCycleJoin, ArmJoin, CaseCycleRun,
          ArmRun, CaseSleep, SleepPending, SleepLowPower, LeaveCritical,
          TimerInterrupt, OnMacProcessNotify, OnTxNextPacketTimerEvent, vars
  <1>4. CASE UNCHANGED allVars
    BY <1>4 DEF allVars, vars
  <1> QED
    BY <1>1, <1>2, <1>3, <1>4 DEF FramesNext

\* An uplink that was asked for is sent, or the node restarts: WantedIsSent.
\* The MAC becomes idle (UplinkIsConfirmed) and stays so; the attempts keep
\* coming (UplinksNeverCease) until it takes one.
THEOREM WantedUplinkIsSent ==
  ASSUME MibStatus = {"OK"}
  PROVE  FramesFairSpec /\ []StepsEnabled => WantedIsSent
  <1>1. FramesFairSpec
          => /\ FairSpec
             /\ []IInv
             /\ [](wanted => activated)
    BY FramesImplementNode, Inductive, WantedInSession, PTL
    DEF FramesFairSpec, FairSpec
  <1>2. IInv /\ wanted /\ activated /\ macRequest = "none"
          /\ [FramesNext]_allVars => (macRequest = "none" \/ ~wanted)'
    BY IdleUntilAccepted
  <1>3. IInv /\ activated => InFlight \/ macRequest = "none"
    BY DEF IInv, TypeOK, OneJoinAtATime, InFlight
  <1>4. Answered => macRequest = "none" \/ ~activated
    BY DEF Answered
  <1>5. IInv /\ StepsEnabled /\ pc = "case_SEND" /\ macRequest = "none"
          => ENABLED <<CaseSend /\ Accepted>>_vars
    BY DEF IInv, CaseFitsState, DueUplinkCanBeSent, StepsEnabled
  <1>6. IInv /\ [FramesNext]_allVars /\ <<CaseSend /\ Accepted>>_vars
          => ~wanted'
    <2> SUFFICES ASSUME IInv, [FramesNext]_allVars, CaseSend, Accepted
                 PROVE  ~wanted'
      OBVIOUS
    <2>1. pc = "case_SEND" /\ pc' = "sent" /\ NextTx
      BY DEF CaseSend, Accepted
    <2>2. CaseSendFrame
      BY <2>1
      DEF FramesNext, UplinkWanted, McpsIndication, MlmeIndication,
          ResetFrames, Reset, OtherStep, InitializeMac, Halted,
          LoRaMacProcess, RequestContinues, Confirm, MlmeConfirmJoined,
          MlmeConfirmFailed, McpsConfirm, NoUplinkWanted, Dispatch,
          CaseRestore, CaseStart, CaseJoin, CaseSendDone, CaseCycleJoin,
          ArmJoin, CaseCycleRun, ArmRun, CaseSleep, SleepPending,
          SleepLowPower, LeaveCritical, TimerInterrupt, OnMacProcessNotify,
          allVars, vars
    <2> QED
      BY <2>1, <2>2 DEF CaseSendFrame, Attempt
  <1> QED
    BY <1>1, <1>2, <1>3, <1>4, <1>5, <1>6, UplinksNeverCease,
       UplinkIsConfirmed, PTL
    DEF FramesFairSpec, FramesSpec, WantedIsSent, UplinksKeepComing,
        UplinkIsAnswered
=============================================================================
